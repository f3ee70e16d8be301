------------------------------- MODULE MCMmu -------------------------------
(* Mmu on small instances: which virtual pages there are.                  *)
EXTENDS Mmu

\* Apart from the second level on, as the program and the stack of a user
\* task are; they share the first two tables.
Far == {<<0, 0, 0, 0>>, <<0, 1, 1, 1>>}

\* Two pages of one last-level table.
KernelPair == {<<0, 0, 1, 0>>, <<0, 0, 1, 1>>}
=============================================================================
