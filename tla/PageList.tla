------------------------------- MODULE PageList -------------------------------
(***************************************************************************)
(* The free list of kernel/mm/pmm.c as a sequence: the pages from          *)
(* free_lists[0] on, along their next pointers.                            *)
(***************************************************************************)
EXTENDS Naturals, Sequences, FiniteSets

\* The pages met from p on along links next, at most n of them.
Walk(p, next, n, null) ==
  LET step[i \in 0..n] ==
        IF i = 0 THEN [seen |-> <<>>, ptr |-> p]
        ELSE LET s == step[i - 1]
             IN  IF s.ptr = null THEN s
                 ELSE [seen |-> Append(s.seen, s.ptr), ptr |-> next[s.ptr]]
  IN  step[n].seen

Entries(list) == {list[i] : i \in 1..Len(list)}

\* Every page is linked once.
Distinct(list) == \A i, j \in 1..Len(list) : list[i] = list[j] => i = j

\* The places of the pages that are not in B, and the n-th of them.
Kept(list, B) == {i \in 1..Len(list) : list[i] \notin B}
Rank(K, i)    == Cardinality({j \in K : j <= i})
Nth(K, n)     == CHOOSE i \in K : Rank(K, i) = n

\* The list once the pages of B are unlinked: the others in their order.
Without(list, B) ==
  LET K == Kept(list, B)
  IN  [n \in 1..Cardinality(K) |-> list[Nth(K, n)]]
=============================================================================
