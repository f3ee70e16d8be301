----------------------------- MODULE MCKmalloc -----------------------------
(* Kmalloc with two slabs: two objects to a page, and one.                 *)
EXTENDS Kmalloc

Sizes == <<2, 4>>
=============================================================================
