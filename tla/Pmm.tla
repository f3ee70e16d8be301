-------------------------------- MODULE Pmm --------------------------------
(***************************************************************************)
(* The physical page allocator, kernel/mm/pmm.c: the page descriptors, the *)
(* single free list and the counter of free pages.  The header calls it a  *)
(* buddy allocator; the code keeps order-0 pages only, pops one for an     *)
(* order-0 request and searches the descriptors for adjacent free pages    *)
(* otherwise, so blocks are neither aligned nor merged.                    *)
(*                                                                         *)
(* The free list is a sequence, see PageList.  held records what the       *)
(* callers have: they give back a block once, with the order they asked    *)
(* for, as every caller in src/ does.                                      *)
(***************************************************************************)
EXTENDS PageList

CONSTANTS
  NumPages,      \* num_pages
  Reserved,      \* the pages of KERNEL_BASE .. KERNEL_BASE + KERNEL_SIZE
  MaxOrder       \* MAX_ORDER

Pages == 0..(NumPages - 1)

ASSUME PmmAssumption ==
  /\ NumPages \in Nat \ {0} /\ MaxOrder \in Nat
  /\ \A k \in 0..MaxOrder : 2^k \in 1..NumPages
  /\ Reserved \subseteq Pages

VARIABLES
  flags, order, refcount,   \* the fields of struct page
  free_list,                \* pages from free_lists[0] on
  free_pages,               \* main_zone.free_pages
  held                      \* <<first page, order>> of the blocks in use

vars == <<flags, order, refcount, free_list, free_pages, held>>

Block(f, k) == f..(f + 2^k - 1)

\* The pages of a range of n from f on, the last one first: what pushing them
\* in ascending order leaves at the head of the list.
Descending(f, n) == [i \in 1..n |-> f + n - i]

\* pmm_init(): everything but the kernel image is free.
Init ==
  /\ flags = [p \in Pages |-> IF p \in Reserved THEN "RESERVED" ELSE "FREE"]
  /\ order = [p \in Pages |-> 0]
  /\ refcount = [p \in Pages |-> 0]
  /\ free_list = Without(Descending(0, NumPages), Reserved)
  /\ free_pages = Len(free_list)
  /\ held = {}

-----------------------------------------------------------------------------
(* alloc_pages(), order 0                                                  *)

AllocOne ==
  /\ free_list # <<>>
  /\ LET p == Head(free_list)
     IN  /\ flags' = [flags EXCEPT ![p] = "USED"]
         /\ order' = [order EXCEPT ![p] = 0]
         /\ refcount' = [refcount EXCEPT ![p] = 1]
         /\ held' = held \union {<<p, 0>>}
  /\ free_list' = Tail(free_list)
  /\ free_pages' = free_pages - 1

-----------------------------------------------------------------------------
(* alloc_pages(), order above 0                                            *)

\* Variant: the search looks at one page too few.
FreeRunsShort(k) == {f \in 0..(NumPages - 2^k) :
                       \A p \in f..(f + 2^k - 2) : flags[p] = "FREE"}

\* Where 2^k adjacent free pages begin.
FreeRuns(k) == {f \in 0..(NumPages - 2^k) :
                  \A p \in Block(f, k) : flags[p] = "FREE"}

FirstFit(k) == CHOOSE f \in FreeRuns(k) : \A g \in FreeRuns(k) : f <= g

\* Variant: only the first page is unlinked from the free list.
AllocUnlinksFirst(k) ==
  /\ FreeRuns(k) # {}
  /\ LET f == FirstFit(k)
         B == Block(f, k)
     IN  /\ free_list' = Without(free_list, {f})
         /\ flags' = [p \in Pages |-> IF p \in B THEN "USED" ELSE flags[p]]
         /\ order' = [p \in Pages |-> IF p = f THEN k
                                      ELSE IF p \in B THEN 0 ELSE order[p]]
         /\ refcount' = [p \in Pages |-> IF p \in B THEN 1 ELSE refcount[p]]
         /\ held' = held \union {<<f, k>>}
  /\ free_pages' = free_pages - 2^k

\* Variant: the counter goes down once for the whole block.
AllocCountsOnce(k) ==
  /\ FreeRuns(k) # {}
  /\ LET f == FirstFit(k)
         B == Block(f, k)
     IN  /\ free_list' = Without(free_list, B)
         /\ flags' = [p \in Pages |-> IF p \in B THEN "USED" ELSE flags[p]]
         /\ order' = [p \in Pages |-> IF p = f THEN k
                                      ELSE IF p \in B THEN 0 ELSE order[p]]
         /\ refcount' = [p \in Pages |-> IF p \in B THEN 1 ELSE refcount[p]]
         /\ held' = held \union {<<f, k>>}
  /\ free_pages' = free_pages - 1

\* The first run is taken: each page leaves the list, the first one records
\* the order, all of them get a reference.
AllocBlock(k) ==
  /\ FreeRuns(k) # {}
  /\ LET f == FirstFit(k)
         B == Block(f, k)
     IN  /\ free_list' = Without(free_list, B)
         /\ flags' = [p \in Pages |-> IF p \in B THEN "USED" ELSE flags[p]]
         /\ order' = [p \in Pages |-> IF p = f THEN k
                                      ELSE IF p \in B THEN 0 ELSE order[p]]
         /\ refcount' = [p \in Pages |-> IF p \in B THEN 1 ELSE refcount[p]]
         /\ held' = held \union {<<f, k>>}
  /\ free_pages' = free_pages - 2^k

-----------------------------------------------------------------------------
(* free_pages()                                                            *)

\* Variant: only the first page of the block is given back.
FreeFirstOnly(f, k) ==
  /\ <<f, k>> \in held
  /\ refcount' = [refcount EXCEPT ![f] = @ - 1]
  /\ flags' = [flags EXCEPT ![f] = "FREE"]
  /\ order' = [order EXCEPT ![f] = 0]
  /\ free_list' = <<f>> \o free_list
  /\ free_pages' = free_pages + 1
  /\ held' = held \ {<<f, k>>}

\* The first page's reference goes; when it was the last one the whole block is
\* pushed page by page.  The other pages keep their reference of 1.
Free(f, k) ==
  /\ <<f, k>> \in held
  /\ LET left == IF refcount[f] > 0 THEN refcount[f] - 1 ELSE 0
         B == Block(f, k)
     IN  /\ refcount' = [refcount EXCEPT ![f] = left]
         /\ IF left = 0
            THEN /\ flags' = [p \in Pages |-> IF p \in B THEN "FREE" ELSE flags[p]]
                 /\ order' = [p \in Pages |-> IF p \in B THEN 0 ELSE order[p]]
                 /\ free_list' = Descending(f, 2^k) \o free_list
                 /\ free_pages' = free_pages + 2^k
            ELSE UNCHANGED <<flags, order, free_list, free_pages>>
  /\ held' = held \ {<<f, k>>}

Next ==
  \/ AllocOne
  \/ \E k \in 1..MaxOrder : AllocBlock(k)
  \/ \E f \in Pages, k \in 0..MaxOrder : Free(f, k)

Spec == Init /\ [][Next]_vars

-----------------------------------------------------------------------------
(* Properties                                                              *)

(* Descriptors, list and counter have their types; the counter of free     *)
(* pages never leaves the number of pages there are.                       *)
TypeOK ==
  /\ flags \in [Pages -> {"FREE", "USED", "RESERVED"}]
  /\ order \in [Pages -> 0..MaxOrder]
  /\ refcount \in [Pages -> {0, 1}]
  /\ free_list \in Seq(Pages)
  /\ free_pages \in 0..NumPages
  /\ held \subseteq Pages \X (0..MaxOrder)

(* The two ways alloc_pages() looks for memory agree: the pages on the     *)
(* list (order 0) are exactly those whose descriptor says FREE (order      *)
(* above 0), each is there once, and the counter is their number.          *)
FreeListExact ==
  /\ Distinct(free_list)
  /\ Entries(free_list) = {p \in Pages : flags[p] = "FREE"}
  /\ free_pages = Len(free_list)

(* The blocks in use are disjoint and are exactly the pages marked USED,   *)
(* and the first page of each says its order and has the one reference     *)
(* that makes the next free_pages() give the whole block back.             *)
BlocksExact ==
  /\ \A b, c \in held : b # c => Block(b[1], b[2]) \intersect Block(c[1], c[2]) = {}
  /\ UNION {Block(b[1], b[2]) : b \in held} = {p \in Pages : flags[p] = "USED"}
  /\ \A b \in held : order[b[1]] = b[2] /\ refcount[b[1]] = 1

(* The promise of PageOwner. *)
Owner == INSTANCE PageOwner WITH
           avail <- {p \in Pages : flags[p] = "FREE"},
           owned <- {Block(b[1], b[2]) : b \in held}

OwnerSafety == Owner!Spec
=============================================================================
