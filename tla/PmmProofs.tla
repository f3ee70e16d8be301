------------------------------ MODULE PmmProofs -------------------------------
(***************************************************************************)
(* The page allocator for any memory size, kernel image and MAX_ORDER: its *)
(* types, the exactness of the free list and of the blocks in use, and     *)
(* that it keeps the promise of PageOwner.                                 *)
(***************************************************************************)
EXTENDS Pmm, PageListProofs

(* A block of an order the callers ask for has between one and NumPages    *)
(* pages, the first of which names it; an order-0 block is one page.       *)
LEMMA BlockProperties ==
  ASSUME NEW f \in Pages, NEW k \in 0..MaxOrder
  PROVE  /\ 2^k \in 1..NumPages
         /\ f \in Block(f, k)
         /\ IsFiniteSet(Block(f, k)) /\ Cardinality(Block(f, k)) = 2^k
         /\ Block(f, 0) = {f}
<1>1. NumPages \in Nat /\ f \in Nat /\ MaxOrder \in Nat /\ 2^0 = 1
  BY PmmAssumption DEF Pages
<1>2. 2^k \in 1..NumPages
  BY PmmAssumption
<1> DEFINE n == 2^k
<1>3. n \in 1..NumPages
  BY <1>2
<1> HIDE DEF n
<1>4. Block(f, k) = f..(f + n - 1)
  BY DEF Block, n
<1>5. IsFiniteSet(f..(f + n - 1)) /\ Cardinality(f..(f + n - 1)) = n
  BY <1>1, <1>3, FS_Interval
<1>6. f \in f..(f + n - 1)
  BY <1>1, <1>3
<1>7. f..(f + 1 - 1) = {f}
  BY <1>1
<1> QED
  BY <1>1, <1>2, <1>4, <1>5, <1>6, <1>7 DEF Block, n

(* The pages are finitely many, and their number is num_pages.             *)
LEMMA PagesFinite ==
  /\ Pages \in SUBSET Nat /\ IsFiniteSet(Pages) /\ Cardinality(Pages) = NumPages
<1>1. NumPages \in Nat \ {0}
  BY PmmAssumption
<1>2. IsFiniteSet(0..(NumPages - 1)) /\ Cardinality(0..(NumPages - 1)) = NumPages
  BY <1>1, FS_Interval
<1> QED
  BY <1>1, <1>2 DEF Pages

(* Pushing the pages of a range in ascending order, as pmm_init() and      *)
(* free_pages() do, links each of them once.                               *)
LEMMA DescendingProperties ==
  ASSUME NEW f \in Pages, NEW n \in Nat, f + n <= NumPages
  PROVE  /\ Descending(f, n) \in Seq(Pages)
         /\ Len(Descending(f, n)) = n
         /\ Distinct(Descending(f, n))
         /\ Entries(Descending(f, n)) = f..(f + n - 1)
<1> DEFINE d == Descending(f, n)
<1>1. NumPages \in Nat /\ f \in Nat
  BY PmmAssumption DEF Pages
<1>2. d = [i \in 1..n |-> f + n - i]
  BY DEF Descending
<1>3. \A i \in 1..n : f + n - i \in Pages /\ f + n - i \in f..(f + n - 1)
  BY <1>1 DEF Pages
<1>4. d \in [1..n -> Pages]
  BY <1>2, <1>3
<1> HIDE DEF d
<1>5. d \in Seq(Pages)
  BY <1>4, SeqDef
<1>6. Len(d) = n
  BY <1>4, <1>5, LenProperties
<1>7. Distinct(d)
  <2> SUFFICES ASSUME NEW i \in 1..n, NEW j \in 1..n, d[i] = d[j]
               PROVE  i = j
    BY <1>6 DEF Distinct
  <2>1. f + n - i = f + n - j
    BY <1>2
  <2> QED
    BY <2>1, <1>1
<1>8. Entries(d) \subseteq f..(f + n - 1)
  BY <1>2, <1>3, <1>6 DEF Entries
<1>9. ASSUME NEW x \in f..(f + n - 1)
      PROVE  x \in Entries(d)
  <2>1. f + n - x \in 1..n /\ f + n - (f + n - x) = x
    BY <1>1
  <2>2. d[f + n - x] = f + n - (f + n - x)
    BY <1>2, <2>1
  <2> QED
    BY <2>1, <2>2, <1>6 DEF Entries
<1> QED
  BY <1>5, <1>6, <1>7, <1>8, <1>9 DEF d

(* A first run is found when there is one, and it lies within the pages.   *)
LEMMA FirstFitProperties ==
  ASSUME NEW k \in 0..MaxOrder, FreeRuns(k) # {}
  PROVE  /\ FirstFit(k) \in Pages
         /\ Block(FirstFit(k), k) \subseteq {p \in Pages : flags[p] = "FREE"}
<1> DEFINE n == 2^k
<1>1. NumPages \in Nat /\ n \in 1..NumPages
  BY PmmAssumption
<1> HIDE DEF n
<1>2. FreeRuns(k) \subseteq 0..(NumPages - n)
  BY DEF FreeRuns, n
<1>3. FreeRuns(k) \in SUBSET Nat
  BY <1>1, <1>2
<1>4. \E f \in FreeRuns(k) : \A g \in FreeRuns(k) : f <= g
  BY <1>3, Least
<1>5. FirstFit(k) \in FreeRuns(k)
  BY <1>4 DEF FirstFit
<1>6. FirstFit(k) \in 0..(NumPages - n) /\ \A p \in Block(FirstFit(k), k) : flags[p] = "FREE"
  BY <1>5, <1>2 DEF FreeRuns
<1>7. Block(FirstFit(k), k) = FirstFit(k)..(FirstFit(k) + n - 1)
  BY DEF Block, n
<1>8. FirstFit(k)..(FirstFit(k) + n - 1) \subseteq Pages /\ FirstFit(k) \in Pages
  BY <1>1, <1>6 DEF Pages
<1> QED
  BY <1>6, <1>7, <1>8

-----------------------------------------------------------------------------
(* What is inductive: the three invariants together, and that the pages of *)
(* the kernel image keep their mark.                                       *)

FreePages == {p \in Pages : flags[p] = "FREE"}

IInv ==
  /\ TypeOK /\ FreeListExact /\ BlocksExact
  /\ \A p \in Reserved : flags[p] = "RESERVED"

(* pmm_init() leaves every page outside the image free, listed and         *)
(* counted.                                                                *)
LEMMA InitIInv == Init => IInv
<1> SUFFICES ASSUME Init PROVE IInv
  OBVIOUS
<1>1. NumPages \in Nat \ {0} /\ MaxOrder \in Nat /\ Reserved \subseteq Pages
  BY PmmAssumption
<1> DEFINE d == Descending(0, NumPages)
<1>2. d \in Seq(Pages) /\ Distinct(d) /\ Entries(d) = Pages
  <2>1. 0 \in Pages /\ 0 + NumPages <= NumPages
    BY <1>1 DEF Pages
  <2>2. 0..(0 + NumPages - 1) = Pages
    BY <1>1 DEF Pages
  <2> QED
    BY <2>1, <2>2, <1>1, DescendingProperties
<1>3. free_list = Without(d, Reserved) /\ free_pages = Len(free_list) /\ held = {}
  BY DEF Init
<1> HIDE DEF d
<1>4. /\ free_list \in Seq(Pages) /\ Distinct(free_list)
      /\ Entries(free_list) = Pages \ Reserved
  BY <1>2, <1>3, WithoutProperties
<1>5. /\ flags \in [Pages -> {"FREE", "USED", "RESERVED"}]
      /\ \A p \in Pages : flags[p] = IF p \in Reserved THEN "RESERVED" ELSE "FREE"
  BY DEF Init
<1>6. free_pages \in 0..NumPages
  <2>1. Cardinality(Pages \ Reserved) <= NumPages /\ Cardinality(Pages \ Reserved) \in Nat
    <3>1. Pages \ Reserved \in SUBSET Pages
      OBVIOUS
    <3> QED
      BY <3>1, PagesFinite, FS_Subset, FS_CardinalityType
  <2>2. Cardinality(Entries(free_list)) = Len(free_list)
    BY <1>4, DistinctLength
  <2> QED
    BY <2>1, <2>2, <1>1, <1>3, <1>4
<1>7. order \in [Pages -> 0..MaxOrder] /\ refcount \in [Pages -> {0, 1}]
  BY <1>1 DEF Init
<1>8. TypeOK
  BY <1>3, <1>4, <1>5, <1>6, <1>7 DEF TypeOK
<1>9. FreeListExact
  <2>1. Pages \ Reserved = {p \in Pages : flags[p] = "FREE"}
    BY <1>5
  <2> QED
    BY <2>1, <1>3, <1>4 DEF FreeListExact
<1>10. BlocksExact
  <2>1. {p \in Pages : flags[p] = "USED"} = {}
    BY <1>5
  <2> QED
    BY <2>1, <1>3 DEF BlocksExact
<1> QED
  BY <1>1, <1>5, <1>8, <1>9, <1>10 DEF IInv

(* The counter is right whatever happened to the list, as long as it holds *)
(* each free page once.                                                    *)
LEMMA CounterInRange ==
  ASSUME NEW list \in Seq(Pages), Distinct(list)
  PROVE  Len(list) \in 0..NumPages
<1>1. Entries(list) \in SUBSET Pages
  <2>1. \A i \in 1..Len(list) : list[i] \in Pages
    BY ElementOfSeq
  <2> QED
    BY <2>1 DEF Entries
<1>2. /\ Cardinality(Entries(list)) = Len(list)
      /\ Cardinality(Entries(list)) <= NumPages
  BY <1>1, DistinctLength, PagesFinite, FS_Subset
<1>3. Len(list) \in Nat /\ NumPages \in Nat
  BY LenProperties, PmmAssumption
<1> QED
  BY <1>2, <1>3

(* Taking a block: its pages leave the list and the counter together, are  *)
(* marked, and its first page records the order and gets the reference.    *)
Took(f, k) ==
  /\ Block(f, k) \subseteq FreePages
  /\ free_list' \in Seq(Pages) /\ Distinct(free_list')
  /\ Entries(free_list') = Entries(free_list) \ Block(f, k)
  /\ free_pages' = free_pages - 2^k
  /\ flags' = [p \in Pages |-> IF p \in Block(f, k) THEN "USED" ELSE flags[p]]
  /\ order' = [p \in Pages |-> IF p = f THEN k
                               ELSE IF p \in Block(f, k) THEN 0 ELSE order[p]]
  /\ refcount' = [p \in Pages |-> IF p \in Block(f, k) THEN 1 ELSE refcount[p]]
  /\ held' = held \union {<<f, k>>}

(* It keeps the invariants. *)
LEMMA TookKeeps ==
  ASSUME IInv, NEW f \in Pages, NEW k \in 0..MaxOrder, Took(f, k)
  PROVE  IInv'
<1> DEFINE B == Block(f, k)
<1>1. f \in B /\ IsFiniteSet(B) /\ Cardinality(B) = 2^k /\ 2^k \in Nat
  <2>1. \A n \in 1..NumPages : n \in Nat
    BY PmmAssumption
  <2> QED
    BY <2>1, BlockProperties
<1>2. B \subseteq Pages /\ \A p \in B : flags[p] = "FREE"
  BY DEF FreePages, Took
<1>3. TypeOK /\ FreeListExact /\ BlocksExact /\ \A p \in Reserved : flags[p] = "RESERVED"
  BY DEF IInv
<1> HIDE DEF B
<1>4. /\ flags' = [p \in Pages |-> IF p \in B THEN "USED" ELSE flags[p]]
      /\ order' = [p \in Pages |-> IF p = f THEN k ELSE IF p \in B THEN 0 ELSE order[p]]
      /\ refcount' = [p \in Pages |-> IF p \in B THEN 1 ELSE refcount[p]]
      /\ Entries(free_list') = Entries(free_list) \ B
      /\ B \subseteq FreePages
      /\ free_list' \in Seq(Pages) /\ Distinct(free_list')
      /\ free_pages' = free_pages - 2^k
      /\ held' = held \union {<<f, k>>}
  BY DEF B, Took
<1>5. free_pages' = Len(free_list')
  <2>1. /\ IsFiniteSet(Entries(free_list))
        /\ Cardinality(Entries(free_list)) = free_pages
        /\ Entries(free_list) = FreePages
    BY <1>3, DistinctLength DEF TypeOK, FreeListExact, FreePages
  <2>2. Cardinality(Entries(free_list) \ B) = Cardinality(Entries(free_list)) - Cardinality(Entries(free_list) \intersect B)
    BY <2>1, FS_Difference
  <2>3. Entries(free_list) \intersect B = B
    BY <2>1, <1>4
  <2>4. Cardinality(Entries(free_list')) = Len(free_list')
    BY <1>4, DistinctLength
  <2> QED
    BY <2>1, <2>2, <2>3, <2>4, <1>1, <1>4
<1>6. FreeListExact'
  <2>1. FreePages \ B = {p \in Pages : flags'[p] = "FREE"}
    BY <1>4 DEF FreePages
  <2> QED
    BY <2>1, <1>3, <1>4, <1>5 DEF FreeListExact, FreePages
<1>7. TypeOK'
  <2>1. free_pages' \in 0..NumPages
    BY <1>4, <1>5, CounterInRange
  <2>2. flags' \in [Pages -> {"FREE", "USED", "RESERVED"}]
    BY <1>3, <1>4 DEF TypeOK
  <2>3. order' \in [Pages -> 0..MaxOrder]
    <3>1. 0 \in 0..MaxOrder
      BY PmmAssumption
    <3> QED
      BY <3>1, <1>3, <1>4 DEF TypeOK
  <2>4. refcount' \in [Pages -> {0, 1}]
    BY <1>3, <1>4 DEF TypeOK
  <2>5. held' \subseteq Pages \X (0..MaxOrder)
    BY <1>3, <1>4 DEF TypeOK
  <2> QED
    BY <2>1, <2>2, <2>3, <2>4, <2>5, <1>4 DEF TypeOK
<1>8. \A c \in held : Block(c[1], c[2]) \subseteq {p \in Pages : flags[p] = "USED"}
  BY <1>3 DEF BlocksExact
<1>9. \A c \in held : Block(c[1], c[2]) \intersect B = {} /\ c[1] \in Block(c[1], c[2])
                      /\ c[1] \in Pages
  <2> TAKE c \in held
  <2>1. c[1] \in Pages /\ c[2] \in 0..MaxOrder
    BY <1>3 DEF TypeOK
  <2>2. c[1] \in Block(c[1], c[2])
    BY <2>1, BlockProperties
  <2>3. Block(c[1], c[2]) \intersect B = {}
    BY <1>8, <1>2
  <2> QED
    BY <2>1, <2>2, <2>3
<1>10. BlocksExact'
  <2>1. \A b, c \in held' : b # c => Block(b[1], b[2]) \intersect Block(c[1], c[2]) = {}
    <3>1. \A b, c \in held : b # c => Block(b[1], b[2]) \intersect Block(c[1], c[2]) = {}
      BY <1>3 DEF BlocksExact
    <3>2. \A b \in held' : b \in held \/ (b[1] = f /\ b[2] = k /\ b = <<f, k>>)
      BY <1>4
    <3> QED
      BY <3>1, <3>2, <1>9 DEF B
  <2>2. UNION {Block(b[1], b[2]) : b \in held'} = {p \in Pages : flags'[p] = "USED"}
    <3>1. UNION {Block(b[1], b[2]) : b \in held} = {p \in Pages : flags[p] = "USED"}
      BY <1>3 DEF BlocksExact
    <3>2. {Block(b[1], b[2]) : b \in held'} = {Block(b[1], b[2]) : b \in held} \union {B}
      <4> DEFINE e == <<f, k>>
      <4>1. Block(e[1], e[2]) = B /\ held' = held \union {e}
        BY <1>4 DEF B
      <4> HIDE DEF e
      <4> QED
        BY <4>1
    <3>3. {p \in Pages : flags'[p] = "USED"} = {p \in Pages : flags[p] = "USED"} \union B
      BY <1>2, <1>4
    <3> QED
      BY <3>1, <3>2, <3>3
  <2>3. \A b \in held' : order'[b[1]] = b[2] /\ refcount'[b[1]] = 1
    <3>1. \A b \in held : order[b[1]] = b[2] /\ refcount[b[1]] = 1
      BY <1>3 DEF BlocksExact
    <3>2. \A b \in held : b[1] \notin B /\ b[1] # f /\ b[1] \in Pages
      BY <1>9, <1>1
    <3>3. order'[f] = k /\ refcount'[f] = 1
      BY <1>1, <1>4
    <3>4. \A b \in held' : b \in held \/ (b[1] = f /\ b[2] = k)
      BY <1>4
    <3> QED
      BY <3>1, <3>2, <3>3, <3>4, <1>4
  <2> QED
    BY <2>1, <2>2, <2>3 DEF BlocksExact
<1>11. \A p \in Reserved : flags'[p] = "RESERVED"
  BY <1>2, <1>3, <1>4, PmmAssumption
<1> QED
  BY <1>6, <1>7, <1>10, <1>11 DEF IInv

(* alloc_pages() for one page pops the head, which is a free page ...      *)
LEMMA AllocOneTakes ==
  ASSUME IInv, AllocOne
  PROVE  \E f \in Pages : Took(f, 0)
<1> DEFINE p == Head(free_list)
<1>1. /\ free_list \in Seq(Pages) /\ Distinct(free_list) /\ free_list # <<>>
      /\ Entries(free_list) = FreePages
      /\ flags \in [Pages -> {"FREE", "USED", "RESERVED"}]
      /\ order \in [Pages -> 0..MaxOrder] /\ refcount \in [Pages -> {0, 1}]
  BY DEF IInv, TypeOK, FreeListExact, FreePages, AllocOne
<1>2. /\ p \in Pages /\ Tail(free_list) \in Seq(Pages)
      /\ Distinct(Tail(free_list))
      /\ Entries(Tail(free_list)) = Entries(free_list) \ {p}
  BY <1>1, TailProperties
<1>3. p \in FreePages
  <2>1. Len(free_list) \in Nat \ {0} /\ p = free_list[1]
    BY <1>1, EmptySeq, HeadTailProperties
  <2> QED
    BY <2>1, <1>1 DEF Entries
<1>4. /\ flags' = [flags EXCEPT ![p] = "USED"]
      /\ order' = [order EXCEPT ![p] = 0]
      /\ refcount' = [refcount EXCEPT ![p] = 1]
      /\ held' = held \union {<<p, 0>>}
      /\ free_list' = Tail(free_list)
      /\ free_pages' = free_pages - 1
  BY DEF AllocOne
<1> HIDE DEF p
<1>5. 0 \in 0..MaxOrder /\ 2^0 = 1
  BY PmmAssumption
<1>6. Block(p, 0) = {p}
  BY <1>2, <1>5, BlockProperties
<1>7. /\ flags' = [q \in Pages |-> IF q \in {p} THEN "USED" ELSE flags[q]]
      /\ order' = [q \in Pages |-> IF q = p THEN 0 ELSE IF q \in {p} THEN 0 ELSE order[q]]
      /\ refcount' = [q \in Pages |-> IF q \in {p} THEN 1 ELSE refcount[q]]
  BY <1>1, <1>2, <1>4
<1>8. Took(p, 0)
  BY <1>2, <1>3, <1>4, <1>5, <1>6, <1>7 DEF Took
<1> QED
  BY <1>2, <1>8

(* ... and for more it takes the first run of free pages off the list.     *)
LEMMA AllocBlockTakes ==
  ASSUME IInv, NEW k \in 1..MaxOrder, AllocBlock(k)
  PROVE  \E f \in Pages : Took(f, k)
<1> DEFINE f == FirstFit(k)
<1>1. k \in 0..MaxOrder
  BY PmmAssumption
<1>2. f \in Pages /\ Block(f, k) \subseteq FreePages
  BY <1>1, FirstFitProperties DEF AllocBlock, FreePages
<1>3. free_list \in Seq(Pages) /\ Distinct(free_list)
  BY DEF IInv, TypeOK, FreeListExact
<1>4. /\ free_list' = Without(free_list, Block(f, k))
      /\ flags' = [p \in Pages |-> IF p \in Block(f, k) THEN "USED" ELSE flags[p]]
      /\ order' = [p \in Pages |-> IF p = f THEN k
                                   ELSE IF p \in Block(f, k) THEN 0 ELSE order[p]]
      /\ refcount' = [p \in Pages |-> IF p \in Block(f, k) THEN 1 ELSE refcount[p]]
      /\ held' = held \union {<<f, k>>}
      /\ free_pages' = free_pages - 2^k
  BY DEF AllocBlock
<1> HIDE DEF f
<1>5. /\ free_list' \in Seq(Pages) /\ Distinct(free_list')
      /\ Entries(free_list') = Entries(free_list) \ Block(f, k)
  BY <1>3, <1>4, WithoutProperties
<1>6. Took(f, k)
  BY <1>2, <1>4, <1>5 DEF Took
<1> QED
  BY <1>2, <1>6

(* Giving a block back: the caller's reference was the last one, so all of *)
(* its pages are pushed.                                                   *)
LEMMA FreeGivesBack ==
  ASSUME IInv, NEW f \in Pages, NEW k \in 0..MaxOrder, Free(f, k)
  PROVE  /\ <<f, k>> \in held /\ held' = held \ {<<f, k>>}
         /\ refcount' = [refcount EXCEPT ![f] = 0]
         /\ flags' = [p \in Pages |-> IF p \in Block(f, k) THEN "FREE" ELSE flags[p]]
         /\ order' = [p \in Pages |-> IF p \in Block(f, k) THEN 0 ELSE order[p]]
         /\ free_list' = Descending(f, 2^k) \o free_list
         /\ free_pages' = free_pages + 2^k
<1>1. <<f, k>> \in held /\ held' = held \ {<<f, k>>}
  BY DEF Free
<1>2. refcount[f] = 1
  <2>1. \A b \in held : refcount[b[1]] = 1
    BY DEF IInv, BlocksExact
  <2> QED
    BY <2>1, <1>1
<1> DEFINE left == IF refcount[f] > 0 THEN refcount[f] - 1 ELSE 0
<1>3. left = 0
  BY <1>2
<1> QED
  BY <1>1, <1>3 DEF Free

(* The blocks in use are not empty, lie within the pages and share none.   *)
LEMMA HeldApart ==
  ASSUME IInv, NEW b \in held, NEW c \in held
  PROVE  /\ Block(b[1], b[2]) \subseteq {p \in Pages : flags[p] = "USED"}
         /\ b[1] \in Block(b[1], b[2]) /\ b[1] \in Pages /\ b[2] \in 0..MaxOrder
         /\ b # c => Block(b[1], b[2]) \intersect Block(c[1], c[2]) = {}
<1>1. b[1] \in Pages /\ b[2] \in 0..MaxOrder
  BY DEF IInv, TypeOK
<1>2. b[1] \in Block(b[1], b[2])
  BY <1>1, BlockProperties
<1>3. Block(b[1], b[2]) \subseteq {p \in Pages : flags[p] = "USED"}
  BY DEF IInv, BlocksExact
<1>4. b # c => Block(b[1], b[2]) \intersect Block(c[1], c[2]) = {}
  BY DEF IInv, BlocksExact
<1> QED
  BY <1>1, <1>2, <1>3, <1>4

(* free_pages() keeps the invariants.                                      *)
LEMMA FreeKeeps ==
  ASSUME IInv, NEW f \in Pages, NEW k \in 0..MaxOrder, Free(f, k)
  PROVE  IInv'
<1> DEFINE B == Block(f, k)
           b == <<f, k>>
           n == 2^k
           d == Descending(f, n)
<1>1. /\ b \in held /\ held' = held \ {b}
      /\ refcount' = [refcount EXCEPT ![f] = 0]
      /\ flags' = [p \in Pages |-> IF p \in B THEN "FREE" ELSE flags[p]]
      /\ order' = [p \in Pages |-> IF p \in B THEN 0 ELSE order[p]]
      /\ free_list' = d \o free_list
      /\ free_pages' = free_pages + n
  BY FreeGivesBack
<1>2. n \in 1..NumPages /\ f \in B
  BY BlockProperties
<1>3. B = f..(f + n - 1)
  BY DEF Block
<1>4. b[1] = f /\ b[2] = k
  OBVIOUS
<1> HIDE DEF n, d, b, B
<1>5. B \subseteq {p \in Pages : flags[p] = "USED"}
  <2>1. Block(b[1], b[2]) \subseteq {p \in Pages : flags[p] = "USED"}
    BY <1>1, HeldApart
  <2> QED
    BY <2>1, <1>4 DEF B
<1>6. f + n <= NumPages
  <2>1. f \in Nat /\ NumPages \in Nat
    BY PmmAssumption DEF Pages
  <2>2. f + n - 1 \in B
    BY <2>1, <1>2, <1>3
  <2>3. f + n - 1 \in Pages
    BY <2>2, <1>5
  <2> QED
    BY <2>1, <2>3, <1>2 DEF Pages
<1>7. d \in Seq(Pages) /\ Len(d) = n /\ Distinct(d) /\ Entries(d) = B
  <2>1. n \in Nat
    BY <1>2, PmmAssumption
  <2> QED
    BY <2>1, <1>3, <1>6, DescendingProperties DEF d
<1>8. TypeOK /\ FreeListExact /\ BlocksExact /\ \A p \in Reserved : flags[p] = "RESERVED"
  BY DEF IInv
<1>9. free_list \in Seq(Pages) /\ Distinct(free_list) /\ Entries(free_list) = FreePages
  BY <1>8 DEF TypeOK, FreeListExact, FreePages
<1>10. /\ free_list' \in Seq(Pages) /\ Len(free_list') = n + Len(free_list)
       /\ Distinct(free_list') /\ Entries(free_list') = B \union FreePages
  <2>1. free_list' \in Seq(Pages) /\ Len(free_list') = n + Len(free_list)
    BY <1>1, <1>7, <1>9, ConcatProperties
  <2>2. Entries(free_list') = B \union FreePages
    BY <1>1, <1>7, <1>9, ConcatEntries
  <2>3. Entries(d) \intersect Entries(free_list) = {}
    BY <1>5, <1>7, <1>9 DEF FreePages
  <2>4. Distinct(free_list')
    BY <2>3, <1>1, <1>7, <1>9, ConcatDistinct
  <2> QED
    BY <2>1, <2>2, <2>4
<1>11. FreeListExact'
  <2>1. {p \in Pages : flags'[p] = "FREE"} = B \union FreePages
    BY <1>1, <1>5 DEF FreePages
  <2>2. free_pages' = Len(free_list')
    <3>1. Len(free_list) \in Nat /\ n \in Nat /\ free_pages = Len(free_list)
      BY <1>2, <1>8, <1>9, LenProperties, PmmAssumption DEF FreeListExact
    <3> QED
      BY <3>1, <1>1, <1>10
  <2> QED
    BY <2>1, <2>2, <1>10 DEF FreeListExact
<1>12. TypeOK'
  <2>1. free_pages' \in 0..NumPages
    BY <1>10, <1>11, CounterInRange DEF FreeListExact
  <2>2. flags' \in [Pages -> {"FREE", "USED", "RESERVED"}]
    BY <1>1, <1>8 DEF TypeOK
  <2>3. order' \in [Pages -> 0..MaxOrder]
    <3>1. 0 \in 0..MaxOrder
      BY PmmAssumption
    <3> QED
      BY <3>1, <1>1, <1>8 DEF TypeOK
  <2>4. refcount' \in [Pages -> {0, 1}]
    BY <1>1, <1>8 DEF TypeOK
  <2>5. held' \subseteq Pages \X (0..MaxOrder)
    BY <1>1, <1>8 DEF TypeOK
  <2> QED
    BY <2>1, <2>2, <2>3, <2>4, <2>5, <1>10 DEF TypeOK
<1>13. \A c \in held' : /\ c \in held /\ c[1] \in Pages /\ c[1] \notin B
                        /\ c[1] \in Block(c[1], c[2])
                        /\ Block(c[1], c[2]) \intersect B = {}
  <2> TAKE c \in held'
  <2>1. c \in held /\ c # b
    BY <1>1
  <2>2. c[1] \in Pages /\ c[1] \in Block(c[1], c[2])
    BY <2>1, <1>1, HeldApart
  <2>3. Block(c[1], c[2]) \intersect Block(b[1], b[2]) = {}
    BY <2>1, <1>1, HeldApart
  <2>4. Block(c[1], c[2]) \intersect B = {}
    BY <2>3, <1>4 DEF B
  <2> QED
    BY <2>1, <2>2, <2>4
<1>14. BlocksExact'
  <2>1. \A c, e \in held' : c # e => Block(c[1], c[2]) \intersect Block(e[1], e[2]) = {}
    BY <1>8, <1>13 DEF BlocksExact
  <2>2. UNION {Block(c[1], c[2]) : c \in held'} = {p \in Pages : flags'[p] = "USED"}
    <3>1. UNION {Block(c[1], c[2]) : c \in held} = {p \in Pages : flags[p] = "USED"}
      BY <1>8 DEF BlocksExact
    <3>2. \A c \in held : c \in held' \/ Block(c[1], c[2]) = B
      BY <1>1, <1>4 DEF B
    <3>3. {p \in Pages : flags'[p] = "USED"} = {p \in Pages : flags[p] = "USED"} \ B
      BY <1>1
    <3>4. \A x \in UNION {Block(c[1], c[2]) : c \in held'} :
             x \in {p \in Pages : flags'[p] = "USED"}
      BY <3>1, <3>3, <1>13
    <3>5. \A x \in {p \in Pages : flags'[p] = "USED"} :
             x \in UNION {Block(c[1], c[2]) : c \in held'}
      <4> TAKE x \in {p \in Pages : flags'[p] = "USED"}
      <4>1. x \notin B /\ x \in UNION {Block(c[1], c[2]) : c \in held}
        BY <3>1, <3>3
      <4>2. PICK c \in held : x \in Block(c[1], c[2])
        BY <4>1
      <4> QED
        BY <4>1, <4>2, <3>2
    <3> QED
      BY <3>4, <3>5
  <2>3. \A c \in held' : order'[c[1]] = c[2] /\ refcount'[c[1]] = 1
    <3>1. \A c \in held : order[c[1]] = c[2] /\ refcount[c[1]] = 1
      BY <1>8 DEF BlocksExact
    <3>2. refcount \in [Pages -> {0, 1}]
      BY <1>8 DEF TypeOK
    <3> QED
      BY <3>1, <3>2, <1>1, <1>2, <1>13
  <2> QED
    BY <2>1, <2>2, <2>3 DEF BlocksExact
<1>15. \A p \in Reserved : flags'[p] = "RESERVED"
  BY <1>1, <1>5, <1>8, PmmAssumption
<1> QED
  BY <1>11, <1>12, <1>14, <1>15 DEF IInv

(* Every call of the allocator keeps the invariants.                       *)
LEMMA NextIInv == IInv /\ [Next]_vars => IInv'
<1> SUFFICES ASSUME IInv, [Next]_vars PROVE IInv'
  OBVIOUS
<1>1. 0 \in 0..MaxOrder /\ \A k \in 1..MaxOrder : k \in 0..MaxOrder
  BY PmmAssumption
<1>2. CASE AllocOne
  BY <1>1, <1>2, AllocOneTakes, TookKeeps
<1>3. ASSUME NEW k \in 1..MaxOrder, AllocBlock(k) PROVE IInv'
  BY <1>1, <1>3, AllocBlockTakes, TookKeeps
<1>4. ASSUME NEW f \in Pages, NEW k \in 0..MaxOrder, Free(f, k) PROVE IInv'
  BY <1>4, FreeKeeps
<1>5. CASE UNCHANGED vars
  BY <1>5 DEF vars, IInv, TypeOK, FreeListExact, BlocksExact
<1> QED
  BY <1>2, <1>3, <1>4, <1>5 DEF Next

(* The invariant holds in every reachable state. *)
LEMMA IInvCorrect == Spec => []IInv
  BY InitIInv, NextIInv, PTL DEF Spec

-----------------------------------------------------------------------------
(* The types hold, and the counter of free pages stays within the number   *)
(* of pages there are, whatever is allocated and given back.               *)
THEOREM TypeCorrect == Spec => []TypeOK
<1>1. IInv => TypeOK
  BY DEF IInv
<1> QED
  BY <1>1, IInvCorrect, PTL

(* The free list, the marks in the descriptors and the counter agree, so   *)
(* the two ways of alloc_pages() to look for memory never contradict each  *)
(* other.                                                                  *)
THEOREM FreeListCorrect == Spec => []FreeListExact
<1>1. IInv => FreeListExact
  BY DEF IInv
<1> QED
  BY <1>1, IInvCorrect, PTL

(* The blocks in use are disjoint and are the pages marked USED, and each  *)
(* has the order and the reference that free_pages() will need.            *)
THEOREM BlocksCorrect == Spec => []BlocksExact
<1>1. IInv => BlocksExact
  BY DEF IInv
<1> QED
  BY <1>1, IInvCorrect, PTL

-----------------------------------------------------------------------------
(* The pages that may be granted and the blocks that are: what PageOwner   *)
(* sees of the allocator.                                                  *)
Granted == {Block(b[1], b[2]) : b \in held}

(* Taking a block is a Grant. *)
LEMMA TookGrants ==
  ASSUME NEW f \in Pages, NEW k \in 0..MaxOrder, Took(f, k)
  PROVE  Owner!Grant(f, k)
<1> DEFINE B == Block(f, k)
<1>1. B \subseteq FreePages
  BY DEF Took
<1>2. FreePages' = FreePages \ B
  BY DEF Took, FreePages
<1>3. Granted' = Granted \union {B}
  <2> DEFINE e == <<f, k>>
  <2>1. Block(e[1], e[2]) = B /\ held' = held \union {e}
    BY DEF Took
  <2> HIDE DEF e, B
  <2> QED
    BY <2>1 DEF Granted
<1> QED
  BY <1>1, <1>2, <1>3 DEF Owner!Grant, Owner!Block, Block, FreePages, Granted

(* Giving a block back is a Reclaim of the same block. *)
LEMMA FreeReclaims ==
  ASSUME IInv, NEW f \in Pages, NEW k \in 0..MaxOrder, Free(f, k)
  PROVE  Block(f, k) \in Granted /\ Owner!Reclaim(Block(f, k))
<1> DEFINE B == Block(f, k)
           b == <<f, k>>
<1>1. /\ b \in held /\ held' = held \ {b}
      /\ flags' = [p \in Pages |-> IF p \in B THEN "FREE" ELSE flags[p]]
  BY FreeGivesBack
<1>2. Block(b[1], b[2]) = B
  OBVIOUS
<1> HIDE DEF b, B
<1>3. B \in Granted
  BY <1>1, <1>2 DEF Granted
<1>4. B \subseteq Pages
  BY <1>1, <1>2, HeldApart
<1>5. FreePages' = FreePages \union B
  BY <1>1, <1>4 DEF FreePages
<1>6. \A c \in held : c # b => Block(c[1], c[2]) # B
  <2> SUFFICES ASSUME NEW c \in held, c # b
               PROVE  Block(c[1], c[2]) # B
    OBVIOUS
  <2>1. Block(c[1], c[2]) \intersect B = {} /\ c[1] \in Block(c[1], c[2])
    BY <1>1, <1>2, HeldApart
  <2> QED
    BY <2>1
<1>7. Granted' = Granted \ {B}
  BY <1>1, <1>2, <1>6 DEF Granted
<1>8. Owner!Reclaim(B)
  BY <1>3, <1>5, <1>7 DEF Owner!Reclaim, FreePages, Granted
<1> QED
  BY <1>3, <1>8 DEF B

(* The allocator implements PageOwner: pmm_init() grants nothing, each     *)
(* call grants a free block, takes one back or changes neither.            *)
THEOREM ImplementsOwner == Spec => OwnerSafety
<1>1. Init => Owner!Init
  <2> SUFFICES ASSUME Init PROVE Owner!Init
    OBVIOUS
  <2>1. FreePages = Pages \ Reserved
    BY DEF Init, FreePages
  <2>2. Granted = {}
    BY DEF Init, Granted
  <2> QED
    BY <2>1, <2>2 DEF Owner!Init, Owner!Pages, Pages, FreePages, Granted
<1>2. IInv /\ [Next]_vars => [Owner!Next]_<<FreePages, Granted>>
  <2> SUFFICES ASSUME IInv, [Next]_vars PROVE [Owner!Next]_<<FreePages, Granted>>
    OBVIOUS
  <2>1. 0 \in 0..MaxOrder /\ \A k \in 1..MaxOrder : k \in 0..MaxOrder
    BY PmmAssumption
  <2>2. ASSUME NEW f \in Pages, NEW k \in 0..MaxOrder, Took(f, k)
        PROVE  Owner!Next
    BY <2>2, TookGrants DEF Owner!Next, Owner!Pages, Pages
  <2>3. CASE AllocOne
    BY <2>1, <2>2, <2>3, AllocOneTakes
  <2>4. ASSUME NEW k \in 1..MaxOrder, AllocBlock(k) PROVE Owner!Next
    BY <2>1, <2>2, <2>4, AllocBlockTakes
  <2>5. ASSUME NEW f \in Pages, NEW k \in 0..MaxOrder, Free(f, k) PROVE Owner!Next
    BY <2>5, FreeReclaims DEF Owner!Next, Granted
  <2>6. CASE UNCHANGED vars
    BY <2>6 DEF vars, FreePages, Granted
  <2> QED
    BY <2>3, <2>4, <2>5, <2>6 DEF Next
<1> QED
  BY <1>1, <1>2, IInvCorrect, PTL DEF Spec, OwnerSafety, Owner!Spec, FreePages, Granted

(* What the promise comes to: two blocks in use share no page, and no page *)
(* in use is FREE or belongs to the kernel image, so callers of            *)
(* alloc_pages() may write to all they are given until they return it.     *)
THEOREM ExclusiveCorrect == Spec => []Owner!Exclusive
<1>1. IInv => Owner!Exclusive
  <2> SUFFICES ASSUME IInv PROVE Owner!Exclusive
    OBVIOUS
  <2>1. /\ \A b, c \in held : b # c => Block(b[1], b[2]) \intersect Block(c[1], c[2]) = {}
        /\ \A b \in held : Block(b[1], b[2]) \subseteq {p \in Pages : flags[p] = "USED"}
        /\ \A p \in Reserved : flags[p] = "RESERVED"
    BY DEF IInv, BlocksExact
  <2> HIDE DEF Block
  <2>2. ASSUME NEW b \in held
        PROVE  Block(b[1], b[2]) \intersect ({p \in Pages : flags[p] = "FREE"} \union Reserved) = {}
    BY <2>1
  <2> QED
    BY <2>1, <2>2 DEF Owner!Exclusive
<1> QED
  BY <1>1, IInvCorrect, PTL
=============================================================================
