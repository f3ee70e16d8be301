------------------------------ MODULE Kmalloc ------------------------------
(***************************************************************************)
(* The kernel heap, kernel/mm/kmalloc.c, on memory counted in words of     *)
(* eight bytes: slab pages cut into objects with a header of three words   *)
(* (size, magic, next) and larger blocks of whole pages with a header of   *)
(* two (size, magic and order).  kfree() tells them apart by what it reads *)
(* just before the pointer: for an object of a slab that word is the next  *)
(* pointer its header still holds.                                         *)
(*                                                                         *)
(* Pages come from alloc_pages() as PageOwner promises them: any page, or  *)
(* any run of adjacent ones.  Addresses of page p begin at p * PageSize.   *)
(***************************************************************************)
EXTENDS Naturals, Sequences, FiniteSets

CONSTANTS
  SlabSizes,    \* slab_sizes, in words, ascending
  PageSize,     \* PAGE_SIZE, in words
  NumPages,     \* pages the allocator has
  MaxOrder,
  Requests,     \* sizes asked for, in words
  Width,        \* the statistics count modulo Width (2^64 in the code)
  MaxLive       \* bound: pieces of memory in use at a time

OBJ_HEADER  == 3
PAGE_HEADER == 2

Slabs == 1..Len(SlabSizes)

ASSUME KmallocAssumption ==
  /\ SlabSizes \in Seq(Nat \ {0}) /\ SlabSizes # <<>>
  /\ \A i, j \in Slabs : i < j => SlabSizes[i] < SlabSizes[j]
  /\ PageSize \in Nat /\ PageSize >= SlabSizes[Len(SlabSizes)] + OBJ_HEADER
  /\ NumPages \in Nat \ {0} /\ MaxOrder \in Nat /\ MaxLive \in Nat
  /\ Requests \subseteq Nat \ {0}
  /\ Width \in Nat /\ Width > NumPages * PageSize

\* What the proofs use of powers of two.
ASSUME PowerAssumption ==
  /\ \A k \in 0..MaxOrder : 2^k \in Nat \ {0}
  /\ \A n \in Requests : 2^n > n /\ \A k \in 0..n : 2^k \in Nat

PageSet == 1..NumPages
Words   == PageSize..((NumPages + 1) * PageSize - 1)

VARIABLES
  mem,               \* the words of memory; "data" is no header
  pages,             \* pages the page allocator still has
  free_list,         \* of each slab, the address of an object header or 0
  total_objects, free_objects,       \* of each slab
  total_allocated, total_freed,
  live               \* <<pointer, words it may use, words asked for>>

slab  == <<free_list, total_objects, free_objects>>
stats == <<total_allocated, total_freed>>
vars  == <<mem, pages, slab, stats, live>>

Init ==
  /\ mem = [a \in Words |-> <<"data">>]
  /\ pages = PageSet
  /\ free_list = [c \in Slabs |-> 0]
  /\ total_objects = [c \in Slabs |-> 0]
  /\ free_objects = [c \in Slabs |-> 0]
  /\ total_allocated = 0 /\ total_freed = 0
  /\ live = {}

-----------------------------------------------------------------------------
(* kmalloc()                                                               *)

\* find_slab(): the smallest slab that holds n words, 0 when none does.
FindSlab(n) ==
  IF \E c \in Slabs : n <= SlabSizes[c]
  THEN CHOOSE c \in Slabs : n <= SlabSizes[c] /\ \A d \in 1..(c - 1) : n > SlabSizes[d]
  ELSE 0

\* Variant: an object's header is taken for one word shorter.
StrideShort(c) == SlabSizes[c] + OBJ_HEADER - 1

Stride(c) == SlabSizes[c] + OBJ_HEADER

\* The caller who asked for r words gets the object behind header a; there were
\* n free ones.
Hand(c, a, n, r) ==
  /\ free_objects' = [free_objects EXCEPT ![c] = n - 1]
  /\ total_allocated' = (total_allocated + SlabSizes[c]) % Width
  /\ live' = live \union {<<a + OBJ_HEADER, SlabSizes[c], r>>}

\* slab_alloc() from the free list: the header keeps its link.
TakeObject(c, r) ==
  /\ free_list[c] # 0
  /\ free_list' = [free_list EXCEPT ![c] = mem[free_list[c] + 2][2]]
  /\ Hand(c, free_list[c], free_objects[c], r)
  /\ UNCHANGED <<mem, pages, total_objects, total_freed>>

\* Variant: only the total grows with a new page.
GrowCountsTotalOnly(c, r) ==
  /\ free_list[c] = 0
  /\ \E p \in pages :
       LET n     == PageSize \div Stride(c)
           obj   == [i \in 0..(n - 1) |-> p * PageSize + i * Stride(c)]
       IN  /\ pages' = pages \ {p}
           /\ mem' = [a \in Words |->
                 IF \E i \in 0..(n - 1) : a \in obj[i]..(obj[i] + 2)
                 THEN LET i == CHOOSE i \in 0..(n - 1) : a \in obj[i]..(obj[i] + 2)
                      IN  CASE a = obj[i]     -> <<"size", SlabSizes[c]>>
                            [] a = obj[i] + 1 -> <<"KMALLOC_MAGIC">>
                            [] OTHER          -> <<"next", IF i = 0 THEN 0 ELSE obj[i - 1]>>
                 ELSE mem[a]]
           /\ total_objects' = [total_objects EXCEPT ![c] = @ + n]
           /\ free_list' = [free_list EXCEPT ![c] = IF n = 1 THEN 0 ELSE obj[n - 2]]
           /\ Hand(c, obj[n - 1], free_objects[c] + 1, r)
  /\ UNCHANGED total_freed

\* slab_alloc() with an empty list: a page is cut into objects, each pushed,
\* and the last one pushed is taken.
Grow(c, r) ==
  /\ free_list[c] = 0
  /\ \E p \in pages :
       LET n     == PageSize \div Stride(c)
           obj   == [i \in 0..(n - 1) |-> p * PageSize + i * Stride(c)]
       IN  /\ pages' = pages \ {p}
           /\ mem' = [a \in Words |->
                 IF \E i \in 0..(n - 1) : a \in obj[i]..(obj[i] + 2)
                 THEN LET i == CHOOSE i \in 0..(n - 1) : a \in obj[i]..(obj[i] + 2)
                      IN  CASE a = obj[i]     -> <<"size", SlabSizes[c]>>
                            [] a = obj[i] + 1 -> <<"KMALLOC_MAGIC">>
                            [] OTHER          -> <<"next", IF i = 0 THEN 0 ELSE obj[i - 1]>>
                 ELSE mem[a]]
           /\ total_objects' = [total_objects EXCEPT ![c] = @ + n]
           /\ free_list' = [free_list EXCEPT ![c] = IF n = 1 THEN 0 ELSE obj[n - 2]]
           /\ Hand(c, obj[n - 1], free_objects[c] + n, r)
  /\ UNCHANGED total_freed

\* Variant: the header is forgotten.
OrderForDataOnly(n) == CHOOSE k \in 0..n : /\ PageSize * 2^k >= n
                                           /\ \A j \in 0..(k - 1) : PageSize * 2^j < n

\* The order whose block holds n words and the header.
OrderFor(n) == CHOOSE k \in 0..n : /\ PageSize * 2^k >= n + PAGE_HEADER
                                   /\ \A j \in 0..(k - 1) : PageSize * 2^j < n + PAGE_HEADER

\* A block of pages.
TakePages(n) ==
  /\ FindSlab(n) = 0 /\ OrderFor(n) <= MaxOrder
  /\ \E p \in pages :
       LET k == OrderFor(n)  run == p..(p + 2^k - 1)  a == p * PageSize
       IN  /\ run \subseteq pages
           /\ pages' = pages \ run
           /\ mem' = [mem EXCEPT ![a] = <<"size", n>>,
                                 ![a + 1] = <<"KMALLOC_PAGE_MAGIC", k>>]
           /\ total_allocated' = (total_allocated + PageSize * 2^k) % Width
           /\ live' = live \union {<<a + PAGE_HEADER, PageSize * 2^k - PAGE_HEADER, n>>}
  /\ UNCHANGED <<slab, total_freed>>

\* kmalloc(); without memory it returns NULL and changes nothing.
Kmalloc(n) ==
  /\ Cardinality(live) < MaxLive
  /\ \/ TakePages(n)
     \/ \E c \in Slabs : c = FindSlab(n) /\ (TakeObject(c, n) \/ Grow(c, n))

-----------------------------------------------------------------------------
(* kfree()                                                                 *)

\* The word before ptr has the magic of a block of pages.
IsBlock(ptr) == \E k \in 0..MaxOrder : mem[ptr - 1] = <<"KMALLOC_PAGE_MAGIC", k>>

FreeBlock(x) ==
  /\ x \in live /\ IsBlock(x[1])
  /\ LET k == mem[x[1] - 1][2]
         p == (x[1] - PAGE_HEADER) \div PageSize
     IN  /\ pages' = pages \union p..(p + 2^k - 1)
         /\ total_freed' = (total_freed + PageSize * 2^k) % Width
  /\ live' = live \ {x}
  /\ UNCHANGED <<mem, slab, total_allocated>>

\* Variant: the object is put first without its link to the others.
FreeObjectKeepsLink(x) ==
  /\ x \in live /\ ~IsBlock(x[1])
  /\ LET a == x[1] - OBJ_HEADER
     IN  /\ mem[a + 1] = <<"KMALLOC_MAGIC">>
         /\ LET c == FindSlab(mem[a][2])
            IN  /\ free_list' = [free_list EXCEPT ![c] = a]
                /\ free_objects' = [free_objects EXCEPT ![c] = @ + 1]
         /\ total_freed' = (total_freed + mem[a][2]) % Width
  /\ live' = live \ {x}
  /\ UNCHANGED <<mem, pages, total_objects, total_allocated>>

\* Variant: the freed bytes are not counted.
FreeObjectUncounted(x) ==
  /\ x \in live /\ ~IsBlock(x[1])
  /\ LET a == x[1] - OBJ_HEADER
     IN  /\ mem[a + 1] = <<"KMALLOC_MAGIC">>
         /\ LET c == FindSlab(mem[a][2])
            IN  /\ mem' = [mem EXCEPT ![a + 2] = <<"next", free_list[c]>>]
                /\ free_list' = [free_list EXCEPT ![c] = a]
                /\ free_objects' = [free_objects EXCEPT ![c] = @ + 1]
         /\ UNCHANGED total_freed
  /\ live' = live \ {x}
  /\ UNCHANGED <<pages, total_objects, total_allocated>>

\* slab_free(), found by the size in the header.
FreeObject(x) ==
  /\ x \in live /\ ~IsBlock(x[1])
  /\ LET a == x[1] - OBJ_HEADER
     IN  /\ mem[a + 1] = <<"KMALLOC_MAGIC">>
         /\ LET c == FindSlab(mem[a][2])
            IN  /\ mem' = [mem EXCEPT ![a + 2] = <<"next", free_list[c]>>]
                /\ free_list' = [free_list EXCEPT ![c] = a]
                /\ free_objects' = [free_objects EXCEPT ![c] = @ + 1]
         /\ total_freed' = (total_freed + mem[a][2]) % Width
  /\ live' = live \ {x}
  /\ UNCHANGED <<pages, total_objects, total_allocated>>

\* kzalloc(), and every caller, writes to the words it was given.
Use(x) ==
  /\ x \in live
  /\ mem' = [a \in Words |-> IF a \in x[1]..(x[1] + x[2] - 1) THEN <<"data">> ELSE mem[a]]
  /\ UNCHANGED <<pages, slab, stats, live>>

Next ==
  \/ \E n \in Requests : Kmalloc(n)
  \/ \E x \in live : FreeBlock(x) \/ FreeObject(x) \/ Use(x)

Spec == Init /\ [][Next]_vars

-----------------------------------------------------------------------------
(* Properties                                                              *)

(* Counters and lists have their types: no counter goes below zero.        *)
TypeOK ==
  /\ DOMAIN mem = Words
  /\ pages \subseteq PageSet
  /\ free_list \in [Slabs -> Words \union {0}]
  /\ total_objects \in [Slabs -> Nat] /\ free_objects \in [Slabs -> Nat]
  /\ total_allocated \in 0..(Width - 1) /\ total_freed \in 0..(Width - 1)
  /\ \A x \in live : x[1] \in Words /\ x[2] \in 1..(NumPages * PageSize)

\* The headers met from the head of slab c's list, one more than are counted.
Chain(c) ==
  LET step[n \in 0..(free_objects[c] + 1)] ==
        IF n = 0 THEN [seen |-> <<>>, ptr |-> free_list[c]]
        ELSE LET s == step[n - 1]
             IN  IF s.ptr = 0 THEN s
                 ELSE [seen |-> Append(s.seen, s.ptr), ptr |-> mem[s.ptr + 2][2]]
  IN  step[free_objects[c] + 1].seen

Listed(c) == {Chain(c)[i] : i \in 1..Len(Chain(c))}

(* Following the links in memory from a slab's head gives as many objects  *)
(* as the slab counts, each once, none in use and none on a page the page  *)
(* allocator may hand out: links survive allocation and reuse of memory.   *)
SlabListsExact ==
  \A c \in Slabs :
    /\ Len(Chain(c)) = free_objects[c] /\ Cardinality(Listed(c)) = free_objects[c]
    /\ \A a \in Listed(c) : /\ a \div PageSize \notin pages
                            /\ \A x \in live : x[1] # a + OBJ_HEADER

(* What kfree() reads before a pointer in use tells the truth: a block of  *)
(* pages is known by its magic with the order it was allocated with, an    *)
(* object by its magic and the size of its slab, whatever was in that      *)
(* memory before.                                                          *)
HeadersIntact ==
  \A x \in live :
    \/ IsBlock(x[1]) /\ PageSize * 2^(mem[x[1] - 1][2]) = x[2] + PAGE_HEADER
    \/ /\ ~IsBlock(x[1])
       /\ mem[x[1] - 2] = <<"KMALLOC_MAGIC">> /\ mem[x[1] - 3] = <<"size", x[2]>>

\* Words of x as kmalloc() counts them: of a block, its header too.
Counted(x) == IF IsBlock(x[1]) THEN x[2] + PAGE_HEADER ELSE x[2]

Sum(S) == LET pick == CHOOSE f \in [1..Cardinality(S) -> S] :
                        \A i, j \in 1..Cardinality(S) : f[i] = f[j] => i = j
              sum[n \in 0..Cardinality(S)] ==
                IF n = 0 THEN 0 ELSE sum[n - 1] + Counted(pick[n])
          IN  sum[Cardinality(S)]

(* "Currently used", total_allocated - total_freed, is what callers hold,  *)
(* counters that have wrapped included.                                    *)
StatsExact == (total_allocated + Width - total_freed) % Width = Sum(live)

(* The promise of Heap. *)
Owner == INSTANCE Heap WITH Addresses <- Words

HeapSafety == Owner!Spec
=============================================================================
