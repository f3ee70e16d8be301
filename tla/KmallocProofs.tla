---------------------------- MODULE KmallocProofs -----------------------------
(***************************************************************************)
(* The kernel heap for any slabs, page size and memory size: headers stay  *)
(* what kfree() needs them to be, the slabs' lists are exact, and the code *)
(* keeps the promise of Heap.                                              *)
(***************************************************************************)
EXTENDS Kmalloc, FiniteSetTheorems, SequenceTheorems, WellFoundedInduction, TLAPS

-----------------------------------------------------------------------------
(* Arithmetic of addresses                                                 *)

(* Multiplication is monotonic, and a division rounds down.                *)
LEMMA Products ==
  /\ \A a, b, d \in Nat : a * d \in Nat /\ (a <= b => a * d <= b * d)
  /\ \A a, b, d \in Nat : (a + b) * d = a * d + b * d
  /\ \A n \in Nat, d \in Nat \ {0} :
       /\ n \div d \in Nat /\ (n \div d) * d <= n
       /\ d <= n => n \div d >= 1
  /\ \A q, r \in Nat, d \in Nat \ {0} : r < d => (q * d + r) \div d = q
<1>1. \A a, b, d \in Nat : (a + b) * d = a * d + b * d
  OBVIOUS
<1>2. \A a, b, d \in Nat : a * d \in Nat /\ (a <= b => a * d <= b * d)
  <2> SUFFICES ASSUME NEW a \in Nat, NEW b \in Nat, NEW d \in Nat
               PROVE  a * d \in Nat /\ (a <= b => a * d <= b * d)
    OBVIOUS
  <2>1. a * d \in Nat
    OBVIOUS
  <2>2. ASSUME a <= b PROVE a * d <= b * d
    <3>1. b - a \in Nat /\ (b - a) * d \in Nat
      BY <2>2
    <3>2. b * d = a * d + (b - a) * d
      BY <3>1
    <3>3. b * d \in Nat
      OBVIOUS
    <3> QED
      BY <2>1, <3>1, <3>2, <3>3
  <2> QED
    BY <2>1, <2>2
<1>3. \A n \in Nat, d \in Nat \ {0} :
        /\ n \div d \in Nat /\ (n \div d) * d <= n
        /\ d <= n => n \div d >= 1
  OBVIOUS
<1>4. \A q, r \in Nat, d \in Nat \ {0} : r < d => (q * d + r) \div d = q
  OBVIOUS
<1> QED
  BY <1>1, <1>2, <1>3, <1>4

\* Objects of slab c in a page, and where object i of page p begins.
PerPage(c) == PageSize \div Stride(c)
Obj(c, p, i) == p * PageSize + i * Stride(c)

(* What the code's sizes are.                                              *)
LEMMA SizesAre ==
  /\ PageSize \in Nat \ {0} /\ PageSize >= 4 /\ NumPages \in Nat \ {0} /\ MaxOrder \in Nat
  /\ \A p \in PageSet : p \in Nat \ {0}
  /\ \A c \in Slabs :
       /\ SlabSizes[c] \in Nat \ {0} /\ Stride(c) \in Nat \ {0}
       /\ Stride(c) = SlabSizes[c] + 3 /\ Stride(c) <= PageSize
       /\ PerPage(c) \in Nat \ {0} /\ PerPage(c) * Stride(c) <= PageSize
<1> DEFINE L == Len(SlabSizes)
<1>1. L \in Nat /\ SlabSizes \in Seq(Nat \ {0}) /\ SlabSizes # <<>>
  BY KmallocAssumption
<1>2. L \in Slabs /\ \A c \in Slabs : c \in 1..L
  BY <1>1 DEF Slabs
<1>3. \A c \in Slabs : SlabSizes[c] \in Nat \ {0}
  BY <1>1, <1>2
<1>4. \A c \in Slabs : SlabSizes[c] <= SlabSizes[L]
  <2> SUFFICES ASSUME NEW c \in Slabs PROVE SlabSizes[c] <= SlabSizes[L]
    OBVIOUS
  <2>1. c < L \/ c = L
    BY <1>1, <1>2
  <2>2. c < L => SlabSizes[c] < SlabSizes[L]
    BY <1>2, KmallocAssumption
  <2>3. SlabSizes[c] \in Nat /\ SlabSizes[L] \in Nat
    BY <1>2, <1>3
  <2> QED
    BY <2>1, <2>2, <2>3
<1>5. /\ PageSize \in Nat /\ PageSize >= SlabSizes[L] + 3
      /\ NumPages \in Nat \ {0} /\ MaxOrder \in Nat
  BY KmallocAssumption DEF OBJ_HEADER
<1> HIDE DEF L
<1>6. SlabSizes[L] \in Nat \ {0}
  BY <1>2, <1>3
<1>7. PageSize \in Nat \ {0} /\ PageSize >= 4
  BY <1>5, <1>6
<1>8. ASSUME NEW c \in Slabs
      PROVE  /\ Stride(c) \in Nat \ {0} /\ Stride(c) = SlabSizes[c] + 3
             /\ Stride(c) <= PageSize
             /\ PerPage(c) \in Nat \ {0} /\ PerPage(c) * Stride(c) <= PageSize
  <2>1. SlabSizes[c] \in Nat \ {0} /\ SlabSizes[c] <= SlabSizes[L]
    BY <1>3, <1>4
  <2>2. Stride(c) = SlabSizes[c] + 3
    BY DEF Stride, OBJ_HEADER
  <2>3. Stride(c) \in Nat \ {0} /\ Stride(c) <= PageSize
    BY <1>5, <1>6, <2>1, <2>2
  <2>4. PerPage(c) \in Nat /\ PerPage(c) * Stride(c) <= PageSize /\ PerPage(c) >= 1
    BY <1>7, <2>3, Products DEF PerPage
  <2> QED
    BY <2>2, <2>3, <2>4
<1> QED
  BY <1>3, <1>5, <1>7, <1>8 DEF PageSet

(* Pages lie one after the other, and the page of a word is found by       *)
(* division.                                                               *)
LEMMA PagesApart ==
  /\ \A p \in Nat : p * PageSize \in Nat
  /\ \A p, s \in Nat : p < s => p * PageSize + PageSize <= s * PageSize
  /\ \A p \in Nat, w \in Nat :
       p * PageSize <= w /\ w < p * PageSize + PageSize => w \div PageSize = p
  /\ \A p \in PageSet, w \in Nat :
       p * PageSize <= w /\ w < p * PageSize + PageSize => w \in Words
<1>1. PageSize \in Nat \ {0} /\ NumPages \in Nat
  BY SizesAre
<1>2. \A p \in Nat : p * PageSize \in Nat
  BY <1>1, Products
<1>3. ASSUME NEW p \in Nat, NEW s \in Nat, p < s
      PROVE  p * PageSize + PageSize <= s * PageSize
  <2>1. p + 1 \in Nat /\ p + 1 <= s
    BY <1>3
  <2>2. (p + 1) * PageSize <= s * PageSize
    BY <1>1, <2>1, Products
  <2>3. (p + 1) * PageSize = p * PageSize + PageSize
    BY <1>1
  <2> QED
    BY <2>2, <2>3
<1>4. ASSUME NEW p \in Nat, NEW w \in Nat,
             p * PageSize <= w, w < p * PageSize + PageSize
      PROVE  w \div PageSize = p
  <2> DEFINE b == p * PageSize
             r == w - b
  <2>1. b \in Nat
    BY <1>2
  <2>2. r \in Nat /\ r < PageSize /\ w = b + r
    <3> HIDE DEF b
    <3>1. b <= w /\ w < b + PageSize
      BY <1>4 DEF b
    <3> QED
      BY <1>1, <2>1, <3>1
  <2> HIDE DEF r
  <2>3. (p * PageSize + r) \div PageSize = p
    BY <1>1, <2>2, Products
  <2> QED
    BY <2>2, <2>3
<1>5. ASSUME NEW p \in PageSet, NEW w \in Nat,
             p * PageSize <= w, w < p * PageSize + PageSize
      PROVE  w \in Words
  <2>1. p \in Nat /\ 1 <= p /\ p < NumPages + 1 /\ NumPages + 1 \in Nat /\ 1 \in Nat
    BY <1>1 DEF PageSet
  <2>2. 1 * PageSize <= p * PageSize
    BY <1>1, <2>1, Products
  <2>3. p * PageSize + PageSize <= (NumPages + 1) * PageSize
    BY <1>3, <2>1
  <2> DEFINE b == p * PageSize
             e == (NumPages + 1) * PageSize
  <2>4. b \in Nat /\ e \in Nat /\ PageSize <= b /\ b + PageSize <= e
    BY <1>1, <1>2, <2>1, <2>2, <2>3
  <2>5. b <= w /\ w < b + PageSize
    BY <1>5
  <2>6. Words = PageSize..(e - 1)
    BY DEF Words
  <2> HIDE DEF b, e
  <2> QED
    BY <1>1, <2>4, <2>5, <2>6
<1> QED
  BY <1>2, <1>3, <1>4, <1>5

(* The objects of a page lie one after the other within it.                *)
LEMMA ObjInPage ==
  ASSUME NEW c \in Slabs, NEW p \in PageSet, NEW i \in 0..(PerPage(c) - 1)
  PROVE  /\ Obj(c, p, i) \in Nat /\ p * PageSize <= Obj(c, p, i)
         /\ Obj(c, p, i) + Stride(c) <= p * PageSize + PageSize
         /\ \A j \in 0..(PerPage(c) - 1) :
              i < j => Obj(c, p, i) + Stride(c) <= Obj(c, p, j)
<1> DEFINE d == Stride(c)
           n == PerPage(c)
           b == p * PageSize
<1>1. d \in Nat \ {0} /\ n \in Nat \ {0} /\ n * d <= PageSize /\ PageSize \in Nat
  BY SizesAre
<1>2. b \in Nat
  BY PagesApart, SizesAre
<1>3. \A j : Obj(c, p, j) = b + j * d
  BY DEF Obj
<1> HIDE DEF d, n, b
<1>4. i \in Nat /\ i + 1 <= n /\ i + 1 \in Nat
  BY <1>1 DEF n
<1>5. i * d \in Nat /\ (i + 1) * d = i * d + d /\ (i + 1) * d <= n * d
  <2>1. i * d \in Nat /\ (i + 1) * d <= n * d
    BY <1>1, <1>4, Products
  <2>2. (i + 1) * d = i * d + 1 * d /\ 1 * d = d
    BY <1>1, <1>4, Products
  <2> QED
    BY <2>1, <2>2
<1>6. n * d \in Nat
  BY <1>1, Products
<1>7. b + i * d \in Nat /\ b <= b + i * d /\ b + i * d + d <= b + PageSize
  BY <1>1, <1>2, <1>5, <1>6
<1>8. ASSUME NEW j \in 0..(PerPage(c) - 1), i < j
      PROVE  Obj(c, p, i) + d <= Obj(c, p, j)
  <2>1. j \in Nat /\ i + 1 <= j
    BY <1>1, <1>4, <1>8 DEF n
  <2>2. (i + 1) * d <= j * d /\ j * d \in Nat
    BY <1>1, <1>4, <2>1, Products
  <2> QED
    BY <1>1, <1>2, <1>3, <1>5, <2>2
<1> QED
  BY <1>3, <1>7, <1>8 DEF d, b

-----------------------------------------------------------------------------
(* The layout of memory                                                    *)

\* a is the address of an object of slab c, when kind says of each page which
\* slab it was cut for, 0 for none.
IsObj(kind, c, a) ==
  \E p \in PageSet, i \in 0..(PerPage(c) - 1) : kind[p] = c /\ a = Obj(c, p, i)

\* Pages cut into objects are not given back.
Cut(P, kind) ==
  /\ kind \in [PageSet -> {0} \union Slabs]
  /\ \A p \in P : kind[p] = 0

\* In memory M the header of an object is as slab_alloc() wrote it, but for the
\* link.
Headers(M, kind) ==
  \A c \in Slabs : \A a : IsObj(kind, c, a) =>
    /\ M[a] = <<"size", SlabSizes[c]>> /\ M[a + 1] = <<"KMALLOC_MAGIC">>
    /\ \E x \in {0} \union Words : M[a + 2] = <<"next", x>>

\* q is the list of slab c from address h on, as the links give it.
IsList(M, kind, c, h, q) ==
  /\ h = IF q = <<>> THEN 0 ELSE q[1]
  /\ \A i \in 1..Len(q) :
       /\ IsObj(kind, c, q[i])
       /\ M[q[i] + 2] = <<"next", IF i = Len(q) THEN 0 ELSE q[i + 1]>>
  /\ \A i, j \in 1..Len(q) : q[i] = q[j] => i = j

\* F are the heads of the lists and N the numbers of free objects.
Lists(M, F, N, kind, q) ==
  \A c \in Slabs : q[c] \in Seq(Nat) /\ IsList(M, kind, c, F[c], q[c]) /\ N[c] = Len(q[c])

\* x is an object in use, off its list.
IsPiece(kind, q, x) ==
  \E c \in Slabs : \E a \in Nat, r \in Requests :
    /\ x = <<a + OBJ_HEADER, SlabSizes[c], r>> /\ r <= SlabSizes[c]
    /\ IsObj(kind, c, a)
    /\ \A i \in 1..Len(q[c]) : q[c][i] # a

\* The pages of a block, and the pointer and size of the piece it is given as.
Run(p, k) == p..(p + 2^k - 1)

BlockAt(x, p, k) ==
  /\ x[1] = p * PageSize + PAGE_HEADER
  /\ x[2] = PageSize * 2^k - PAGE_HEADER

\* x is a block of pages in use, P being the pages the allocator has.
IsRun(M, P, kind, x) ==
  \E p \in PageSet, k \in 0..MaxOrder, r \in Requests :
    /\ x = <<x[1], x[2], r>> /\ r <= x[2] /\ BlockAt(x, p, k)
    /\ Run(p, k) \subseteq PageSet \ P
    /\ \A t \in Run(p, k) : kind[t] = 0
    /\ M[p * PageSize + 1] = <<"KMALLOC_PAGE_MAGIC", k>>

Pieces(M, P, L, kind, q) == \A x \in L : IsPiece(kind, q, x) \/ IsRun(M, P, kind, x)

\* Pieces begin at different places, and as blocks share no page.
Apart(x, y) ==
  /\ x[1] # y[1]
  /\ \A p, s \in PageSet, k, l \in 0..MaxOrder :
       BlockAt(x, p, k) /\ BlockAt(y, s, l) => Run(p, k) \intersect Run(s, l) = {}

Separate(L) == \A x, y \in L : x # y => Apart(x, y)

Layout(M, P, F, N, L, kind, q) ==
  /\ Cut(P, kind) /\ Headers(M, kind) /\ Lists(M, F, N, kind, q)
  /\ Pieces(M, P, L, kind, q) /\ Separate(L)

Types ==
  /\ mem = [w \in Words |-> mem[w]] /\ pages \subseteq PageSet
  /\ free_list \in [Slabs -> {0} \union Words] /\ free_objects \in [Slabs -> Nat]
  /\ total_objects \in [Slabs -> Nat]
  /\ total_allocated \in 0..(Width - 1) /\ total_freed \in 0..(Width - 1)

Laid ==
  \E kind : \E q \in [Slabs -> Seq(Nat)] :
    Layout(mem, pages, free_list, free_objects, live, kind, q)

IInv == Types /\ Laid

(* Where an object is.                                                     *)
LEMMA ObjectIs ==
  ASSUME NEW kind, NEW c \in Slabs, NEW a, IsObj(kind, c, a)
  PROVE  /\ a \in Nat /\ a # 0 /\ a \in Words /\ a + 1 \in Words /\ a + 2 \in Words
         /\ \A w \in a..(a + Stride(c) - 1) : w \in Words
         /\ \E p \in PageSet : /\ kind[p] = c /\ a \div PageSize = p
                               /\ p * PageSize <= a
                               /\ a + Stride(c) <= p * PageSize + PageSize
<1>1. PICK p \in PageSet, i \in 0..(PerPage(c) - 1) : kind[p] = c /\ a = Obj(c, p, i)
  BY DEF IsObj
<1> DEFINE b == p * PageSize
<1>2. /\ a \in Nat /\ b <= a /\ a + Stride(c) <= b + PageSize
      /\ p \in Nat /\ b \in Nat /\ PageSize \in Nat \ {0}
      /\ Stride(c) \in Nat /\ Stride(c) >= 4 /\ p >= 1
  <2>1. SlabSizes[c] \in Nat \ {0} /\ Stride(c) = SlabSizes[c] + 3
    BY SizesAre
  <2>2. p \in Nat \ {0}
    BY SizesAre
  <2> QED
    BY <1>1, <2>1, <2>2, ObjInPage, PagesApart, SizesAre
<1>3. \A w \in Nat : b <= w /\ w < b + PageSize => w \in Words /\ w \div PageSize = p
  BY <1>2, PagesApart
<1> HIDE DEF b
<1>4. \A w \in a..(a + Stride(c) - 1) : w \in Nat /\ b <= w /\ w < b + PageSize
  BY <1>2
<1>5. /\ a \in a..(a + Stride(c) - 1) /\ a + 1 \in a..(a + Stride(c) - 1)
      /\ a + 2 \in a..(a + Stride(c) - 1)
  BY <1>2
<1>6. a # 0
  <2>1. 0 \notin Words
    BY SizesAre DEF Words
  <2> QED
    BY <1>3, <1>4, <1>5, <2>1
<1> QED
  BY <1>1, <1>2, <1>3, <1>4, <1>5, <1>6 DEF b

(* Two objects are the same or apart.                                      *)
LEMMA ObjectsApart ==
  ASSUME NEW kind, NEW c \in Slabs, NEW d \in Slabs, NEW a, NEW b,
         IsObj(kind, c, a), IsObj(kind, d, b)
  PROVE  /\ a = b => c = d
         /\ a # b => a + Stride(c) <= b \/ b + Stride(d) <= a
<1>1. PICK p \in PageSet, i \in 0..(PerPage(c) - 1) : kind[p] = c /\ a = Obj(c, p, i)
  BY DEF IsObj
<1>2. PICK s \in PageSet, j \in 0..(PerPage(d) - 1) : kind[s] = d /\ b = Obj(d, s, j)
  BY DEF IsObj
<1> DEFINE x == p * PageSize
           y == s * PageSize
<1>3. /\ a \in Nat /\ x <= a /\ a + Stride(c) <= x + PageSize
      /\ \A k \in 0..(PerPage(c) - 1) : i < k => a + Stride(c) <= Obj(c, p, k)
  BY <1>1, ObjInPage
<1>4. /\ b \in Nat /\ y <= b /\ b + Stride(d) <= y + PageSize
      /\ \A k \in 0..(PerPage(d) - 1) : j < k => b + Stride(d) <= Obj(d, s, k)
  BY <1>2, ObjInPage
<1>5. /\ p \in Nat /\ s \in Nat /\ PageSize \in Nat /\ x \in Nat /\ y \in Nat
      /\ Stride(c) \in Nat \ {0} /\ Stride(d) \in Nat \ {0}
      /\ PerPage(c) \in Nat /\ PerPage(d) \in Nat
  BY SizesAre, PagesApart
<1>6. /\ p < s => x + PageSize <= y
      /\ s < p => y + PageSize <= x
  BY <1>5, PagesApart
<1> HIDE DEF x, y
<1>7. CASE p < s
  BY <1>3, <1>4, <1>5, <1>6, <1>7
<1>8. CASE s < p
  BY <1>3, <1>4, <1>5, <1>6, <1>8
<1>9. CASE p = s
  <2>1. c = d
    BY <1>1, <1>2, <1>9
  <2>2. i \in Nat /\ j \in Nat
    OBVIOUS
  <2>3. CASE i = j
    BY <1>1, <1>2, <1>9, <2>1, <2>3
  <2>4. CASE i < j
    <3>1. a + Stride(c) <= b
      BY <1>2, <1>3, <1>9, <2>1, <2>4
    <3> QED
      BY <1>3, <1>4, <1>5, <2>1, <3>1
  <2>5. CASE j < i
    <3>1. b + Stride(d) <= a
      BY <1>1, <1>4, <1>9, <2>1, <2>5
    <3> QED
      BY <1>3, <1>4, <1>5, <2>1, <3>1
  <2> QED
    BY <2>2, <2>3, <2>4, <2>5
<1> QED
  BY <1>5, <1>7, <1>8, <1>9

(* Where a block of e pages is.                                            *)
LEMMA RunIs ==
  ASSUME NEW p \in PageSet, NEW e \in Nat \ {0}, p..(p + e - 1) \subseteq PageSet
  PROVE  /\ p * PageSize \in Nat /\ PageSize * e \in Nat /\ PageSize * e >= PageSize
         /\ PageSize * e <= NumPages * PageSize
         /\ \A w \in Nat : p * PageSize <= w /\ w < p * PageSize + PageSize * e => w \in Words
         /\ \A s \in PageSet : \/ s \in p..(p + e - 1)
                               \/ s * PageSize + PageSize <= p * PageSize
                               \/ p * PageSize + PageSize * e <= s * PageSize
         /\ \A s \in PageSet, f \in Nat \ {0} :
              p..(p + e - 1) \intersect s..(s + f - 1) = {} =>
                \/ s * PageSize + PageSize * f <= p * PageSize
                \/ p * PageSize + PageSize * e <= s * PageSize
<1>1. /\ PageSize \in Nat \ {0} /\ p \in Nat \ {0} /\ NumPages \in Nat
      /\ \A s \in PageSet : s \in Nat \ {0}
  BY SizesAre
<1>2. p + e - 1 \in p..(p + e - 1) /\ p + e - 1 \in Nat
  BY <1>1
<1>3. p + e - 1 <= NumPages
  BY <1>2 DEF PageSet
<1>4. \A s, f \in Nat : s * PageSize + PageSize * f = (s + f) * PageSize
  BY <1>1
<1>5. p * PageSize \in Nat /\ PageSize * e \in Nat /\ (p + e) * PageSize \in Nat
  BY <1>1, Products
<1>6. PageSize * e >= PageSize /\ PageSize * e <= NumPages * PageSize
  <2>1. 1 * PageSize <= e * PageSize /\ e * PageSize <= NumPages * PageSize
    <3>1. 1 \in Nat /\ 1 <= e /\ e <= NumPages
      BY <1>1, <1>3
    <3> QED
      BY <1>1, <3>1, Products
  <2>2. e * PageSize = PageSize * e /\ 1 * PageSize = PageSize
    BY <1>1
  <2> QED
    BY <2>1, <2>2
<1>7. ASSUME NEW w \in Nat, p * PageSize <= w, w < p * PageSize + PageSize * e
      PROVE  w \in Words
  <2>1. (p + e) * PageSize <= (NumPages + 1) * PageSize /\ 1 * PageSize <= p * PageSize
    <3>1. /\ 1 \in Nat /\ 1 <= p /\ p + e \in Nat /\ NumPages + 1 \in Nat
          /\ p + e <= NumPages + 1
      BY <1>1, <1>3
    <3> QED
      BY <1>1, <3>1, Products
  <2>2. w < (p + e) * PageSize
    BY <1>1, <1>4, <1>7
  <2> DEFINE x == p * PageSize
             y == (p + e) * PageSize
             z == (NumPages + 1) * PageSize
  <2>3. x \in Nat /\ y \in Nat /\ z \in Nat /\ PageSize <= x /\ y <= z /\ x <= w /\ w < y
    BY <1>1, <1>5, <1>7, <2>1, <2>2, Products
  <2>4. Words = PageSize..(z - 1)
    BY DEF Words
  <2> HIDE DEF x, y, z
  <2> QED
    BY <1>1, <2>3, <2>4
<1>8. ASSUME NEW s \in Nat, NEW f \in Nat, p + e <= s \/ s + f <= p
      PROVE  \/ s * PageSize + PageSize * f <= p * PageSize
             \/ p * PageSize + PageSize * e <= s * PageSize
  <2>1. p + e \in Nat /\ s + f \in Nat
    BY <1>1
  <2>2. /\ p + e <= s => (p + e) * PageSize <= s * PageSize
        /\ s + f <= p => (s + f) * PageSize <= p * PageSize
    BY <1>1, <2>1, Products
  <2>3. /\ p * PageSize + PageSize * e = (p + e) * PageSize
        /\ s * PageSize + PageSize * f = (s + f) * PageSize
    BY <1>1, <1>4
  <2> QED
    BY <1>8, <2>2, <2>3
<1>9. ASSUME NEW s \in PageSet, NEW f \in Nat \ {0},
             p..(p + e - 1) \intersect s..(s + f - 1) = {}
      PROVE  p + e <= s \/ s + f <= p
  <2>1. p \in p..(p + e - 1) /\ s \in s..(s + f - 1)
    BY <1>1
  <2>2. s \notin p..(p + e - 1) /\ p \notin s..(s + f - 1)
    BY <1>9, <2>1
  <2> QED
    BY <1>1, <2>2
<1>10. ASSUME NEW s \in PageSet, s \notin p..(p + e - 1)
       PROVE  p + e <= s \/ s + 1 <= p
  BY <1>1, <1>10
<1>11. PageSize * 1 = PageSize /\ 1 \in Nat /\ \A f \in Nat \ {0} : f \in Nat
  BY <1>1
<1>12. \A s \in PageSet : \/ s \in p..(p + e - 1)
                          \/ s * PageSize + PageSize <= p * PageSize
                          \/ p * PageSize + PageSize * e <= s * PageSize
  <2> TAKE s \in PageSet
  <2> QED
    BY <1>1, <1>8, <1>10, <1>11
<1>13. ASSUME NEW s \in PageSet, NEW f \in Nat \ {0},
              p..(p + e - 1) \intersect s..(s + f - 1) = {}
       PROVE  \/ s * PageSize + PageSize * f <= p * PageSize
              \/ p * PageSize + PageSize * e <= s * PageSize
  BY <1>1, <1>8, <1>9, <1>13
<1> QED
  BY <1>5, <1>6, <1>7, <1>12, <1>13

(* The pages of a block, of an order alloc_pages() takes.                  *)
LEMMA RunProperties ==
  ASSUME NEW p \in PageSet, NEW k \in 0..MaxOrder, Run(p, k) \subseteq PageSet
  PROVE  /\ 2^k \in Nat \ {0} /\ p \in Run(p, k)
         /\ p * PageSize \in Nat /\ PageSize * 2^k \in Nat /\ PageSize * 2^k >= PageSize
         /\ PageSize * 2^k <= NumPages * PageSize
         /\ \A w \in Nat : p * PageSize <= w /\ w < p * PageSize + PageSize * 2^k => w \in Words
         /\ \A s \in PageSet : \/ s \in Run(p, k)
                               \/ s * PageSize + PageSize <= p * PageSize
                               \/ p * PageSize + PageSize * 2^k <= s * PageSize
         /\ \A s \in PageSet, l \in 0..MaxOrder :
              Run(p, k) \intersect Run(s, l) = {} =>
                \/ s * PageSize + PageSize * 2^l <= p * PageSize
                \/ p * PageSize + PageSize * 2^k <= s * PageSize
<1>1. \A l \in 0..MaxOrder : 2^l \in Nat \ {0}
  BY PowerAssumption
<1> DEFINE e == 2^k
<1>2. e \in Nat \ {0}
  BY <1>1
<1>3. \A s, l : Run(s, l) = s..(s + 2^l - 1)
  BY DEF Run
<1>4. p..(p + e - 1) \subseteq PageSet
  BY <1>3
<1>5. p \in p..(p + e - 1)
  BY <1>2, SizesAre
<1>6. Run(p, k) = p..(p + e - 1)
  BY <1>3
<1> HIDE DEF e
<1>7. /\ p * PageSize \in Nat /\ PageSize * e \in Nat /\ PageSize * e >= PageSize
      /\ PageSize * e <= NumPages * PageSize
      /\ \A w \in Nat : p * PageSize <= w /\ w < p * PageSize + PageSize * e => w \in Words
      /\ \A s \in PageSet : \/ s \in p..(p + e - 1)
                            \/ s * PageSize + PageSize <= p * PageSize
                            \/ p * PageSize + PageSize * e <= s * PageSize
  BY <1>2, <1>4, RunIs
<1>8. \A s \in PageSet, f \in Nat \ {0} :
        p..(p + e - 1) \intersect s..(s + f - 1) = {} =>
          \/ s * PageSize + PageSize * f <= p * PageSize
          \/ p * PageSize + PageSize * e <= s * PageSize
  BY <1>2, <1>4, RunIs
<1>9. ASSUME NEW s \in PageSet, NEW l \in 0..MaxOrder, Run(p, k) \intersect Run(s, l) = {}
      PROVE  \/ s * PageSize + PageSize * 2^l <= p * PageSize
             \/ p * PageSize + PageSize * e <= s * PageSize
  <2>1. p..(p + e - 1) \intersect s..(s + 2^l - 1) = {}
    BY <1>3, <1>6, <1>9
  <2> QED
    BY <1>1, <1>8, <2>1
<1>10. e = 2^k
  BY DEF e
<1> QED
  BY <1>2, <1>5, <1>6, <1>7, <1>9, <1>10

(* Objects are apart from the blocks of pages that are not cut.            *)
LEMMA ObjectRunApart ==
  ASSUME NEW kind, NEW c \in Slabs, NEW a, IsObj(kind, c, a),
         NEW p \in PageSet, NEW k \in 0..MaxOrder, Run(p, k) \subseteq PageSet,
         \A t \in Run(p, k) : kind[t] = 0
  PROVE  a + Stride(c) <= p * PageSize \/ p * PageSize + PageSize * 2^k <= a
<1>1. PICK s \in PageSet : /\ kind[s] = c /\ s * PageSize <= a
                           /\ a + Stride(c) <= s * PageSize + PageSize
  BY ObjectIs
<1>2. c # 0
  BY DEF Slabs
<1>3. s \notin Run(p, k)
  BY <1>1, <1>2
<1>4. \/ s * PageSize + PageSize <= p * PageSize
      \/ p * PageSize + PageSize * 2^k <= s * PageSize
  BY <1>3, RunProperties
<1>5. /\ a \in Nat /\ Stride(c) \in Nat /\ PageSize \in Nat /\ s * PageSize \in Nat
      /\ p * PageSize \in Nat /\ PageSize * 2^k \in Nat
  <2>1. s \in Nat
    BY SizesAre
  <2> QED
    BY <2>1, ObjectIs, SizesAre, PagesApart, RunProperties
<1> DEFINE x == s * PageSize
           y == p * PageSize
           z == PageSize * 2^k
<1>6. /\ x \in Nat /\ y \in Nat /\ z \in Nat /\ x <= a /\ a + Stride(c) <= x + PageSize
      /\ x + PageSize <= y \/ y + z <= x
  BY <1>1, <1>4, <1>5
<1> HIDE DEF x, y, z
<1>7. a + Stride(c) <= y \/ y + z <= a
  BY <1>5, <1>6
<1> QED
  BY <1>7 DEF x, y, z

(* The pointer to an object is none to a block.                            *)
LEMMA ObjectNoBlock ==
  ASSUME NEW kind, NEW c \in Slabs, NEW a, IsObj(kind, c, a), NEW p \in PageSet
  PROVE  a + OBJ_HEADER # p * PageSize + PAGE_HEADER
<1>1. PICK s \in PageSet : /\ s * PageSize <= a
                           /\ a + Stride(c) <= s * PageSize + PageSize
  BY ObjectIs
<1> DEFINE x == s * PageSize
           y == p * PageSize
<1>2. /\ a \in Nat /\ PageSize \in Nat \ {0} /\ p \in Nat /\ s \in Nat
      /\ x \in Nat /\ y \in Nat /\ Stride(c) \in Nat /\ Stride(c) >= 4
  <2>1. s \in Nat /\ p \in Nat
    BY SizesAre
  <2>2. SlabSizes[c] \in Nat \ {0} /\ Stride(c) = SlabSizes[c] + 3
    BY SizesAre
  <2>3. Stride(c) \in Nat /\ Stride(c) >= 4
    BY <2>2
  <2>4. a \in Nat
    BY ObjectIs
  <2>5. x \in Nat /\ y \in Nat
    BY <2>1, PagesApart
  <2> QED
    BY <2>1, <2>3, <2>4, <2>5, SizesAre
<1>3. /\ s < p => x + PageSize <= y
      /\ p < s => y + PageSize <= x
      /\ s = p => x = y
  BY <1>2, PagesApart
<1> HIDE DEF x, y
<1>4. x <= a /\ a + Stride(c) <= x + PageSize
  BY <1>1 DEF x
<1>5. a + 3 # y + 2
  BY <1>2, <1>3, <1>4
<1> QED
  BY <1>5 DEF y, OBJ_HEADER, PAGE_HEADER

-----------------------------------------------------------------------------
(* Searches                                                                *)

(* A set of numbers has a least element. *)
LEMMA Least ==
  ASSUME NEW S \in SUBSET Nat, S # {}
  PROVE  \E m \in S : \A k \in S : m <= k
<1>1. \E m \in S : \A k \in S : ~(<<k, m>> \in OpToRel(<, Nat))
  BY NatLessThanWellFounded, WFMin
<1>2. PICK m \in S : \A k \in S : ~(<<k, m>> \in OpToRel(<, Nat))
  BY <1>1
<1>3. \A k \in S : ~(k < m)
  BY <1>2 DEF OpToRel
<1> QED
  BY <1>3

(* find_slab() gives a slab that is large enough, and to the size of a     *)
(* slab that slab.                                                         *)
LEMMA FindSlabIs ==
  ASSUME NEW n \in Nat
  PROVE  /\ FindSlab(n) \in {0} \union Slabs
         /\ \A c \in Slabs : c = FindSlab(n) => n <= SlabSizes[c]
         /\ \A c \in Slabs : n = SlabSizes[c] => FindSlab(n) = c
<1> DEFINE Fits(c) == n <= SlabSizes[c] /\ \A d \in 1..(c - 1) : n > SlabSizes[d]
           S == {c \in Slabs : n <= SlabSizes[c]}
<1>1. Slabs \subseteq Nat \ {0} /\ \A c \in Slabs : SlabSizes[c] \in Nat
  BY SizesAre DEF Slabs
<1>2. \A c \in Slabs : \A d \in 1..(c - 1) : d \in Slabs /\ d < c
  BY KmallocAssumption DEF Slabs
<1>3. ASSUME \E c \in Slabs : n <= SlabSizes[c] PROVE \E c \in Slabs : Fits(c)
  <2>1. S # {} /\ S \in SUBSET Nat
    BY <1>1, <1>3
  <2>2. PICK c \in S : \A d \in S : c <= d
    BY <2>1, Least
  <2>3. c \in Slabs /\ n <= SlabSizes[c]
    OBVIOUS
  <2>4. ASSUME NEW d \in 1..(c - 1) PROVE n > SlabSizes[d]
    <3>1. d \in Slabs /\ d < c /\ d \in Nat /\ c \in Nat
      BY <1>1, <1>2, <2>3
    <3>2. d \notin S
      BY <2>2, <3>1
    <3> QED
      BY <1>1, <3>1, <3>2
  <2> QED
    BY <2>3, <2>4
<1>4. ASSUME NEW c \in Slabs, NEW d \in Slabs, Fits(c), Fits(d) PROVE c = d
  <2>1. ASSUME NEW e \in Slabs, NEW f \in Slabs, Fits(e), Fits(f), e < f PROVE FALSE
    <3>1. e \in 1..(f - 1)
      BY <1>1, <2>1
    <3> QED
      BY <1>1, <2>1, <3>1
  <2>2. c < d \/ d < c \/ c = d
    BY <1>1
  <2> QED
    BY <1>4, <2>1, <2>2
<1>5. FindSlab(n) = IF \E c \in Slabs : n <= SlabSizes[c]
                    THEN CHOOSE c \in Slabs : Fits(c) ELSE 0
  BY DEF FindSlab
<1>6. 0 \notin Slabs
  BY DEF Slabs
<1>7. ASSUME NEW c \in Slabs, n = SlabSizes[c] PROVE Fits(c)
  <2>1. \A d \in 1..(c - 1) : SlabSizes[d] < SlabSizes[c]
    BY <1>2, KmallocAssumption
  <2>2. \A d \in 1..(c - 1) : SlabSizes[d] \in Nat
    BY <1>1, <1>2
  <2> QED
    BY <1>7, <2>1, <2>2
<1>8. \A c \in Slabs : Fits(c) => n <= SlabSizes[c]
  OBVIOUS
<1> HIDE DEF Fits
<1>9. CASE \E c \in Slabs : n <= SlabSizes[c]
  <2> DEFINE e == CHOOSE c \in Slabs : Fits(c)
  <2>1. e \in Slabs /\ Fits(e)
    BY <1>3, <1>9
  <2>2. FindSlab(n) = e
    BY <1>5, <1>9
  <2> HIDE DEF e
  <2> QED
    BY <1>4, <1>7, <1>8, <2>1, <2>2
<1>10. CASE ~\E c \in Slabs : n <= SlabSizes[c]
  <2>1. FindSlab(n) = 0
    BY <1>5, <1>10
  <2> QED
    BY <1>6, <1>7, <1>8, <1>10, <2>1
<1> QED
  BY <1>9, <1>10

(* The order kmalloc() computes is one whose block is large enough.        *)
LEMMA OrderForIs ==
  ASSUME NEW n \in Requests, OrderFor(n) <= MaxOrder
  PROVE  /\ OrderFor(n) \in 0..MaxOrder
         /\ n <= PageSize * 2^OrderFor(n) - PAGE_HEADER
<1> DEFINE Holds(k) == PageSize * 2^k >= n + PAGE_HEADER
           S == {k \in 0..n : Holds(k)}
<1>1. n \in Nat \ {0} /\ 2^n > n /\ \A k \in 0..n : 2^k \in Nat
  BY KmallocAssumption, PowerAssumption
<1>2. PageSize \in Nat /\ PageSize >= 4
  BY SizesAre
<1>3. \A k \in 0..n : PageSize * 2^k \in Nat
  BY <1>1, <1>2, Products
<1>4. Holds(n)
  <2>1. n \in 0..n /\ 2^n \in Nat
    BY <1>1
  <2> DEFINE e == 2^n
  <2>2. e \in Nat /\ e > n
    BY <1>1, <2>1
  <2> HIDE DEF e
  <2>3. 4 * e <= PageSize * e
    BY <1>2, <2>2, Products
  <2>4. PageSize * e >= n + 2
    <3>1. PageSize * e \in Nat
      BY <1>2, <2>2, Products
    <3> QED
      BY <1>1, <2>2, <2>3, <3>1
  <2> QED
    BY <2>4 DEF e, PAGE_HEADER
<1>5. PICK k \in S : \A j \in S : k <= j
  <2>1. n \in S /\ S \in SUBSET Nat
    BY <1>1, <1>4
  <2> HIDE DEF S
  <2> QED
    BY <2>1, Least
<1>6. k \in 0..n /\ Holds(k)
  OBVIOUS
<1>7. \A j \in 0..(k - 1) : PageSize * 2^j < n + PAGE_HEADER
  <2> SUFFICES ASSUME NEW j \in 0..(k - 1) PROVE PageSize * 2^j < n + PAGE_HEADER
    OBVIOUS
  <2>1. j \in 0..n /\ j < k /\ j \in Nat /\ k \in Nat
    BY <1>1, <1>6
  <2>2. ~Holds(j)
    BY <1>5, <2>1
  <2>3. PageSize * 2^j \in Nat
    BY <1>3, <2>1
  <2> QED
    BY <1>1, <2>2, <2>3 DEF PAGE_HEADER
<1>8. /\ OrderFor(n) \in 0..n /\ PageSize * 2^OrderFor(n) >= n + PAGE_HEADER
  BY <1>6, <1>7 DEF OrderFor
<1>9. PageSize * 2^OrderFor(n) \in Nat
  BY <1>3, <1>8
<1> DEFINE b == PageSize * 2^OrderFor(n)
<1>10. n <= b - 2
  <2>1. b \in Nat /\ b >= n + 2
    BY <1>8, <1>9 DEF PAGE_HEADER
  <2> HIDE DEF b
  <2> QED
    BY <1>1, <2>1
<1>11. OrderFor(n) \in 0..MaxOrder
  BY <1>8, SizesAre
<1> QED
  BY <1>10, <1>11 DEF PAGE_HEADER

-----------------------------------------------------------------------------
(* Pieces in use                                                           *)

(* A block is at one place only, in one run of pages. *)
LEMMA BlockOnce ==
  ASSUME NEW x, NEW p \in PageSet, NEW s \in PageSet, NEW k \in 0..MaxOrder,
         NEW l \in 0..MaxOrder, BlockAt(x, p, k), BlockAt(x, s, l),
         Run(p, k) \subseteq PageSet
  PROVE  p = s /\ Run(p, k) = Run(s, l)
<1> DEFINE a == p * PageSize
           b == s * PageSize
           e == 2^k
           f == 2^l
           u == PageSize * e
           v == PageSize * f
<1>1. /\ PageSize \in Nat \ {0} /\ p \in Nat /\ s \in Nat /\ a \in Nat /\ b \in Nat
      /\ p < s => a + PageSize <= b
      /\ s < p => b + PageSize <= a
  BY SizesAre, PagesApart
<1>2. e \in Nat /\ f \in Nat
  BY PowerAssumption
<1>3. u \in Nat /\ v \in Nat
  <2> HIDE DEF e, f
  <2> QED
    BY <1>1, <1>2, Products
<1>4. a + 2 = b + 2 /\ u - 2 = v - 2
  BY DEF BlockAt, PAGE_HEADER
<1>5. Run(p, k) = p..(p + e - 1) /\ Run(s, l) = s..(s + f - 1)
  BY DEF Run
<1>6. p = s
  <2> HIDE DEF a, b, u, v
  <2> QED
    BY <1>1, <1>4
<1>7. u = v
  <2> HIDE DEF u, v
  <2> QED
    BY <1>3, <1>4
<1>8. e = f
  <2> HIDE DEF e, f
  <2>1. e < f => e + 1 <= f
    BY <1>2
  <2>2. f < e => f + 1 <= e
    BY <1>2
  <2>3. /\ e + 1 <= f => (e + 1) * PageSize <= f * PageSize
        /\ f + 1 <= e => (f + 1) * PageSize <= e * PageSize
    BY <1>1, <1>2, Products
  <2>4. /\ (e + 1) * PageSize = e * PageSize + PageSize
        /\ (f + 1) * PageSize = f * PageSize + PageSize
    BY <1>1, <1>2
  <2>5. e * PageSize = u /\ f * PageSize = v
    BY <1>1, <1>2
  <2> HIDE DEF u, v
  <2> QED
    BY <1>1, <1>2, <1>3, <1>7, <2>1, <2>2, <2>3, <2>4, <2>5
<1> QED
  BY <1>5, <1>6, <1>8

(* An object in use is no block, and its words lie behind its header.      *)
LEMMA PieceIs ==
  ASSUME NEW kind, NEW q, NEW x, IsPiece(kind, q, x)
  PROVE  /\ \A p \in PageSet, k \in 0..MaxOrder : ~BlockAt(x, p, k)
         /\ \E c \in Slabs : \E a \in Nat :
              /\ x[1] = a + 3 /\ x[2] = SlabSizes[c] /\ x[1] + x[2] = a + Stride(c)
              /\ x[3] \in Requests /\ x[3] <= x[2] /\ x = <<x[1], x[2], x[3]>>
              /\ IsObj(kind, c, a)
              /\ \A i \in 1..Len(q[c]) : q[c][i] # a
<1>1. PICK c \in Slabs : \E a \in Nat, r \in Requests :
        /\ x = <<a + OBJ_HEADER, SlabSizes[c], r>> /\ r <= SlabSizes[c]
        /\ IsObj(kind, c, a)
        /\ \A i \in 1..Len(q[c]) : q[c][i] # a
  BY DEF IsPiece
<1>2. PICK a \in Nat, r \in Requests :
        /\ x = <<a + OBJ_HEADER, SlabSizes[c], r>> /\ r <= SlabSizes[c]
        /\ IsObj(kind, c, a)
        /\ \A i \in 1..Len(q[c]) : q[c][i] # a
  BY <1>1
<1>3. x[1] = a + OBJ_HEADER /\ x[2] = SlabSizes[c] /\ x[3] = r
  BY <1>2
<1>4. \A p \in PageSet, k \in 0..MaxOrder : ~BlockAt(x, p, k)
  BY <1>2, <1>3, ObjectNoBlock DEF BlockAt
<1>5. OBJ_HEADER = 3
  BY DEF OBJ_HEADER
<1>6. a + 3 + SlabSizes[c] = a + Stride(c)
  BY SizesAre
<1> QED
  BY <1>2, <1>3, <1>4, <1>5, <1>6

(* A block in use, its words behind its header of two.                     *)
LEMMA RunPieceIs ==
  ASSUME NEW M, NEW P, NEW kind, NEW x, IsRun(M, P, kind, x)
  PROVE  \E p \in PageSet, k \in 0..MaxOrder :
           /\ BlockAt(x, p, k) /\ x[1] = p * PageSize + 2
           /\ x[1] + x[2] = p * PageSize + PageSize * 2^k
           /\ x[1] \in Nat /\ x[2] \in Nat \ {0}
           /\ x[3] \in Requests /\ x[3] <= x[2] /\ x = <<x[1], x[2], x[3]>>
           /\ Run(p, k) \subseteq PageSet \ P /\ Run(p, k) \subseteq PageSet
           /\ \A t \in Run(p, k) : kind[t] = 0
           /\ M[p * PageSize + 1] = <<"KMALLOC_PAGE_MAGIC", k>>
<1>1. PICK p \in PageSet, k \in 0..MaxOrder, r \in Requests :
        /\ x = <<x[1], x[2], r>> /\ r <= x[2] /\ BlockAt(x, p, k)
        /\ Run(p, k) \subseteq PageSet \ P
        /\ \A t \in Run(p, k) : kind[t] = 0
        /\ M[p * PageSize + 1] = <<"KMALLOC_PAGE_MAGIC", k>>
  BY DEF IsRun
<1>2. x[1] = p * PageSize + 2 /\ x[2] = PageSize * 2^k - 2 /\ x[3] = r
  <2>1. x[3] = r
    BY <1>1
  <2> QED
    BY <1>1, <2>1 DEF BlockAt, PAGE_HEADER
<1>3. Run(p, k) \subseteq PageSet
  BY <1>1
<1> DEFINE a == p * PageSize
           e == PageSize * 2^k
<1>4. a \in Nat /\ e \in Nat /\ e >= PageSize /\ PageSize \in Nat /\ PageSize >= 4
  BY <1>3, RunProperties, SizesAre
<1>5. x[1] + x[2] = a + e /\ x[1] \in Nat /\ x[2] \in Nat \ {0}
  <2>1. x[1] = a + 2 /\ x[2] = e - 2
    BY <1>2
  <2> HIDE DEF a, e
  <2> QED
    BY <1>4, <2>1
<1> QED
  BY <1>1, <1>2, <1>3, <1>5

(* A piece may join those in use when it is apart from each of them, and   *)
(* pieces may leave.                                                       *)
LEMMA SeparateKept ==
  ASSUME NEW L, Separate(L)
  PROVE  /\ \A x : (\A y \in L : Apart(x, y)) => Separate(L \union {x})
         /\ \A S : Separate(L \ S)
<1>1. ASSUME NEW x, NEW y, Apart(x, y) PROVE Apart(y, x)
  <2>1. y[1] # x[1]
    BY <1>1 DEF Apart
  <2>2. ASSUME NEW p \in PageSet, NEW s \in PageSet, NEW k \in 0..MaxOrder,
               NEW l \in 0..MaxOrder, BlockAt(y, p, k), BlockAt(x, s, l)
        PROVE  Run(p, k) \intersect Run(s, l) = {}
    <3>1. Run(s, l) \intersect Run(p, k) = {}
      BY <1>1, <2>2 DEF Apart
    <3> QED
      BY <3>1
  <2> QED
    BY <2>1, <2>2 DEF Apart
<1> QED
  BY <1>1 DEF Separate

(* An object is apart from another that is in use and from every block.    *)
LEMMA ObjectApart ==
  ASSUME NEW kind, NEW c \in Slabs, NEW a, IsObj(kind, c, a),
         NEW x, x[1] = a + OBJ_HEADER, NEW y,
         y[1] # x[1] \/ \E p \in PageSet, k \in 0..MaxOrder : BlockAt(y, p, k)
  PROVE  Apart(x, y)
<1>1. \A p \in PageSet, k \in 0..MaxOrder : ~BlockAt(x, p, k)
  BY ObjectNoBlock DEF BlockAt
<1>2. x[1] # y[1]
  <2>1. ASSUME NEW p \in PageSet, NEW k \in 0..MaxOrder, BlockAt(y, p, k)
        PROVE  x[1] # y[1]
    BY <2>1, ObjectNoBlock DEF BlockAt
  <2> QED
    BY <2>1
<1> QED
  BY <1>1, <1>2 DEF Apart

-----------------------------------------------------------------------------
(* What a step may write                                                   *)

(* Where the headers of objects keep their words, headers and lists stay. *)
LEMMA HeadersKept ==
  ASSUME NEW M, NEW K, NEW F, NEW N, NEW kind, NEW q,
         Headers(M, kind), Lists(M, F, N, kind, q),
         \A c \in Slabs : \A a : IsObj(kind, c, a) =>
           K[a] = M[a] /\ K[a + 1] = M[a + 1] /\ K[a + 2] = M[a + 2]
  PROVE  Headers(K, kind) /\ Lists(K, F, N, kind, q)
<1>1. Headers(K, kind)
  BY DEF Headers
<1>2. ASSUME NEW c \in Slabs PROVE IsList(K, kind, c, F[c], q[c])
  <2>1. IsList(M, kind, c, F[c], q[c])
    BY DEF Lists
  <2>2. \A a : IsObj(kind, c, a) => K[a + 2] = M[a + 2]
    OBVIOUS
  <2> QED
    BY <2>1, <2>2 DEF IsList
<1> QED
  BY <1>1, <1>2 DEF Lists

(* Where the headers of blocks keep their magic and their pages are not    *)
(* touched, blocks stay.                                                   *)
LEMMA RunKept ==
  ASSUME NEW M, NEW K, NEW P, NEW Q, NEW kind, NEW kind2, NEW x, IsRun(M, P, kind, x),
         \A p \in PageSet, k \in 0..MaxOrder :
           /\ BlockAt(x, p, k) /\ Run(p, k) \subseteq PageSet \ P
           /\ \A t \in Run(p, k) : kind[t] = 0
           => /\ K[p * PageSize + 1] = M[p * PageSize + 1]
              /\ Run(p, k) \subseteq PageSet \ Q
              /\ \A t \in Run(p, k) : kind2[t] = 0
  PROVE  IsRun(K, Q, kind2, x)
<1>1. PICK p \in PageSet, k \in 0..MaxOrder, r \in Requests :
        /\ x = <<x[1], x[2], r>> /\ r <= x[2] /\ BlockAt(x, p, k)
        /\ Run(p, k) \subseteq PageSet \ P
        /\ \A t \in Run(p, k) : kind[t] = 0
        /\ M[p * PageSize + 1] = <<"KMALLOC_PAGE_MAGIC", k>>
  BY DEF IsRun
<1>2. /\ K[p * PageSize + 1] = <<"KMALLOC_PAGE_MAGIC", k>>
      /\ Run(p, k) \subseteq PageSet \ Q
      /\ \A t \in Run(p, k) : kind2[t] = 0
  BY <1>1
<1> QED
  BY <1>1, <1>2 DEF IsRun

(* The header of an object, and where it lies to a block.                  *)
LEMMA HeaderApart ==
  ASSUME NEW kind, NEW c \in Slabs, NEW a, IsObj(kind, c, a),
         NEW p \in PageSet, NEW k \in 0..MaxOrder, Run(p, k) \subseteq PageSet,
         \A t \in Run(p, k) : kind[t] = 0
  PROVE  /\ a \in Nat /\ p * PageSize \in Nat /\ PageSize * 2^k \in Nat
         /\ p * PageSize + 1 \in Words /\ p * PageSize \in Words
         /\ PageSize * 2^k >= 4 /\ Stride(c) \in Nat /\ Stride(c) >= 4
         /\ \/ a + Stride(c) <= p * PageSize
            \/ p * PageSize + PageSize * 2^k <= a
<1> DEFINE b == p * PageSize
           e == PageSize * 2^k
<1>1. /\ b \in Nat /\ e \in Nat /\ e >= PageSize
      /\ \A w \in Nat : b <= w /\ w < b + e => w \in Words
  BY RunProperties
<1>2. PageSize \in Nat /\ PageSize >= 4
  BY SizesAre
<1>3. Stride(c) \in Nat /\ Stride(c) >= 4
  <2>1. SlabSizes[c] \in Nat \ {0} /\ Stride(c) = SlabSizes[c] + 3
    BY SizesAre
  <2> QED
    BY <2>1
<1>4. a + Stride(c) <= b \/ b + e <= a
  BY ObjectRunApart
<1>5. a \in Nat
  BY ObjectIs
<1>6. b + 1 \in Words /\ b \in Words /\ e >= 4
  <2> HIDE DEF b, e
  <2> QED
    BY <1>1, <1>2
<1> QED
  BY <1>1, <1>3, <1>4, <1>5, <1>6

(* A caller's writes touch no header.                                      *)
LEMMA UseKeeps ==
  ASSUME NEW kind, NEW q,
         Layout(mem, pages, free_list, free_objects, live, kind, q),
         NEW x \in live, Use(x)
  PROVE  Layout(mem', pages', free_list', free_objects', live', kind, q)
<1>1. /\ Cut(pages, kind) /\ Headers(mem, kind)
      /\ Lists(mem, free_list, free_objects, kind, q)
      /\ Pieces(mem, pages, live, kind, q) /\ Separate(live)
  BY DEF Layout
<1>2. /\ mem' = [a \in Words |-> IF a \in x[1]..(x[1] + x[2] - 1) THEN <<"data">> ELSE mem[a]]
      /\ pages' = pages /\ free_list' = free_list /\ free_objects' = free_objects
      /\ live' = live
  BY DEF Use, slab
<1>3. IsPiece(kind, q, x) \/ IsRun(mem, pages, kind, x)
  BY <1>1 DEF Pieces
<1>4. x[1] \in Nat /\ x[2] \in Nat
  <2>1. CASE IsPiece(kind, q, x)
    <3>1. PICK c \in Slabs : \E a \in Nat : x[1] = a + 3 /\ x[2] = SlabSizes[c]
      BY <2>1, PieceIs
    <3> QED
      BY <3>1, SizesAre
  <2>2. CASE IsRun(mem, pages, kind, x)
    BY <2>2, RunPieceIs
  <2> QED
    BY <1>3, <2>1, <2>2
<1>5. \A w \in Words : w \in Nat /\ (w < x[1] \/ x[1] + x[2] <= w => mem'[w] = mem[w])
  <2>1. Words \subseteq Nat
    BY SizesAre DEF Words
  <2> QED
    BY <1>2, <1>4, <2>1
<1>6. ASSUME NEW c \in Slabs, NEW a, IsObj(kind, c, a)
      PROVE  \A w \in {a, a + 1, a + 2} : mem'[w] = mem[w]
  <2>1. /\ a \in Nat /\ a \in Words /\ a + 1 \in Words /\ a + 2 \in Words
        /\ Stride(c) \in Nat /\ Stride(c) >= 4
    <3>1. SlabSizes[c] \in Nat \ {0} /\ Stride(c) = SlabSizes[c] + 3
      BY SizesAre
    <3> QED
      BY <1>6, <3>1, ObjectIs
  <2>2. a + 3 <= x[1] \/ x[1] + x[2] <= a
    <3>1. CASE IsPiece(kind, q, x)
      <4>1. PICK d \in Slabs, b \in Nat :
              /\ x[1] = b + 3 /\ x[1] + x[2] = b + Stride(d) /\ IsObj(kind, d, b)
        BY <3>1, PieceIs
      <4>2. a # b => a + Stride(c) <= b \/ b + Stride(d) <= a
        BY <1>6, <4>1, ObjectsApart
      <4> QED
        BY <2>1, <4>1, <4>2
    <3>2. CASE IsRun(mem, pages, kind, x)
      <4>1. PICK p \in PageSet, k \in 0..MaxOrder :
              /\ x[1] = p * PageSize + 2 /\ x[1] + x[2] = p * PageSize + PageSize * 2^k
              /\ Run(p, k) \subseteq PageSet
              /\ \A t \in Run(p, k) : kind[t] = 0
        BY <3>2, RunPieceIs
      <4> DEFINE b == p * PageSize
                 e == PageSize * 2^k
      <4>2. b \in Nat /\ e \in Nat /\ (a + Stride(c) <= b \/ b + e <= a)
        BY <1>6, <4>1, HeaderApart
      <4>3. x[1] = b + 2 /\ x[1] + x[2] = b + e
        BY <4>1
      <4> HIDE DEF b, e
      <4> QED
        BY <2>1, <4>2, <4>3
    <3> QED
      BY <1>3, <3>1, <3>2
  <2> QED
    BY <1>4, <1>5, <2>1, <2>2
<1>7. Headers(mem', kind) /\ Lists(mem', free_list, free_objects, kind, q)
  <2>1. \A c \in Slabs : \A a : IsObj(kind, c, a) =>
          mem'[a] = mem[a] /\ mem'[a + 1] = mem[a + 1] /\ mem'[a + 2] = mem[a + 2]
    BY <1>6
  <2> QED
    BY <1>1, <2>1, HeadersKept
<1>8. ASSUME NEW y \in live, IsRun(mem, pages, kind, y)
      PROVE  IsRun(mem', pages, kind, y)
  <2>1. ASSUME NEW s \in PageSet, NEW l \in 0..MaxOrder, BlockAt(y, s, l),
               Run(s, l) \subseteq PageSet \ pages, \A t \in Run(s, l) : kind[t] = 0
        PROVE  mem'[s * PageSize + 1] = mem[s * PageSize + 1]
    <3> DEFINE b == s * PageSize
               e == PageSize * 2^l
    <3>1. Run(s, l) \subseteq PageSet
      BY <2>1
    <3>2. /\ b \in Nat /\ e \in Nat /\ e >= 4
          /\ \A w \in Nat : b <= w /\ w < b + e => w \in Words
      <4>1. PageSize \in Nat /\ PageSize >= 4
        BY SizesAre
      <4>2. /\ b \in Nat /\ e \in Nat /\ e >= PageSize
            /\ \A w \in Nat : b <= w /\ w < b + e => w \in Words
        BY <3>1, RunProperties
      <4> HIDE DEF b, e
      <4> QED
        BY <4>1, <4>2
    <3>3. b + 1 \in Words
      <4> HIDE DEF b, e
      <4> QED
        BY <3>2
    <3>4. b + 1 < x[1] \/ x[1] + x[2] <= b + 1
      <4>1. CASE IsPiece(kind, q, x)
        <5>1. PICK d \in Slabs, a \in Nat :
                /\ x[1] = a + 3 /\ x[1] + x[2] = a + Stride(d) /\ IsObj(kind, d, a)
          BY <4>1, PieceIs
        <5>2. a + Stride(d) <= b \/ b + e <= a
          BY <2>1, <3>1, <5>1, HeaderApart
        <5> HIDE DEF b, e
        <5> QED
          BY <1>4, <3>2, <5>1, <5>2
      <4>2. CASE IsRun(mem, pages, kind, x)
        <5>1. PICK p \in PageSet, k \in 0..MaxOrder :
                /\ BlockAt(x, p, k)
                /\ x[1] = p * PageSize + 2 /\ x[1] + x[2] = p * PageSize + PageSize * 2^k
                /\ Run(p, k) \subseteq PageSet
          BY <4>2, RunPieceIs
        <5> DEFINE a == p * PageSize
                   f == PageSize * 2^k
        <5>2. a \in Nat /\ f \in Nat /\ x[1] = a + 2 /\ x[1] + x[2] = a + f
          BY <5>1, RunProperties
        <5>3. CASE x = y
          <6>1. x[1] = b + 2
            BY <2>1, <5>3 DEF BlockAt, PAGE_HEADER
          <6> HIDE DEF b
          <6> QED
            BY <3>2, <6>1
        <5>4. CASE x # y
          <6>1. Run(p, k) \intersect Run(s, l) = {}
            BY <1>1, <2>1, <5>1, <5>4 DEF Separate, Apart
          <6>2. b + e <= a \/ a + f <= b
            BY <5>1, <6>1, RunProperties
          <6> HIDE DEF a, b, e, f
          <6> QED
            BY <1>4, <3>2, <5>2, <6>2
        <5> QED
          BY <5>3, <5>4
      <4> QED
        BY <1>3, <4>1, <4>2
    <3> QED
      BY <1>5, <3>3, <3>4
  <2> QED
    BY <1>8, <2>1, RunKept
<1>9. Pieces(mem', pages, live, kind, q)
  BY <1>1, <1>8 DEF Pieces
<1> QED
  BY <1>1, <1>2, <1>7, <1>9 DEF Layout

-----------------------------------------------------------------------------
(* The operations keep the layout                                          *)

\* Each slab's list and count, as Lists has them.
OneList(M, kind, c, h, n, s) == s \in Seq(Nat) /\ IsList(M, kind, c, h, s) /\ n = Len(s)

(* A list without its head. *)
LEMMA TailIsList ==
  ASSUME NEW M, NEW kind, NEW c \in Slabs, NEW h, NEW n, NEW s,
         OneList(M, kind, c, h, n, s), h # 0
  PROVE  /\ s # <<>> /\ h = s[1] /\ IsObj(kind, c, h) /\ h \in Nat
         /\ OneList(M, kind, c, M[h + 2][2], n - 1, Tail(s))
         /\ \A i \in 1..Len(Tail(s)) : Tail(s)[i] # h /\ \E j \in 1..Len(s) : Tail(s)[i] = s[j]
<1> DEFINE m == Len(s)
           t == Tail(s)
<1>1. /\ s \in Seq(Nat) /\ n = m
      /\ h = IF s = <<>> THEN 0 ELSE s[1]
      /\ \A i \in 1..m :
           /\ IsObj(kind, c, s[i])
           /\ M[s[i] + 2] = <<"next", IF i = m THEN 0 ELSE s[i + 1]>>
      /\ \A i, j \in 1..m : s[i] = s[j] => i = j
  BY DEF OneList, IsList
<1>2. s # <<>> /\ h = s[1] /\ m \in Nat \ {0} /\ 1 \in 1..m
  BY <1>1
<1>3. /\ t \in Seq(Nat) /\ Len(t) = m - 1
      /\ \A i \in 1..(m - 1) : t[i] = s[i + 1]
  BY <1>1, <1>2
<1>4. \A i \in 1..(m - 1) : i + 1 \in 1..m /\ i + 1 # 1 /\ (i = m - 1 <=> i + 1 = m)
  BY <1>2
<1>0. \A u \in Seq(Nat) : u = <<>> <=> Len(u) = 0
  OBVIOUS
<1> HIDE DEF m, t
<1>5. t = <<>> <=> m = 1
  BY <1>0, <1>2, <1>3
<1>6. M[h + 2][2] = IF t = <<>> THEN 0 ELSE t[1]
  <2>1. M[h + 2] = <<"next", IF 1 = m THEN 0 ELSE s[1 + 1]>>
    BY <1>1, <1>2
  <2>2. CASE m = 1
    BY <1>5, <2>1, <2>2
  <2>3. CASE m # 1
    <3>1. 1 \in 1..(m - 1)
      BY <1>2, <2>3
    <3>2. t[1] = s[1 + 1]
      BY <1>3, <3>1
    <3> QED
      BY <1>5, <2>1, <2>3, <3>2
  <2> QED
    BY <2>2, <2>3
<1>7. ASSUME NEW i \in 1..(m - 1)
      PROVE  /\ IsObj(kind, c, t[i]) /\ t[i] # h
             /\ M[t[i] + 2] = <<"next", IF i = m - 1 THEN 0 ELSE t[i + 1]>>
  <2>1. i + 1 \in 1..m /\ t[i] = s[i + 1]
    BY <1>3, <1>4
  <2>2. IsObj(kind, c, t[i]) /\ M[t[i] + 2] = <<"next", IF i + 1 = m THEN 0 ELSE s[i + 1 + 1]>>
    BY <1>1, <2>1
  <2>3. i # m - 1 => i + 1 \in 1..(m - 1)
    BY <1>2
  <2>4. i # m - 1 => t[i + 1] = s[i + 1 + 1]
    BY <1>3, <2>3
  <2>5. t[i] # h
    BY <1>1, <1>2, <1>4, <2>1
  <2>6. i = m - 1 <=> i + 1 = m
    BY <1>4
  <2> QED
    BY <2>2, <2>4, <2>5, <2>6
<1>8. \A i, j \in 1..(m - 1) : t[i] = t[j] => i = j
  <2> SUFFICES ASSUME NEW i \in 1..(m - 1), NEW j \in 1..(m - 1), t[i] = t[j]
               PROVE  i = j
    OBVIOUS
  <2>1. i + 1 \in 1..m /\ j + 1 \in 1..m /\ s[i + 1] = s[j + 1]
    BY <1>3, <1>4
  <2>2. i + 1 = j + 1
    BY <1>1, <2>1
  <2> QED
    BY <1>2, <2>2
<1>9. OneList(M, kind, c, M[h + 2][2], n - 1, t)
  BY <1>1, <1>3, <1>6, <1>7, <1>8 DEF OneList, IsList
<1>10. \A i \in 1..Len(t) : t[i] # h /\ \E j \in 1..m : t[i] = s[j]
  BY <1>3, <1>4, <1>7
<1>11. IsObj(kind, c, h)
  BY <1>1, <1>2
<1>12. h \in Nat
  BY <1>11, ObjectIs
<1> QED
  BY <1>2, <1>9, <1>10, <1>11, <1>12 DEF m, t

(* An object from the list becomes a piece. *)
LEMMA TakeObjectKeeps ==
  ASSUME NEW kind, NEW q \in [Slabs -> Seq(Nat)], Types,
         Layout(mem, pages, free_list, free_objects, live, kind, q),
         NEW c \in Slabs, NEW r \in Requests, r <= SlabSizes[c], TakeObject(c, r)
  PROVE  Layout(mem', pages', free_list', free_objects', live', kind,
                [q EXCEPT ![c] = Tail(q[c])])
<1> DEFINE h == free_list[c]
           q2 == [q EXCEPT ![c] = Tail(q[c])]
           x == <<h + OBJ_HEADER, SlabSizes[c], r>>
<1>1. /\ Cut(pages, kind) /\ Headers(mem, kind)
      /\ Lists(mem, free_list, free_objects, kind, q)
      /\ Pieces(mem, pages, live, kind, q) /\ Separate(live)
  BY DEF Layout
<1>2. /\ h # 0 /\ mem' = mem /\ pages' = pages
      /\ free_list' = [free_list EXCEPT ![c] = mem[h + 2][2]]
      /\ free_objects' = [free_objects EXCEPT ![c] = free_objects[c] - 1]
      /\ live' = live \union {x}
  BY DEF TakeObject, Hand
<1>3. OneList(mem, kind, c, h, free_objects[c], q[c])
  BY <1>1 DEF Lists, OneList
<1>4. /\ q[c] # <<>> /\ h = q[c][1] /\ IsObj(kind, c, h) /\ h \in Nat
      /\ OneList(mem, kind, c, mem[h + 2][2], free_objects[c] - 1, Tail(q[c]))
      /\ \A i \in 1..Len(Tail(q[c])) :
           Tail(q[c])[i] # h /\ \E j \in 1..Len(q[c]) : Tail(q[c])[i] = q[c][j]
  <2> DEFINE s == q[c]
             n == free_objects[c]
             g == h
  <2>1. g # 0 /\ OneList(mem, kind, c, g, n, s)
    BY <1>2, <1>3
  <2> HIDE DEF g, n, s
  <2>2. /\ s # <<>> /\ g = s[1] /\ IsObj(kind, c, g) /\ g \in Nat
        /\ OneList(mem, kind, c, mem[g + 2][2], n - 1, Tail(s))
        /\ \A i \in 1..Len(Tail(s)) : Tail(s)[i] # g /\ \E j \in 1..Len(s) : Tail(s)[i] = s[j]
    BY <2>1, TailIsList
  <2> QED
    BY <2>2 DEF g, n, s
<1>5. q2[c] = Tail(q[c]) /\ \A d \in Slabs : d # c => q2[d] = q[d]
  OBVIOUS
<1>6. 1 \in 1..Len(q[c])
  <2>1. q[c] \in Seq(Nat)
    OBVIOUS
  <2> QED
    BY <1>4, <2>1
<1> HIDE DEF q2, h
<1>7. Lists(mem, free_list', free_objects', kind, q2)
  <2> SUFFICES ASSUME NEW d \in Slabs
               PROVE  OneList(mem, kind, d, free_list'[d], free_objects'[d], q2[d])
    BY DEF Lists, OneList
  <2>1. free_list \in [Slabs -> {0} \union Words] /\ free_objects \in [Slabs -> Nat]
    BY DEF Types
  <2>2. CASE d = c
    <3>1. free_list'[d] = mem[h + 2][2] /\ free_objects'[d] = free_objects[c] - 1
      BY <1>2, <2>1, <2>2
    <3> QED
      BY <1>4, <1>5, <2>2, <3>1
  <2>3. CASE d # c
    <3>1. free_list'[d] = free_list[d] /\ free_objects'[d] = free_objects[d]
      BY <1>2, <2>1, <2>3
    <3> QED
      BY <1>1, <1>5, <2>3, <3>1 DEF Lists, OneList
  <2> QED
    BY <2>2, <2>3
<1>8. ASSUME NEW y, IsPiece(kind, q, y) PROVE IsPiece(kind, q2, y) /\ y[1] # x[1]
  <2>1. PICK d \in Slabs : \E a \in Nat, s \in Requests :
          /\ y = <<a + OBJ_HEADER, SlabSizes[d], s>> /\ s <= SlabSizes[d]
          /\ IsObj(kind, d, a) /\ \A i \in 1..Len(q[d]) : q[d][i] # a
    BY <1>8 DEF IsPiece
  <2>2. PICK a \in Nat, s \in Requests :
          /\ y = <<a + OBJ_HEADER, SlabSizes[d], s>> /\ s <= SlabSizes[d]
          /\ IsObj(kind, d, a) /\ \A i \in 1..Len(q[d]) : q[d][i] # a
    BY <2>1
  <2>3. \A i \in 1..Len(q2[d]) : q2[d][i] # a
    <3>1. CASE d = c
      <4> SUFFICES ASSUME NEW i \in 1..Len(q2[d]) PROVE q2[d][i] # a
        OBVIOUS
      <4>1. q2[d] = Tail(q[c])
        BY <1>5, <3>1
      <4>2. PICK j \in 1..Len(q[c]) : Tail(q[c])[i] = q[c][j]
        BY <1>4, <4>1
      <4> QED
        BY <2>2, <3>1, <4>1, <4>2
    <3>2. CASE d # c
      BY <1>5, <2>2, <3>2
    <3> QED
      BY <3>1, <3>2
  <2>4. IsPiece(kind, q2, y)
    BY <2>2, <2>3 DEF IsPiece
  <2>5. a # h
    <3>1. a = h => d = c
      BY <1>4, <2>2, ObjectsApart
    <3> QED
      BY <1>4, <1>6, <2>2, <3>1
  <2>6. y[1] = a + 3 /\ x[1] = h + 3
    BY <2>2 DEF OBJ_HEADER
  <2> HIDE DEF x
  <2> QED
    BY <1>4, <2>4, <2>5, <2>6
<1>9. IsPiece(kind, q2, x)
  <2>1. \A i \in 1..Len(q2[c]) : q2[c][i] # h
    BY <1>4, <1>5
  <2> QED
    BY <1>4, <2>1 DEF IsPiece
<1>10. Pieces(mem, pages, live \union {x}, kind, q2)
  BY <1>1, <1>8, <1>9 DEF Pieces
<1>11. Separate(live \union {x})
  <2>1. ASSUME NEW y \in live PROVE Apart(x, y)
    <3>1. \/ IsPiece(kind, q, y) /\ y[1] # x[1]
          \/ IsRun(mem, pages, kind, y)
      BY <1>1, <1>8 DEF Pieces
    <3>2. x[1] = h + OBJ_HEADER
      OBVIOUS
    <3> HIDE DEF x
    <3> QED
      <4>1. IsObj(kind, c, h)
        BY <1>4
      <4>2. CASE IsPiece(kind, q, y) /\ y[1] # x[1]
        BY <3>2, <4>1, <4>2, ObjectApart
      <4>3. CASE IsRun(mem, pages, kind, y)
        <5>1. \E p \in PageSet, k \in 0..MaxOrder : BlockAt(y, p, k)
          BY <4>3, RunPieceIs
        <5> QED
          BY <3>2, <4>1, <5>1, ObjectApart
      <4> QED
        BY <3>1, <4>2, <4>3
  <2> HIDE DEF x
  <2> QED
    BY <1>1, <2>1, SeparateKept
<1> HIDE DEF x
<1> QED
  BY <1>1, <1>2, <1>7, <1>10, <1>11 DEF Layout, q2

(* kfree() tells objects from blocks. *)
LEMMA KindTold ==
  ASSUME NEW kind, NEW q, NEW x, Headers(mem, kind)
  PROVE  /\ IsPiece(kind, q, x) => ~IsBlock(x[1])
         /\ IsRun(mem, pages, kind, x) => IsBlock(x[1])
<1>1. ASSUME IsPiece(kind, q, x) PROVE ~IsBlock(x[1])
  <2>1. PICK c \in Slabs, a \in Nat : x[1] = a + 3 /\ IsObj(kind, c, a)
    BY <1>1, PieceIs
  <2>2. PICK z : mem[a + 2] = <<"next", z>>
    BY <2>1 DEF Headers
  <2>3. x[1] - 1 = a + 2
    BY <2>1
  <2>4. ASSUME NEW k \in 0..MaxOrder, mem[x[1] - 1] = <<"KMALLOC_PAGE_MAGIC", k>> PROVE FALSE
    <3>1. <<"next", z>>[1] = <<"KMALLOC_PAGE_MAGIC", k>>[1]
      BY <2>2, <2>3, <2>4
    <3> QED
      BY <3>1
  <2> QED
    BY <2>4 DEF IsBlock
<1>2. ASSUME IsRun(mem, pages, kind, x) PROVE IsBlock(x[1])
  <2>1. PICK p \in PageSet, k \in 0..MaxOrder :
          BlockAt(x, p, k) /\ mem[p * PageSize + 1] = <<"KMALLOC_PAGE_MAGIC", k>>
    BY <1>2 DEF IsRun
  <2>2. p \in Nat
    BY SizesAre
  <2>3. p * PageSize \in Nat
    BY <2>2, PagesApart
  <2>4. x[1] - 1 = p * PageSize + 1
    BY <2>1, <2>3 DEF BlockAt, PAGE_HEADER
  <2> QED
    BY <2>1, <2>4 DEF IsBlock
<1> QED
  BY <1>1, <1>2

(* What kfree() does with a block. *)
LEMMA FreeBlockIs ==
  ASSUME NEW kind, NEW q,
         Layout(mem, pages, free_list, free_objects, live, kind, q),
         NEW x \in live, FreeBlock(x)
  PROVE  \E p \in PageSet, k \in 0..MaxOrder :
           /\ BlockAt(x, p, k) /\ Run(p, k) \subseteq PageSet
           /\ \A t \in Run(p, k) : kind[t] = 0
           /\ pages' = pages \union Run(p, k) /\ live' = live \ {x}
           /\ total_freed' = (total_freed + PageSize * 2^k) % Width
<1>1. IsRun(mem, pages, kind, x)
  <2>1. IsBlock(x[1]) /\ (IsPiece(kind, q, x) \/ IsRun(mem, pages, kind, x))
    BY DEF FreeBlock, Layout, Pieces
  <2> QED
    BY <2>1, KindTold DEF Layout
<1>2. PICK p \in PageSet, k \in 0..MaxOrder :
        /\ BlockAt(x, p, k) /\ x[1] = p * PageSize + 2
        /\ Run(p, k) \subseteq PageSet
        /\ \A t \in Run(p, k) : kind[t] = 0
        /\ mem[p * PageSize + 1] = <<"KMALLOC_PAGE_MAGIC", k>>
  BY <1>1, RunPieceIs
<1>3. p \in Nat /\ PageSize \in Nat \ {0}
  BY SizesAre
<1> DEFINE a == p * PageSize
<1>4. a \in Nat
  BY <1>3, PagesApart
<1>5. x[1] - 1 = a + 1 /\ x[1] - PAGE_HEADER = a
  <2>1. x[1] = a + 2
    BY <1>2
  <2> HIDE DEF a
  <2> QED
    BY <1>4, <2>1 DEF PAGE_HEADER
<1>6. a \div PageSize = p
  <2>1. a <= a /\ a < a + PageSize
    <3> HIDE DEF a
    <3> QED
      BY <1>3, <1>4
  <2> QED
    BY <1>3, <1>4, <2>1, PagesApart
<1>7. mem[x[1] - 1][2] = k
  BY <1>2, <1>5
<1>8. (x[1] - PAGE_HEADER) \div PageSize = p
  BY <1>5, <1>6
<1>9. /\ pages' = pages \union p..(p + 2^k - 1)
      /\ total_freed' = (total_freed + PageSize * 2^k) % Width
      /\ live' = live \ {x}
  BY <1>7, <1>8 DEF FreeBlock
<1> QED
  BY <1>2, <1>9 DEF Run

(* A block goes back to the page allocator, away from every other. *)
LEMMA FreeBlockKeeps ==
  ASSUME NEW kind, NEW q, Types,
         Layout(mem, pages, free_list, free_objects, live, kind, q),
         NEW x \in live, FreeBlock(x)
  PROVE  Layout(mem', pages', free_list', free_objects', live', kind, q) /\ Types'
<1>1. /\ Cut(pages, kind) /\ Headers(mem, kind)
      /\ Lists(mem, free_list, free_objects, kind, q)
      /\ Pieces(mem, pages, live, kind, q) /\ Separate(live)
  BY DEF Layout
<1>2. PICK p \in PageSet, k \in 0..MaxOrder :
        /\ BlockAt(x, p, k) /\ Run(p, k) \subseteq PageSet
        /\ \A t \in Run(p, k) : kind[t] = 0
        /\ pages' = pages \union Run(p, k) /\ live' = live \ {x}
        /\ total_freed' = (total_freed + PageSize * 2^k) % Width
  BY FreeBlockIs
<1>3. /\ mem' = mem /\ free_list' = free_list /\ free_objects' = free_objects
      /\ total_objects' = total_objects /\ total_allocated' = total_allocated
  BY DEF FreeBlock, slab
<1>4. Cut(pages', kind)
  BY <1>1, <1>2 DEF Cut
<1>5. ASSUME NEW y \in live', IsRun(mem, pages, kind, y)
      PROVE  IsRun(mem, pages', kind, y)
  <2>1. y \in live /\ y # x
    BY <1>2
  <2>2. Apart(x, y)
    BY <1>1, <2>1 DEF Separate
  <2>3. ASSUME NEW s \in PageSet, NEW l \in 0..MaxOrder, BlockAt(y, s, l),
               Run(s, l) \subseteq PageSet \ pages
        PROVE  Run(s, l) \subseteq PageSet \ pages'
    <3>1. Run(p, k) \intersect Run(s, l) = {}
      BY <1>2, <2>2, <2>3 DEF Apart
    <3> QED
      BY <1>2, <2>3, <3>1
  <2> QED
    BY <1>5, <2>3, RunKept
<1>6. Pieces(mem, pages', live', kind, q)
  <2>1. live' \subseteq live
    BY <1>2
  <2> QED
    BY <1>1, <1>5, <2>1 DEF Pieces
<1>7. Separate(live')
  BY <1>1, <1>2, SeparateKept
<1>8. Layout(mem', pages', free_list', free_objects', live', kind, q)
  BY <1>1, <1>3, <1>4, <1>6, <1>7 DEF Layout
<1>9. total_freed' \in 0..(Width - 1)
  <2> DEFINE e == PageSize * 2^k
  <2>1. e \in Nat /\ Width \in Nat \ {0}
    <3>1. e \in Nat
      BY <1>2, RunProperties
    <3>2. NumPages * PageSize \in Nat /\ Width > NumPages * PageSize /\ Width \in Nat
      BY KmallocAssumption, SizesAre, Products
    <3> HIDE DEF e
    <3> QED
      BY <3>1, <3>2
  <2>2. total_freed \in 0..(Width - 1) /\ total_freed' = (total_freed + e) % Width
    BY <1>2 DEF Types
  <2> HIDE DEF e
  <2> QED
    BY <2>1, <2>2
<1>10. Types'
  <2>1. pages' \subseteq PageSet
    BY <1>2 DEF Types
  <2> QED
    BY <1>3, <1>9, <2>1 DEF Types
<1> QED
  BY <1>8, <1>10

\* The statistics are kept modulo Width.
WidthIs == Width \in Nat \ {0}

(* A counter that grows stays below Width. *)
LEMMA Wrapped ==
  ASSUME NEW t \in Nat, NEW e \in Nat
  PROVE  WidthIs /\ (t + e) % Width \in 0..(Width - 1)
<1>1. NumPages * PageSize \in Nat /\ Width > NumPages * PageSize /\ Width \in Nat
  BY KmallocAssumption, SizesAre, Products
<1>2. Width \in Nat \ {0}
  <2> DEFINE z == NumPages * PageSize
  <2>1. z \in Nat /\ Width > z /\ Width \in Nat
    BY <1>1
  <2> HIDE DEF z
  <2> QED
    BY <2>1
<1> QED
  BY <1>2 DEF WidthIs

(* A block of free pages becomes a piece: its header is written to pages   *)
(* where no object and no other block is.                                  *)
LEMMA TakePagesKeeps ==
  ASSUME NEW kind, NEW q, Types,
         Layout(mem, pages, free_list, free_objects, live, kind, q),
         NEW n \in Requests, TakePages(n)
  PROVE  Layout(mem', pages', free_list', free_objects', live', kind, q) /\ Types'
<1> DEFINE k == OrderFor(n)
<1>1. /\ Cut(pages, kind) /\ Headers(mem, kind)
      /\ Lists(mem, free_list, free_objects, kind, q)
      /\ Pieces(mem, pages, live, kind, q) /\ Separate(live)
  BY DEF Layout
<1>2. k \in 0..MaxOrder /\ n <= PageSize * 2^k - PAGE_HEADER
  <2>1. OrderFor(n) <= MaxOrder
    BY DEF TakePages
  <2> QED
    BY <2>1, OrderForIs
<1>3. PICK p \in pages :
        /\ p..(p + 2^k - 1) \subseteq pages
        /\ pages' = pages \ p..(p + 2^k - 1)
        /\ mem' = [mem EXCEPT ![p * PageSize] = <<"size", n>>,
                              ![p * PageSize + 1] = <<"KMALLOC_PAGE_MAGIC", k>>]
        /\ total_allocated' = (total_allocated + PageSize * 2^k) % Width
        /\ live' = live \union {<<p * PageSize + PAGE_HEADER, PageSize * 2^k - PAGE_HEADER, n>>}
  BY DEF TakePages
<1>4. /\ free_list' = free_list /\ free_objects' = free_objects
      /\ total_objects' = total_objects /\ total_freed' = total_freed
  BY DEF TakePages, slab
<1> HIDE DEF k
<1> DEFINE a == p * PageSize
           e == PageSize * 2^k
           x == <<a + PAGE_HEADER, e - PAGE_HEADER, n>>
           R == Run(p, k)
<1>5. R \subseteq pages /\ pages' = pages \ R /\ live' = live \union {x}
  BY <1>3 DEF Run
<1>6. p \in PageSet /\ R \subseteq PageSet
  BY <1>5 DEF Types
<1>7. \A t \in R : kind[t] = 0
  BY <1>1, <1>5 DEF Cut
<1>8. /\ a \in Nat /\ e \in Nat /\ e >= PageSize /\ PageSize \in Nat /\ PageSize >= 4
      /\ p \in R
      /\ \A w \in Nat : a <= w /\ w < a + e => w \in Words
  BY <1>2, <1>6, RunProperties, SizesAre
<1>9. x[1] = a + PAGE_HEADER /\ x[2] = e - PAGE_HEADER /\ x = <<x[1], x[2], n>>
  OBVIOUS
<1>10. BlockAt(x, p, k)
  BY <1>9 DEF BlockAt
<1>11. a \in Words /\ a + 1 \in Words /\ a # a + 1
  <2> HIDE DEF a, e
  <2> QED
    BY <1>8
<1>12. /\ mem'[a + 1] = <<"KMALLOC_PAGE_MAGIC", k>>
       /\ \A w \in Words : w # a /\ w # a + 1 => mem'[w] = mem[w]
       /\ mem' = [w \in Words |-> mem'[w]]
  <2>1. mem = [w \in Words |-> mem[w]]
    BY DEF Types
  <2>2. mem' = [mem EXCEPT ![a] = <<"size", n>>, ![a + 1] = <<"KMALLOC_PAGE_MAGIC", k>>]
    BY <1>3
  <2> HIDE DEF a
  <2> QED
    BY <1>11, <2>1, <2>2
<1>13. ASSUME NEW c \in Slabs, NEW b, IsObj(kind, c, b)
       PROVE  mem'[b] = mem[b] /\ mem'[b + 1] = mem[b + 1] /\ mem'[b + 2] = mem[b + 2]
  <2>1. /\ b \in Nat /\ e >= 4 /\ Stride(c) \in Nat /\ Stride(c) >= 4
        /\ (b + Stride(c) <= a \/ a + e <= b)
    BY <1>2, <1>6, <1>7, <1>13, HeaderApart
  <2>2. b \in Words /\ b + 1 \in Words /\ b + 2 \in Words
    BY <1>13, ObjectIs
  <2>3. \A w \in {b, b + 1, b + 2} : w # a /\ w # a + 1
    <3> HIDE DEF a, e
    <3> QED
      BY <1>8, <2>1
  <2> HIDE DEF a
  <2> QED
    BY <1>12, <2>2, <2>3
<1>14. Headers(mem', kind) /\ Lists(mem', free_list, free_objects, kind, q)
  BY <1>1, <1>13, HeadersKept
<1>15. ASSUME NEW y \in live, IsRun(mem, pages, kind, y)
       PROVE  IsRun(mem', pages', kind, y) /\ Apart(x, y)
  <2>1. ASSUME NEW s \in PageSet, NEW l \in 0..MaxOrder, BlockAt(y, s, l),
               Run(s, l) \subseteq PageSet \ pages
        PROVE  /\ mem'[s * PageSize + 1] = mem[s * PageSize + 1]
               /\ Run(s, l) \subseteq PageSet \ pages'
               /\ s * PageSize # a
    <3> DEFINE b == s * PageSize
    <3>1. Run(s, l) \subseteq PageSet
      BY <2>1
    <3>2. s \in Run(s, l) /\ s \notin R
      BY <1>5, <2>1, <3>1, RunProperties
    <3>3. p # s
      BY <1>8, <3>2
    <3>4. p \in Nat /\ s \in Nat
      BY <1>6, SizesAre
    <3>5. b \in Nat /\ (b + PageSize <= a \/ a + PageSize <= b)
      BY <3>3, <3>4, PagesApart
    <3>6. \A w \in Nat : b <= w /\ w < b + PageSize => w \in Words
      BY <3>4, PagesApart
    <3>7. b + 1 \in Words /\ b + 1 # a /\ b + 1 # a + 1 /\ b # a
      <4> HIDE DEF a, b
      <4> QED
        BY <1>8, <3>5, <3>6
    <3>8. mem'[b + 1] = mem[b + 1]
      <4> HIDE DEF a, b
      <4> QED
        BY <1>12, <3>7
    <3> QED
      BY <1>5, <2>1, <3>7, <3>8
  <2>2. IsRun(mem', pages', kind, y)
    BY <1>15, <2>1, RunKept
  <2>3. PICK s \in PageSet, l \in 0..MaxOrder :
          BlockAt(y, s, l) /\ Run(s, l) \subseteq PageSet \ pages
    BY <1>15 DEF IsRun
  <2>4. x[1] # y[1]
    <3> DEFINE b == s * PageSize
    <3>1. y[1] = b + 2 /\ x[1] = a + 2 /\ b # a /\ b \in Nat
      <4>1. s \in Nat
        BY SizesAre
      <4> QED
        BY <1>9, <2>1, <2>3, <4>1, PagesApart DEF BlockAt, PAGE_HEADER
    <3> HIDE DEF a, b, x
    <3> QED
      BY <1>8, <3>1
  <2>5. ASSUME NEW p1 \in PageSet, NEW s1 \in PageSet, NEW k1 \in 0..MaxOrder,
               NEW l1 \in 0..MaxOrder, BlockAt(x, p1, k1), BlockAt(y, s1, l1)
        PROVE  Run(p1, k1) \intersect Run(s1, l1) = {}
    <3>1. Run(p1, k1) = R
      <4> HIDE DEF x
      <4> QED
        BY <1>2, <1>6, <1>10, <2>5, BlockOnce
    <3>2. Run(s1, l1) = Run(s, l)
      <4>1. Run(s, l) \subseteq PageSet
        BY <2>3
      <4> QED
        BY <2>3, <2>5, <4>1, BlockOnce
    <3> QED
      BY <1>5, <2>3, <3>1, <3>2
  <2>6. Apart(x, y)
    <3> HIDE DEF x
    <3> QED
      BY <2>4, <2>5 DEF Apart
  <2> QED
    BY <2>2, <2>6
<1>16. ASSUME NEW y \in live, IsPiece(kind, q, y) PROVE Apart(x, y)
  <2>1. PICK c \in Slabs, b \in Nat : y[1] = b + OBJ_HEADER /\ IsObj(kind, c, b)
    BY <1>16 DEF IsPiece
  <2>2. Apart(y, x)
    <3> HIDE DEF x
    <3> QED
      BY <1>2, <1>6, <1>10, <2>1, ObjectApart
  <2>3. \A s \in PageSet, l \in 0..MaxOrder : ~BlockAt(y, s, l)
    BY <2>1, ObjectNoBlock DEF BlockAt
  <2> HIDE DEF x
  <2> QED
    BY <2>2, <2>3 DEF Apart
<1>17. IsRun(mem', pages', kind, x)
  <2>1. n <= e - PAGE_HEADER /\ R \subseteq PageSet \ pages'
    BY <1>2, <1>5, <1>6
  <2>2. n <= x[2]
    BY <1>9, <2>1
  <2> HIDE DEF x
  <2> QED
    BY <1>2, <1>6, <1>7, <1>9, <1>10, <1>12, <2>1, <2>2 DEF IsRun
<1>18. Pieces(mem', pages', live', kind, q) /\ Separate(live')
  <2>1. \A y \in live : Apart(x, y)
    BY <1>1, <1>15, <1>16 DEF Pieces
  <2> HIDE DEF x
  <2>2. Separate(live')
    BY <1>1, <1>5, <2>1, SeparateKept
  <2>3. Pieces(mem', pages', live', kind, q)
    BY <1>1, <1>5, <1>15, <1>17 DEF Pieces
  <2> QED
    BY <2>2, <2>3
<1>19. Cut(pages', kind)
  BY <1>1, <1>5 DEF Cut
<1>20. Types'
  <2>1. total_allocated' \in 0..(Width - 1)
    <3>1. total_allocated \in Nat
      <4>1. WidthIs
        BY <1>8, Wrapped
      <4> QED
        BY <4>1 DEF Types, WidthIs
    <3> HIDE DEF a, x, R
    <3>2. e \in Nat /\ total_allocated' = (total_allocated + e) % Width
      BY <1>3, <1>8
    <3> HIDE DEF e
    <3> QED
      BY <3>1, <3>2, Wrapped
  <2>2. pages' \subseteq PageSet
    BY <1>5 DEF Types
  <2> QED
    BY <1>4, <1>12, <2>1, <2>2 DEF Types
<1>21. Layout(mem', pages', free_list', free_objects', live', kind, q)
  BY <1>1, <1>4, <1>14, <1>18, <1>19 DEF Layout
<1> QED
  BY <1>20, <1>21

(* A list with an object put first. *)
LEMMA PushIsList ==
  ASSUME NEW M, NEW K, NEW kind, NEW c \in Slabs, NEW h, NEW n \in Nat, NEW s,
         NEW a \in Nat, NEW t, NEW l,
         OneList(M, kind, c, h, n, s), IsObj(kind, c, a),
         K[a + 2] = <<"next", h>>,
         \A i \in 1..Len(s) : s[i] # a /\ K[s[i] + 2] = M[s[i] + 2],
         t = <<a>> \o s, l = n + 1
  PROVE  OneList(K, kind, c, a, l, t)
<1> DEFINE m == Len(s)
<1>1. /\ s \in Seq(Nat) /\ n = m
      /\ h = IF s = <<>> THEN 0 ELSE s[1]
      /\ \A i \in 1..m :
           /\ IsObj(kind, c, s[i])
           /\ M[s[i] + 2] = <<"next", IF i = m THEN 0 ELSE s[i + 1]>>
      /\ \A i, j \in 1..m : s[i] = s[j] => i = j
  BY DEF OneList, IsList
<1>2. m \in Nat /\ (s = <<>> <=> m = 0)
  BY <1>1
<1>3. /\ t \in Seq(Nat) /\ t # <<>> /\ Len(t) = m + 1 /\ t[1] = a
      /\ \A i \in 1..m : t[i + 1] = s[i]
  BY <1>1, <1>2
<1>4. \A i \in 1..m : K[s[i] + 2] = M[s[i] + 2] /\ s[i] # a
  OBVIOUS
<1> HIDE DEF m
<1>5. \A i \in 1..(m + 1) : i = 1 \/ (i - 1 \in 1..m /\ i - 1 + 1 = i)
  BY <1>2
<1>6. ASSUME NEW i \in 1..(m + 1)
      PROVE  /\ IsObj(kind, c, t[i])
             /\ K[t[i] + 2] = <<"next", IF i = m + 1 THEN 0 ELSE t[i + 1]>>
  <2>1. CASE i = 1
    <3>1. h = IF 1 = m + 1 THEN 0 ELSE t[1 + 1]
      <4>1. CASE m = 0
        BY <1>1, <1>2, <4>1
      <4>2. CASE m # 0
        <5>1. 1 \in 1..m /\ 1 # m + 1
          BY <1>2, <4>2
        <5> QED
          BY <1>1, <1>2, <1>3, <4>2, <5>1
      <4> QED
        BY <4>1, <4>2
    <3> QED
      BY <1>3, <2>1, <3>1
  <2>2. CASE i # 1
    <3> DEFINE j == i - 1
    <3>1. j \in 1..m /\ j + 1 = i
      BY <1>5, <2>2
    <3> HIDE DEF j
    <3>2. t[i] = s[j] /\ IsObj(kind, c, s[j])
      BY <1>1, <1>3, <3>1
    <3>3. K[t[i] + 2] = <<"next", IF j = m THEN 0 ELSE s[j + 1]>>
      BY <1>1, <1>4, <3>1, <3>2
    <3>4. j = m <=> i = m + 1
      BY <1>2, <3>1
    <3>5. j # m => j + 1 \in 1..m /\ t[i + 1] = s[j + 1]
      <4>1. j # m => j + 1 \in 1..m
        BY <1>2, <3>1
      <4> QED
        BY <1>3, <3>1, <4>1
    <3> QED
      BY <3>2, <3>3, <3>4, <3>5
  <2> QED
    BY <2>1, <2>2
<1>7. ASSUME NEW i \in 1..(m + 1), NEW j \in 1..(m + 1), t[i] = t[j]
      PROVE  i = j
  <2>1. \A k \in 1..(m + 1) : k # 1 => t[k] = s[k - 1] /\ t[k] # a /\ k - 1 \in 1..m
    BY <1>3, <1>4, <1>5
  <2>2. CASE i = 1 \/ j = 1
    BY <1>3, <1>7, <2>1, <2>2
  <2>3. CASE i # 1 /\ j # 1
    <3>1. i - 1 \in 1..m /\ j - 1 \in 1..m /\ s[i - 1] = s[j - 1]
      BY <1>7, <2>1, <2>3
    <3>2. i - 1 = j - 1
      BY <1>1, <3>1
    <3> QED
      BY <1>2, <3>2
  <2> QED
    BY <2>2, <2>3
<1>8. Len(t) = m + 1 /\ a = IF t = <<>> THEN 0 ELSE t[1]
  BY <1>3
<1>9. IsList(K, kind, c, a, t)
  BY <1>6, <1>7, <1>8 DEF IsList
<1>10. OneList(K, kind, c, a, l, t)
  BY <1>1, <1>3, <1>9 DEF OneList
<1> QED
  BY <1>10

(* What kfree() does with an object: its header names its slab. *)
LEMMA FreeObjectIs ==
  ASSUME NEW kind, NEW q,
         Layout(mem, pages, free_list, free_objects, live, kind, q),
         NEW x \in live, FreeObject(x)
  PROVE  \E c \in Slabs : \E a \in Nat :
           /\ x[1] = a + OBJ_HEADER /\ IsObj(kind, c, a)
           /\ \A i \in 1..Len(q[c]) : q[c][i] # a
           /\ mem' = [mem EXCEPT ![a + 2] = <<"next", free_list[c]>>]
           /\ free_list' = [free_list EXCEPT ![c] = a]
           /\ free_objects' = [free_objects EXCEPT ![c] = free_objects[c] + 1]
           /\ total_freed' = (total_freed + SlabSizes[c]) % Width
           /\ live' = live \ {x}
<1>1. Headers(mem, kind)
  BY DEF Layout
<1>2. IsPiece(kind, q, x)
  <2>1. ~IsBlock(x[1]) /\ (IsPiece(kind, q, x) \/ IsRun(mem, pages, kind, x))
    BY DEF FreeObject, Layout, Pieces
  <2> QED
    BY <1>1, <2>1, KindTold
<1>3. PICK c \in Slabs, a \in Nat :
        /\ x[1] = a + 3 /\ IsObj(kind, c, a)
        /\ \A i \in 1..Len(q[c]) : q[c][i] # a
  BY <1>2, PieceIs
<1>4. x[1] - OBJ_HEADER = a
  BY <1>3 DEF OBJ_HEADER
<1>5. mem[a][2] = SlabSizes[c]
  <2>1. mem[a] = <<"size", SlabSizes[c]>>
    BY <1>1, <1>3 DEF Headers
  <2> QED
    BY <2>1
<1>6. FindSlab(mem[a][2]) = c
  BY <1>5, FindSlabIs, SizesAre
<1>7. /\ mem' = [mem EXCEPT ![a + 2] = <<"next", free_list[c]>>]
      /\ free_list' = [free_list EXCEPT ![c] = a]
      /\ free_objects' = [free_objects EXCEPT ![c] = free_objects[c] + 1]
      /\ total_freed' = (total_freed + SlabSizes[c]) % Width
      /\ live' = live \ {x}
  BY <1>4, <1>5, <1>6 DEF FreeObject
<1> QED
  BY <1>3, <1>7 DEF OBJ_HEADER

(* An object goes back to the list of its slab. *)
LEMMA FreeObjectKeeps ==
  ASSUME NEW kind, NEW q \in [Slabs -> Seq(Nat)], Types,
         Layout(mem, pages, free_list, free_objects, live, kind, q),
         NEW x \in live, FreeObject(x)
  PROVE  /\ \E q2 \in [Slabs -> Seq(Nat)] :
              Layout(mem', pages', free_list', free_objects', live', kind, q2)
         /\ Types'
<1>1. /\ Cut(pages, kind) /\ Headers(mem, kind)
      /\ Lists(mem, free_list, free_objects, kind, q)
      /\ Pieces(mem, pages, live, kind, q) /\ Separate(live)
  BY DEF Layout
<1>2. PICK c \in Slabs, a \in Nat :
        /\ x[1] = a + OBJ_HEADER /\ IsObj(kind, c, a)
        /\ \A i \in 1..Len(q[c]) : q[c][i] # a
        /\ mem' = [mem EXCEPT ![a + 2] = <<"next", free_list[c]>>]
        /\ free_list' = [free_list EXCEPT ![c] = a]
        /\ free_objects' = [free_objects EXCEPT ![c] = free_objects[c] + 1]
        /\ total_freed' = (total_freed + SlabSizes[c]) % Width
        /\ live' = live \ {x}
  BY FreeObjectIs
<1>3. pages' = pages /\ total_objects' = total_objects /\ total_allocated' = total_allocated
  BY DEF FreeObject
<1>4. /\ free_list \in [Slabs -> {0} \union Words] /\ free_objects \in [Slabs -> Nat]
      /\ mem = [w \in Words |-> mem[w]] /\ total_freed \in 0..(Width - 1)
  BY DEF Types
<1>5. /\ a \in Words /\ a + 1 \in Words /\ a + 2 \in Words
      /\ Stride(c) \in Nat /\ Stride(c) >= 4
  <2>1. SlabSizes[c] \in Nat \ {0} /\ Stride(c) = SlabSizes[c] + 3
    BY SizesAre
  <2>2. Stride(c) \in Nat /\ Stride(c) >= 4
    BY <2>1
  <2>3. a \in Words /\ a + 1 \in Words /\ a + 2 \in Words
    BY <1>2, ObjectIs
  <2> QED
    BY <2>2, <2>3
<1>6. /\ mem' = [w \in Words |-> mem'[w]] /\ mem'[a + 2] = <<"next", free_list[c]>>
      /\ \A w \in Words : w # a + 2 => mem'[w] = mem[w]
  <2> DEFINE w2 == a + 2
  <2>1. w2 \in Words /\ mem' = [mem EXCEPT ![w2] = <<"next", free_list[c]>>]
    BY <1>2, <1>5
  <2> HIDE DEF w2
  <2>2. /\ mem' = [w \in Words |-> mem'[w]] /\ mem'[w2] = <<"next", free_list[c]>>
        /\ \A w \in Words : w # w2 => mem'[w] = mem[w]
    BY <1>4, <2>1
  <2> QED
    BY <2>2 DEF w2
<1>7. ASSUME NEW d \in Slabs, NEW b, IsObj(kind, d, b), b # a
      PROVE  /\ mem'[b] = mem[b] /\ mem'[b + 1] = mem[b + 1] /\ mem'[b + 2] = mem[b + 2]
  <2>1. a + Stride(c) <= b \/ b + Stride(d) <= a
    BY <1>2, <1>7, ObjectsApart
  <2>2. /\ b \in Nat /\ b \in Words /\ b + 1 \in Words /\ b + 2 \in Words
        /\ Stride(d) \in Nat /\ Stride(d) >= 4
    <3>1. SlabSizes[d] \in Nat \ {0} /\ Stride(d) = SlabSizes[d] + 3
      BY SizesAre
    <3>2. Stride(d) \in Nat /\ Stride(d) >= 4
      BY <3>1
    <3>3. b \in Nat /\ b \in Words /\ b + 1 \in Words /\ b + 2 \in Words
      BY <1>7, ObjectIs
    <3> QED
      BY <3>2, <3>3
  <2>3. b # a + 2 /\ b + 1 # a + 2 /\ b + 2 # a + 2
    BY <1>5, <2>1, <2>2
  <2> QED
    BY <1>6, <2>2, <2>3
<1>8. mem'[a] = mem[a] /\ mem'[a + 1] = mem[a + 1]
  <2>1. a # a + 2 /\ a + 1 # a + 2
    OBVIOUS
  <2> QED
    BY <1>5, <1>6, <2>1
<1>9. Headers(mem', kind)
  <2> SUFFICES ASSUME NEW d \in Slabs, NEW b, IsObj(kind, d, b)
               PROVE  /\ mem'[b] = <<"size", SlabSizes[d]>>
                      /\ mem'[b + 1] = <<"KMALLOC_MAGIC">>
                      /\ \E y \in {0} \union Words : mem'[b + 2] = <<"next", y>>
    BY DEF Headers
  <2>1. /\ mem[b] = <<"size", SlabSizes[d]>> /\ mem[b + 1] = <<"KMALLOC_MAGIC">>
        /\ \E y \in {0} \union Words : mem[b + 2] = <<"next", y>>
    BY <1>1 DEF Headers
  <2>2. CASE b = a
    <3>1. free_list[c] \in {0} \union Words
      BY <1>4
    <3> QED
      BY <1>6, <1>8, <2>1, <2>2, <3>1
  <2>3. CASE b # a
    BY <1>7, <2>1, <2>3
  <2> QED
    BY <2>2, <2>3
<1> DEFINE q2 == [q EXCEPT ![c] = <<a>> \o q[c]]
<1>10. /\ q2 \in [Slabs -> Seq(Nat)] /\ q2[c] = <<a>> \o q[c]
       /\ \A d \in Slabs : d # c => q2[d] = q[d]
  <2>1. <<a>> \o q[c] \in Seq(Nat)
    OBVIOUS
  <2> QED
    BY <2>1
<1> HIDE DEF q2
<1>11. ASSUME NEW d \in Slabs PROVE OneList(mem, kind, d, free_list[d], free_objects[d], q[d])
  BY <1>1 DEF Lists, OneList
<1>12. ASSUME NEW d \in Slabs, NEW i \in 1..Len(q[d])
       PROVE  IsObj(kind, d, q[d][i]) /\ q[d][i] # a
  <2>1. IsObj(kind, d, q[d][i])
    BY <1>11 DEF OneList, IsList
  <2>2. q[d][i] = a => d = c
    BY <1>2, <2>1, ObjectsApart
  <2> QED
    BY <1>2, <2>1, <2>2
<1>13. /\ OneList(mem', kind, c, a, free_objects[c] + 1, q2[c])
       /\ \A i \in 1..Len(q2[c]) : q2[c][i] = a \/ \E j \in 1..Len(q[c]) : q2[c][i] = q[c][j]
  <2> DEFINE s == q[c]
             n == free_objects[c]
             h == free_list[c]
             K == mem'
  <2>1. OneList(mem, kind, c, h, n, s) /\ n \in Nat
    BY <1>4, <1>11
  <2>2. K[a + 2] = <<"next", h>> /\ \A i \in 1..Len(s) : s[i] # a /\ K[s[i] + 2] = mem[s[i] + 2]
    BY <1>6, <1>7, <1>12
  <2>3. q2[c] = <<a>> \o s
    BY <1>10
  <2> DEFINE t == q2[c]
             l == n + 1
  <2> HIDE DEF s, n, h, K, t, l
  <2>4. OneList(K, kind, c, a, l, t)
    <3>1. a \in Nat /\ IsObj(kind, c, a)
      BY <1>2
    <3>2. \A i \in 1..Len(s) : s[i] # a /\ K[s[i] + 2] = mem[s[i] + 2]
      BY <2>2
    <3>3. t = <<a>> \o s /\ l = n + 1
      BY <2>3 DEF t, l
    <3>4. OneList(mem, kind, c, h, n, s) /\ n \in Nat
      BY <2>1
    <3>5. K[a + 2] = <<"next", h>>
      BY <2>2
    <3> QED
      BY <3>1, <3>2, <3>3, <3>4, <3>5, PushIsList
  <2>5. ASSUME NEW i \in 1..Len(t) PROVE t[i] = a \/ \E j \in 1..Len(s) : t[i] = s[j]
    <3>1. s \in Seq(Nat)
      BY DEF s
    <3>2. t = <<a>> \o s /\ <<a>> \in Seq(Nat) /\ Len(<<a>>) = 1 /\ <<a>>[1] = a
      BY <2>3 DEF t
    <3>3. Len(t) = Len(s) + 1 /\ t[1] = a /\ \A j \in 1..Len(s) : t[j + 1] = s[j]
      BY <3>1, <3>2
    <3>4. i = 1 \/ (i - 1 \in 1..Len(s) /\ i - 1 + 1 = i)
      BY <3>1, <3>3
    <3> QED
      BY <3>3, <3>4
  <2> QED
    BY <2>4, <2>5 DEF s, n, h, K, t, l
<1>14. Lists(mem', free_list', free_objects', kind, q2)
  <2> SUFFICES ASSUME NEW d \in Slabs
               PROVE  OneList(mem', kind, d, free_list'[d], free_objects'[d], q2[d])
    BY DEF Lists, OneList
  <2>1. CASE d = c
    <3>1. free_list'[d] = a /\ free_objects'[d] = free_objects[c] + 1
      BY <1>2, <1>4, <2>1
    <3> QED
      BY <1>13, <2>1, <3>1
  <2>2. CASE d # c
    <3>1. free_list'[d] = free_list[d] /\ free_objects'[d] = free_objects[d] /\ q2[d] = q[d]
      BY <1>2, <1>4, <1>10, <2>2
    <3>2. \A i \in 1..Len(q[d]) : mem'[q[d][i] + 2] = mem[q[d][i] + 2]
      BY <1>7, <1>12
    <3>3. OneList(mem, kind, d, free_list[d], free_objects[d], q[d])
      BY <1>11
    <3>4. OneList(mem', kind, d, free_list[d], free_objects[d], q[d])
      BY <3>2, <3>3 DEF OneList, IsList
    <3> QED
      BY <3>1, <3>4
  <2> QED
    BY <2>1, <2>2
<1>15. ASSUME NEW y \in live, y # x, IsPiece(kind, q, y) PROVE IsPiece(kind, q2, y)
  <2>1. PICK d \in Slabs : \E b \in Nat, s \in Requests :
          /\ y = <<b + OBJ_HEADER, SlabSizes[d], s>> /\ s <= SlabSizes[d]
          /\ IsObj(kind, d, b) /\ \A i \in 1..Len(q[d]) : q[d][i] # b
    BY <1>15 DEF IsPiece
  <2>2. PICK b \in Nat, s \in Requests :
          /\ y = <<b + OBJ_HEADER, SlabSizes[d], s>> /\ s <= SlabSizes[d]
          /\ IsObj(kind, d, b) /\ \A i \in 1..Len(q[d]) : q[d][i] # b
    BY <2>1
  <2>3. b # a
    <3>1. y[1] # x[1]
      BY <1>1, <1>15 DEF Separate, Apart
    <3> QED
      BY <1>2, <2>2, <3>1
  <2>4. \A i \in 1..Len(q2[d]) : q2[d][i] # b
    <3>1. CASE d = c
      <4> SUFFICES ASSUME NEW i \in 1..Len(q2[c]) PROVE q2[c][i] # b
        BY <3>1
      <4> QED
        BY <1>13, <2>2, <2>3, <3>1
    <3>2. CASE d # c
      BY <1>10, <2>2, <3>2
    <3> QED
      BY <3>1, <3>2
  <2> QED
    BY <2>2, <2>4 DEF IsPiece
<1>16. ASSUME NEW y \in live, IsRun(mem, pages, kind, y) PROVE IsRun(mem', pages, kind, y)
  <2>1. ASSUME NEW s \in PageSet, NEW l \in 0..MaxOrder,
               Run(s, l) \subseteq PageSet \ pages, \A t \in Run(s, l) : kind[t] = 0
        PROVE  mem'[s * PageSize + 1] = mem[s * PageSize + 1]
    <3> DEFINE b == s * PageSize
               e == PageSize * 2^l
    <3>1. Run(s, l) \subseteq PageSet
      BY <2>1
    <3>2. /\ b \in Nat /\ b + 1 \in Words /\ e \in Nat /\ e >= 4
          /\ a + Stride(c) <= b \/ b + e <= a
      BY <1>2, <2>1, <3>1, HeaderApart
    <3> HIDE DEF b, e
    <3>3. b + 1 # a + 2
      BY <1>5, <3>2
    <3>4. mem'[b + 1] = mem[b + 1]
      BY <1>6, <3>2, <3>3
    <3> QED
      BY <3>4 DEF b
  <2> QED
    BY <1>16, <2>1, RunKept
<1>17. Pieces(mem', pages, live', kind, q2)
  <2> SUFFICES ASSUME NEW y \in live' PROVE IsPiece(kind, q2, y) \/ IsRun(mem', pages, kind, y)
    BY DEF Pieces
  <2>1. y \in live /\ y # x
    BY <1>2
  <2> QED
    BY <1>1, <1>15, <1>16, <2>1 DEF Pieces
<1>18. Separate(live')
  BY <1>1, <1>2, SeparateKept
<1>19. Layout(mem', pages', free_list', free_objects', live', kind, q2)
  BY <1>1, <1>3, <1>9, <1>14, <1>17, <1>18 DEF Layout
<1>20. Types'
  <2>1. total_freed' \in 0..(Width - 1)
    <3>1. WidthIs
      BY <1>5, Wrapped
    <3>2. total_freed \in Nat /\ SlabSizes[c] \in Nat
      BY <1>4, <3>1, SizesAre DEF WidthIs
    <3> QED
      BY <1>2, <3>2, Wrapped
  <2>2. free_list' \in [Slabs -> {0} \union Words]
    BY <1>2, <1>4, <1>5
  <2>3. free_objects' \in [Slabs -> Nat]
    <3>1. free_objects[c] + 1 \in Nat
      BY <1>4
    <3> QED
      BY <1>2, <1>4, <3>1
  <2> QED
    BY <1>3, <1>6, <2>1, <2>2, <2>3 DEF Types
<1> QED
  BY <1>10, <1>19, <1>20

(* What a page looks like that was cut into objects of slab c: each linked *)
(* to the one before it.                                                   *)
LEMMA GrowIs ==
  ASSUME Types, NEW c \in Slabs, NEW r, Grow(c, r)
  PROVE  \E p \in pages :
           /\ free_list[c] = 0 /\ pages' = pages \ {p}
           /\ mem' = [w \in Words |-> mem'[w]]
           /\ \A i \in 0..(PerPage(c) - 1) :
                /\ mem'[Obj(c, p, i)] = <<"size", SlabSizes[c]>>
                /\ mem'[Obj(c, p, i) + 1] = <<"KMALLOC_MAGIC">>
                /\ mem'[Obj(c, p, i) + 2] = <<"next", IF i = 0 THEN 0 ELSE Obj(c, p, i - 1)>>
           /\ \A w \in Words : w < p * PageSize \/ p * PageSize + PageSize <= w =>
                mem'[w] = mem[w]
           /\ total_objects' = [total_objects EXCEPT ![c] = total_objects[c] + PerPage(c)]
           /\ free_list' = [free_list EXCEPT ![c] =
                              IF PerPage(c) = 1 THEN 0 ELSE Obj(c, p, PerPage(c) - 2)]
           /\ free_objects' = [free_objects EXCEPT ![c] = free_objects[c] + PerPage(c) - 1]
           /\ total_allocated' = (total_allocated + SlabSizes[c]) % Width
           /\ total_freed' = total_freed
           /\ live' = live \union {<<Obj(c, p, PerPage(c) - 1) + OBJ_HEADER, SlabSizes[c], r>>}
<1> DEFINE n == PerPage(c)
           I == 0..(n - 1)
           obj(p) == [i \in 0..(n - 1) |-> p * PageSize + i * Stride(c)]
           Body(p, a, i) == CASE a = obj(p)[i]     -> <<"size", SlabSizes[c]>>
                              [] a = obj(p)[i] + 1 -> <<"KMALLOC_MAGIC">>
                              [] OTHER -> <<"next", IF i = 0 THEN 0 ELSE obj(p)[i - 1]>>
<1>1. PICK p \in pages :
        /\ pages' = pages \ {p}
        /\ mem' = [a \in Words |->
              IF \E i \in 0..(n - 1) : a \in obj(p)[i]..(obj(p)[i] + 2)
              THEN Body(p, a, CHOOSE i \in 0..(n - 1) : a \in obj(p)[i]..(obj(p)[i] + 2))
              ELSE mem[a]]
        /\ total_objects' = [total_objects EXCEPT ![c] = @ + n]
        /\ free_list' = [free_list EXCEPT ![c] = IF n = 1 THEN 0 ELSE obj(p)[n - 2]]
        /\ Hand(c, obj(p)[n - 1], free_objects[c] + n, r)
  BY Zenon DEF Grow, PerPage
<1>2. free_list[c] = 0 /\ total_freed' = total_freed
  BY DEF Grow
<1>3. p \in PageSet
  BY DEF Types
<1>4. n \in Nat \ {0} /\ Stride(c) \in Nat /\ Stride(c) >= 4 /\ PageSize \in Nat
  <2>1. SlabSizes[c] \in Nat \ {0} /\ Stride(c) = SlabSizes[c] + 3
    BY SizesAre
  <2>2. Stride(c) \in Nat /\ Stride(c) >= 4
    BY <2>1
  <2> QED
    BY <2>2, SizesAre
<1> DEFINE o == obj(p)
<1>5. \A i \in I : o[i] = Obj(c, p, i)
  BY DEF Obj
<1> HIDE DEF n
<1>6. 0 \in I /\ n - 1 \in I /\ (n # 1 => n - 2 \in I) /\ (\A i \in I : i \in Nat /\ (i # 0 => i - 1 \in I))
  BY <1>4
<1> DEFINE b == p * PageSize
<1>7. \A i \in I : /\ o[i] \in Nat /\ b <= o[i] /\ o[i] + 4 <= b + PageSize
                   /\ o[i] \in Words /\ o[i] + 1 \in Words /\ o[i] + 2 \in Words
                   /\ \A j \in I : i < j => o[i] + 4 <= o[j]
  <2> SUFFICES ASSUME NEW i \in I
               PROVE  /\ o[i] \in Nat /\ b <= o[i] /\ o[i] + 4 <= b + PageSize
                      /\ o[i] \in Words /\ o[i] + 1 \in Words /\ o[i] + 2 \in Words
                      /\ \A j \in I : i < j => o[i] + 4 <= o[j]
    OBVIOUS
  <2>1. b \in Nat /\ \A w \in Nat : b <= w /\ w < b + PageSize => w \in Words
    BY <1>3, PagesApart, SizesAre
  <2>2. /\ o[i] \in Nat /\ b <= o[i] /\ o[i] + Stride(c) <= b + PageSize
        /\ \A j \in I : i < j => o[i] + Stride(c) <= o[j]
    <3>1. I = 0..(PerPage(c) - 1)
      BY DEF n
    <3>2. /\ Obj(c, p, i) \in Nat /\ b <= Obj(c, p, i)
          /\ Obj(c, p, i) + Stride(c) <= b + PageSize
          /\ \A j \in I : i < j => Obj(c, p, i) + Stride(c) <= Obj(c, p, j)
      BY <1>3, <3>1, ObjInPage
    <3> HIDE DEF o, b
    <3> QED
      BY <1>5, <3>2
  <2>3. \A j \in I : o[j] \in Nat
    <3>1. I = 0..(PerPage(c) - 1)
      BY DEF n
    <3> HIDE DEF o
    <3> QED
      BY <1>3, <1>5, <3>1, ObjInPage
  <2> HIDE DEF o, b
  <2>4. o[i] + 4 <= b + PageSize /\ \A j \in I : i < j => o[i] + 4 <= o[j]
    BY <1>4, <2>1, <2>2, <2>3
  <2>5. o[i] \in Words /\ o[i] + 1 \in Words /\ o[i] + 2 \in Words
    BY <1>4, <2>1, <2>2, <2>4
  <2> QED
    BY <2>2, <2>4, <2>5
<1> DEFINE In(a, i) == a \in o[i]..(o[i] + 2)
           B(a, i) == CASE a = o[i]     -> <<"size", SlabSizes[c]>>
                        [] a = o[i] + 1 -> <<"KMALLOC_MAGIC">>
                        [] OTHER -> <<"next", IF i = 0 THEN 0 ELSE o[i - 1]>>
<1>8. mem' = [a \in Words |-> IF \E i \in I : In(a, i) THEN B(a, CHOOSE i \in I : In(a, i))
                              ELSE mem[a]]
  BY <1>1
<1> HIDE DEF o
<1>9. \A a : \A i, j \in I : In(a, i) /\ In(a, j) => i = j
  <2> SUFFICES ASSUME NEW a, NEW i \in I, NEW j \in I, In(a, i), In(a, j), i # j PROVE FALSE
    OBVIOUS
  <2>1. /\ o[i] \in Nat /\ o[j] \in Nat /\ i \in Nat /\ j \in Nat
        /\ i < j => o[i] + 4 <= o[j]
        /\ j < i => o[j] + 4 <= o[i]
    BY <1>6, <1>7
  <2>2. a \in Nat /\ o[i] <= a /\ a <= o[i] + 2 /\ o[j] <= a /\ a <= o[j] + 2
    BY <2>1
  <2> HIDE DEF In, I
  <2> QED
    BY <2>1, <2>2
<1> HIDE DEF B
<1>10. \A a \in Words, i \in I : In(a, i) => mem'[a] = B(a, i)
  <2> SUFFICES ASSUME NEW a \in Words, NEW i \in I, In(a, i) PROVE mem'[a] = B(a, i)
    OBVIOUS
  <2> DEFINE e == CHOOSE j \in I : In(a, j)
  <2>1. e \in I /\ In(a, e)
    <3> HIDE DEF In, I
    <3> QED
      OBVIOUS
  <2>2. e = i
    <3> HIDE DEF In, I, e
    <3> QED
      BY <1>9, <2>1
  <2>3. mem'[a] = B(a, e)
    <3> HIDE DEF In, I
    <3> QED
      BY <1>8
  <2> QED
    BY <2>2, <2>3
<1>11. ASSUME NEW i \in I
       PROVE  /\ mem'[o[i]] = <<"size", SlabSizes[c]>>
              /\ mem'[o[i] + 1] = <<"KMALLOC_MAGIC">>
              /\ mem'[o[i] + 2] = <<"next", IF i = 0 THEN 0 ELSE o[i - 1]>>
  <2>1. /\ o[i] \in Nat /\ o[i] \in Words /\ o[i] + 1 \in Words /\ o[i] + 2 \in Words
    BY <1>7
  <2>2. In(o[i], i) /\ In(o[i] + 1, i) /\ In(o[i] + 2, i)
    BY <2>1
  <2>3. /\ mem'[o[i]] = B(o[i], i) /\ mem'[o[i] + 1] = B(o[i] + 1, i)
        /\ mem'[o[i] + 2] = B(o[i] + 2, i)
    <3> HIDE DEF In, I
    <3> QED
      BY <1>10, <2>1, <2>2
  <2>4. B(o[i], i) = <<"size", SlabSizes[c]>>
    <3>1. o[i] # o[i] + 1
      BY <2>1
    <3> QED
      BY <3>1 DEF B
  <2>5. B(o[i] + 1, i) = <<"KMALLOC_MAGIC">>
    <3>1. o[i] + 1 # o[i]
      BY <2>1
    <3> QED
      BY <3>1 DEF B
  <2>6. B(o[i] + 2, i) = <<"next", IF i = 0 THEN 0 ELSE o[i - 1]>>
    <3>1. o[i] + 2 # o[i] /\ o[i] + 2 # o[i] + 1
      BY <2>1
    <3> QED
      BY <3>1 DEF B
  <2> QED
    BY <2>3, <2>4, <2>5, <2>6
<1>12. ASSUME NEW w \in Words, w < b \/ b + PageSize <= w PROVE mem'[w] = mem[w]
  <2>1. w \in Nat /\ b \in Nat
    <3>1. Words \subseteq Nat
      BY SizesAre DEF Words
    <3> QED
      BY <1>3, <3>1, PagesApart, SizesAre
  <2>2. \A i \in I : ~In(w, i)
    <3> SUFFICES ASSUME NEW i \in I, In(w, i) PROVE FALSE
      OBVIOUS
    <3>1. o[i] \in Nat /\ b <= o[i] /\ o[i] + 4 <= b + PageSize
      BY <1>7
    <3> HIDE DEF b
    <3> QED
      BY <1>4, <1>12, <2>1, <3>1
  <2> HIDE DEF In, I
  <2> QED
    BY <1>8, <2>2
<1>13. mem' = [w \in Words |-> mem'[w]]
  <2> HIDE DEF In, I
  <2> QED
    BY <1>8
<1>14. /\ free_objects' = [free_objects EXCEPT ![c] = free_objects[c] + n - 1]
       /\ total_allocated' = (total_allocated + SlabSizes[c]) % Width
       /\ live' = live \union {<<o[n - 1] + OBJ_HEADER, SlabSizes[c], r>>}
  <2>1. Hand(c, o[n - 1], free_objects[c] + n, r)
    BY <1>1 DEF o
  <2> DEFINE a == o[n - 1]
             m == free_objects[c] + n
  <2>2. Hand(c, a, m, r)
    BY <2>1
  <2> HIDE DEF a, m
  <2>3. /\ free_objects' = [free_objects EXCEPT ![c] = m - 1]
        /\ total_allocated' = (total_allocated + SlabSizes[c]) % Width
        /\ live' = live \union {<<a + OBJ_HEADER, SlabSizes[c], r>>}
    BY <2>2, Zenon DEF Hand
  <2>4. m - 1 = free_objects[c] + n - 1
    <3>1. free_objects[c] \in Nat
      BY DEF Types
    <3> QED
      BY <1>4, <3>1 DEF m
  <2> QED
    BY <2>3, <2>4 DEF a
<1>15. /\ total_objects' = [total_objects EXCEPT ![c] = total_objects[c] + n]
       /\ free_list' = [free_list EXCEPT ![c] = IF n = 1 THEN 0 ELSE o[n - 2]]
  BY <1>1 DEF o
<1>16. ASSUME NEW i \in I
       PROVE  /\ mem'[Obj(c, p, i)] = <<"size", SlabSizes[c]>>
              /\ mem'[Obj(c, p, i) + 1] = <<"KMALLOC_MAGIC">>
              /\ mem'[Obj(c, p, i) + 2] = <<"next", IF i = 0 THEN 0 ELSE Obj(c, p, i - 1)>>
  <2>1. o[i] = Obj(c, p, i) /\ (i # 0 => o[i - 1] = Obj(c, p, i - 1))
    BY <1>5, <1>6
  <2> QED
    BY <1>11, <2>1
<1>17. o[n - 1] = Obj(c, p, n - 1) /\ (n # 1 => o[n - 2] = Obj(c, p, n - 2))
  BY <1>5, <1>6
<1>18. /\ live' = live \union {<<Obj(c, p, n - 1) + OBJ_HEADER, SlabSizes[c], r>>}
       /\ free_list' = [free_list EXCEPT ![c] = IF n = 1 THEN 0 ELSE Obj(c, p, n - 2)]
  BY <1>14, <1>15, <1>17
<1> HIDE DEF I, obj, In
<1> QED
  BY <1>1, <1>2, <1>12, <1>13, <1>14, <1>15, <1>16, <1>18 DEF n, I

(* A new page joins those cut into objects; its last object becomes a      *)
(* piece and the others the list of the slab, which was empty.             *)
LEMMA GrowKeeps ==
  ASSUME NEW kind, NEW q \in [Slabs -> Seq(Nat)], Types,
         Layout(mem, pages, free_list, free_objects, live, kind, q),
         NEW c \in Slabs, NEW r \in Requests, r <= SlabSizes[c], Grow(c, r)
  PROVE  /\ \E kind2 : \E q2 \in [Slabs -> Seq(Nat)] :
              Layout(mem', pages', free_list', free_objects', live', kind2, q2)
         /\ Types'
<1> DEFINE n == PerPage(c)
           I == 0..(n - 1)
<1>1. /\ Cut(pages, kind) /\ Headers(mem, kind)
      /\ Lists(mem, free_list, free_objects, kind, q)
      /\ Pieces(mem, pages, live, kind, q) /\ Separate(live)
  BY DEF Layout
<1>2. PICK p \in pages :
        /\ free_list[c] = 0 /\ pages' = pages \ {p}
        /\ mem' = [w \in Words |-> mem'[w]]
        /\ \A i \in I :
             /\ mem'[Obj(c, p, i)] = <<"size", SlabSizes[c]>>
             /\ mem'[Obj(c, p, i) + 1] = <<"KMALLOC_MAGIC">>
             /\ mem'[Obj(c, p, i) + 2] = <<"next", IF i = 0 THEN 0 ELSE Obj(c, p, i - 1)>>
        /\ \A w \in Words : w < p * PageSize \/ p * PageSize + PageSize <= w =>
             mem'[w] = mem[w]
        /\ total_objects' = [total_objects EXCEPT ![c] = total_objects[c] + n]
        /\ free_list' = [free_list EXCEPT ![c] = IF n = 1 THEN 0 ELSE Obj(c, p, n - 2)]
        /\ free_objects' = [free_objects EXCEPT ![c] = free_objects[c] + n - 1]
        /\ total_allocated' = (total_allocated + SlabSizes[c]) % Width
        /\ total_freed' = total_freed
        /\ live' = live \union {<<Obj(c, p, n - 1) + OBJ_HEADER, SlabSizes[c], r>>}
  BY GrowIs
<1> DEFINE b == p * PageSize
           kind2 == [kind EXCEPT ![p] = c]
           x == <<Obj(c, p, n - 1) + OBJ_HEADER, SlabSizes[c], r>>
<1>3. /\ free_list \in [Slabs -> {0} \union Words] /\ free_objects \in [Slabs -> Nat]
      /\ total_objects \in [Slabs -> Nat] /\ total_allocated \in 0..(Width - 1)
      /\ pages \subseteq PageSet
  BY DEF Types
<1>4. /\ p \in PageSet /\ p \in Nat /\ b \in Nat /\ PageSize \in Nat
      /\ n \in Nat \ {0}
  <2>1. p \in PageSet
    BY <1>3
  <2> QED
    BY <2>1, SizesAre, PagesApart
<1>5. kind[p] = 0 /\ kind \in [PageSet -> {0} \union Slabs] /\ 0 \notin Slabs
  BY <1>1 DEF Cut, Slabs
<1>6. /\ kind2 \in [PageSet -> {0} \union Slabs] /\ kind2[p] = c
      /\ \A s \in PageSet : s # p => kind2[s] = kind[s]
  BY <1>4, <1>5
<1>7. \A i \in I : Obj(c, p, i) \in Nat /\ b <= Obj(c, p, i) /\ Obj(c, p, i) < b + PageSize
  <2> SUFFICES ASSUME NEW i \in I
               PROVE  Obj(c, p, i) \in Nat /\ b <= Obj(c, p, i) /\ Obj(c, p, i) < b + PageSize
    OBVIOUS
  <2> DEFINE o == Obj(c, p, i)
  <2>1. o \in Nat /\ b <= o /\ o + Stride(c) <= b + PageSize
    BY <1>4, ObjInPage
  <2>2. Stride(c) \in Nat \ {0}
    BY SizesAre
  <2> HIDE DEF o, b
  <2>3. o < b + PageSize
    BY <1>4, <2>1, <2>2
  <2> QED
    BY <2>1, <2>3 DEF o
<1> HIDE DEF n, b, kind2
<1>8. 0 \in I /\ n - 1 \in I /\ (n # 1 => n - 2 \in I)
  BY <1>4
<1>9. \A i \in I : IsObj(kind2, c, Obj(c, p, i))
  <2>1. I = 0..(PerPage(c) - 1)
    BY DEF n
  <2> QED
    BY <1>4, <1>6, <2>1 DEF IsObj
<1>10. ASSUME NEW d \in Slabs, NEW a, IsObj(kind, d, a)
       PROVE  IsObj(kind2, d, a)
  <2>1. PICK s \in PageSet, i \in 0..(PerPage(d) - 1) : kind[s] = d /\ a = Obj(d, s, i)
    BY <1>10 DEF IsObj
  <2>2. kind2[s] = d
    BY <1>5, <1>6, <2>1
  <2> QED
    BY <2>1, <2>2 DEF IsObj
<1>11. ASSUME NEW d \in Slabs, NEW a, IsObj(kind2, d, a)
       PROVE  IsObj(kind, d, a) \/ (d = c /\ \E i \in I : a = Obj(c, p, i))
  <2>1. PICK s \in PageSet, i \in 0..(PerPage(d) - 1) : kind2[s] = d /\ a = Obj(d, s, i)
    BY <1>11 DEF IsObj
  <2>2. CASE s = p
    BY <1>6, <2>1, <2>2 DEF n
  <2>3. CASE s # p
    <3>1. kind[s] = d
      BY <1>6, <2>1, <2>3
    <3> QED
      BY <2>1, <3>1 DEF IsObj
  <2> QED
    BY <2>2, <2>3
<1>12. ASSUME NEW d \in Slabs, NEW a, IsObj(kind, d, a)
       PROVE  /\ a < b \/ b + PageSize <= a
              /\ mem'[a] = mem[a] /\ mem'[a + 1] = mem[a + 1] /\ mem'[a + 2] = mem[a + 2]
  <2>1. PICK s \in PageSet : /\ kind[s] = d /\ s * PageSize <= a
                             /\ a + Stride(d) <= s * PageSize + PageSize
    BY <1>12, ObjectIs
  <2> DEFINE y == s * PageSize
  <2>2. s # p /\ s \in Nat
    BY <1>5, <2>1, SizesAre
  <2>3. y \in Nat /\ (y + PageSize <= b \/ b + PageSize <= y)
    BY <1>4, <2>2, PagesApart DEF b
  <2>4. a \in Nat /\ a \in Words /\ a + 1 \in Words /\ a + 2 \in Words
    BY <1>12, ObjectIs
  <2>5. Stride(d) \in Nat /\ Stride(d) >= 4
    <3>1. SlabSizes[d] \in Nat \ {0} /\ Stride(d) = SlabSizes[d] + 3
      BY SizesAre
    <3> QED
      BY <3>1
  <2>6. y <= a /\ a + Stride(d) <= y + PageSize
    BY <2>1
  <2> HIDE DEF y
  <2>7. a + 3 <= b \/ b + PageSize <= a
    BY <1>4, <2>3, <2>4, <2>5, <2>6
  <2>8. \A w \in {a, a + 1, a + 2} : w \in Words /\ (w < b \/ b + PageSize <= w)
    BY <1>4, <2>4, <2>7
  <2>9. \A w \in {a, a + 1, a + 2} : mem'[w] = mem[w]
    BY <1>2, <2>8 DEF b
  <2> QED
    BY <1>4, <2>4, <2>7, <2>9
<1>13. ASSUME NEW d \in Slabs, NEW a, IsObj(kind, d, a), NEW i \in I
       PROVE  a # Obj(c, p, i)
  <2>1. a < b \/ b + PageSize <= a
    BY <1>12, <1>13
  <2>2. a \in Nat
    BY <1>13, ObjectIs
  <2> HIDE DEF I
  <2> QED
    BY <1>4, <1>7, <2>1, <2>2
<1>14. Headers(mem', kind2)
  <2> SUFFICES ASSUME NEW d \in Slabs, NEW a, IsObj(kind2, d, a)
               PROVE  /\ mem'[a] = <<"size", SlabSizes[d]>>
                      /\ mem'[a + 1] = <<"KMALLOC_MAGIC">>
                      /\ \E y \in {0} \union Words : mem'[a + 2] = <<"next", y>>
    BY DEF Headers
  <2>1. CASE IsObj(kind, d, a)
    <3>1. /\ mem[a] = <<"size", SlabSizes[d]>> /\ mem[a + 1] = <<"KMALLOC_MAGIC">>
          /\ \E y \in {0} \union Words : mem[a + 2] = <<"next", y>>
      BY <1>1, <2>1 DEF Headers
    <3>2. mem'[a] = mem[a] /\ mem'[a + 1] = mem[a + 1] /\ mem'[a + 2] = mem[a + 2]
      BY <1>12, <2>1
    <3> QED
      BY <3>1, <3>2
  <2>2. ASSUME NEW i \in I, d = c, a = Obj(c, p, i)
        PROVE  /\ mem'[a] = <<"size", SlabSizes[d]>>
               /\ mem'[a + 1] = <<"KMALLOC_MAGIC">>
               /\ \E y \in {0} \union Words : mem'[a + 2] = <<"next", y>>
    <3>1. i # 0 => Obj(c, p, i - 1) \in Words
      <4> SUFFICES ASSUME i # 0 PROVE Obj(c, p, i - 1) \in Words
        OBVIOUS
      <4>1. i - 1 \in I
        BY <1>4
      <4>2. IsObj(kind2, c, Obj(c, p, i - 1))
        BY <1>9, <4>1
      <4> QED
        BY <4>2, ObjectIs
    <3>2. mem'[a + 2] = <<"next", IF i = 0 THEN 0 ELSE Obj(c, p, i - 1)>>
      BY <1>2, <2>2
    <3>3. \E y \in {0} \union Words : mem'[a + 2] = <<"next", y>>
      BY <3>1, <3>2
    <3> QED
      BY <1>2, <2>2, <3>3
  <2> HIDE DEF I
  <2> QED
    BY <1>11, <2>1, <2>2
<1>15. ASSUME NEW d \in Slabs PROVE OneList(mem, kind, d, free_list[d], free_objects[d], q[d])
  BY <1>1 DEF Lists, OneList
<1>16. Len(q[c]) = 0 /\ free_objects[c] = 0
  <2> DEFINE s == q[c]
  <2>1. s \in Seq(Nat) /\ free_objects[c] = Len(s)
    BY <1>15 DEF OneList
  <2>2. 0 = IF s = <<>> THEN 0 ELSE s[1]
    BY <1>2, <1>15 DEF OneList, IsList
  <2>3. \A i \in 1..Len(s) : IsObj(kind, c, s[i])
    BY <1>15 DEF OneList, IsList
  <2> HIDE DEF s
  <2>4. CASE s = <<>>
    BY <2>1, <2>4 DEF s
  <2>5. CASE s # <<>>
    <3>1. 1 \in 1..Len(s)
      BY <2>1, <2>5
    <3>2. IsObj(kind, c, 0)
      BY <2>2, <2>3, <2>5, <3>1
    <3>3. 0 # 0
      BY <3>2, ObjectIs
    <3> QED
      BY <3>3
  <2> QED
    BY <2>4, <2>5
<1> DEFINE t == [j \in 1..(n - 1) |-> Obj(c, p, n - 1 - j)]
<1>17. /\ \A j \in 1..(n - 1) : /\ n - 1 - j \in I /\ (n - 1 - j = 0 <=> j = n - 1)
                                /\ t[j] = Obj(c, p, n - 1 - j)
       /\ t \in Seq(Nat) /\ Len(t) = n - 1 /\ (t = <<>> <=> n = 1)
  <2>1. \A j \in 1..(n - 1) : n - 1 - j \in I /\ (n - 1 - j = 0 <=> j = n - 1)
    BY <1>4
  <2>2. \A j \in 1..(n - 1) : t[j] = Obj(c, p, n - 1 - j) /\ t[j] \in Nat
    <3> HIDE DEF I
    <3> QED
      BY <1>7, <2>1
  <2>3. t \in [1..(n - 1) -> Nat]
    <3> HIDE DEF I
    <3> QED
      BY <1>7, <2>1
  <2> HIDE DEF t
  <2>4. t \in Seq(Nat) /\ Len(t) = n - 1
    BY <1>4, <2>3
  <2>5. \A u \in Seq(Nat) : u = <<>> <=> Len(u) = 0
    OBVIOUS
  <2>6. t = <<>> <=> n = 1
    BY <1>4, <2>4, <2>5
  <2> QED
    BY <2>1, <2>2, <2>4, <2>6
<1> HIDE DEF t
<1>18. \A i, j \in I : Obj(c, p, i) = Obj(c, p, j) => i = j
  <2> SUFFICES ASSUME NEW i \in I, NEW j \in I, Obj(c, p, i) = Obj(c, p, j) PROVE i = j
    OBVIOUS
  <2>1. I = 0..(PerPage(c) - 1) /\ Stride(c) \in Nat \ {0}
    BY SizesAre DEF n
  <2>2. /\ Obj(c, p, i) \in Nat /\ Obj(c, p, j) \in Nat
        /\ i < j => Obj(c, p, i) + Stride(c) <= Obj(c, p, j)
        /\ j < i => Obj(c, p, j) + Stride(c) <= Obj(c, p, i)
    BY <1>4, <2>1, ObjInPage
  <2>3. i \in Nat /\ j \in Nat
    OBVIOUS
  <2> QED
    BY <2>1, <2>2, <2>3
<1>19. OneList(mem', kind2, c, IF n = 1 THEN 0 ELSE Obj(c, p, n - 2), n - 1, t)
  <2>1. (IF n = 1 THEN 0 ELSE Obj(c, p, n - 2)) = IF t = <<>> THEN 0 ELSE t[1]
    <3>1. n # 1 => 1 \in 1..(n - 1) /\ n - 1 - 1 = n - 2
      BY <1>4
    <3> QED
      BY <1>17, <3>1
  <2>2. ASSUME NEW j \in 1..(n - 1)
        PROVE  /\ IsObj(kind2, c, t[j])
               /\ mem'[t[j] + 2] = <<"next", IF j = n - 1 THEN 0 ELSE t[j + 1]>>
    <3> DEFINE i == n - 1 - j
    <3>1. i \in I /\ t[j] = Obj(c, p, i) /\ (i = 0 <=> j = n - 1)
      BY <1>17
    <3>2. j # n - 1 => t[j + 1] = Obj(c, p, i - 1)
      <4>1. j # n - 1 => j + 1 \in 1..(n - 1) /\ n - 1 - (j + 1) = i - 1
        BY <1>4
      <4> QED
        BY <1>17, <4>1
    <3> HIDE DEF i, I
    <3>3. mem'[t[j] + 2] = <<"next", IF i = 0 THEN 0 ELSE Obj(c, p, i - 1)>>
      BY <1>2, <3>1
    <3>4. mem'[t[j] + 2] = <<"next", IF j = n - 1 THEN 0 ELSE t[j + 1]>>
      BY <3>1, <3>2, <3>3
    <3> QED
      BY <1>9, <3>1, <3>4
  <2>3. ASSUME NEW i \in 1..(n - 1), NEW j \in 1..(n - 1), t[i] = t[j] PROVE i = j
    <3>1. n - 1 - i = n - 1 - j
      <4> HIDE DEF I
      <4> QED
        BY <1>17, <1>18, <2>3
    <3> QED
      BY <1>4, <3>1
  <2>4. Len(t) = n - 1 /\ t \in Seq(Nat)
    BY <1>17
  <2> QED
    BY <2>1, <2>2, <2>3, <2>4 DEF OneList, IsList
<1> DEFINE q2 == [q EXCEPT ![c] = t]
<1>20. /\ q2 \in [Slabs -> Seq(Nat)] /\ q2[c] = t
       /\ \A d \in Slabs : d # c => q2[d] = q[d]
  BY <1>17
<1> HIDE DEF q2
<1>21. Lists(mem', free_list', free_objects', kind2, q2)
  <2> SUFFICES ASSUME NEW d \in Slabs
               PROVE  OneList(mem', kind2, d, free_list'[d], free_objects'[d], q2[d])
    BY DEF Lists, OneList
  <2>1. CASE d = c
    <3>1. /\ free_list'[d] = IF n = 1 THEN 0 ELSE Obj(c, p, n - 2)
          /\ free_objects'[d] = n - 1
      BY <1>2, <1>3, <1>4, <1>16, <2>1
    <3> QED
      BY <1>19, <1>20, <2>1, <3>1
  <2>2. CASE d # c
    <3>1. free_list'[d] = free_list[d] /\ free_objects'[d] = free_objects[d] /\ q2[d] = q[d]
      BY <1>2, <1>3, <1>20, <2>2
    <3>2. OneList(mem, kind, d, free_list[d], free_objects[d], q[d])
      BY <1>15
    <3>3. \A i \in 1..Len(q[d]) : /\ IsObj(kind2, d, q[d][i])
                                  /\ mem'[q[d][i] + 2] = mem[q[d][i] + 2]
      <4>1. \A i \in 1..Len(q[d]) : IsObj(kind, d, q[d][i])
        BY <3>2 DEF OneList, IsList
      <4> QED
        BY <1>10, <1>12, <4>1
    <3>4. OneList(mem', kind2, d, free_list[d], free_objects[d], q[d])
      BY <3>2, <3>3 DEF OneList, IsList
    <3> QED
      BY <3>1, <3>4
  <2> QED
    BY <2>1, <2>2
<1>22. ASSUME NEW y, IsPiece(kind, q, y)
       PROVE  IsPiece(kind2, q2, y) /\ y[1] # x[1]
  <2>1. PICK d \in Slabs : \E a \in Nat, s \in Requests :
          /\ y = <<a + OBJ_HEADER, SlabSizes[d], s>> /\ s <= SlabSizes[d]
          /\ IsObj(kind, d, a) /\ \A i \in 1..Len(q[d]) : q[d][i] # a
    BY <1>22 DEF IsPiece
  <2>2. PICK a \in Nat, s \in Requests :
          /\ y = <<a + OBJ_HEADER, SlabSizes[d], s>> /\ s <= SlabSizes[d]
          /\ IsObj(kind, d, a) /\ \A i \in 1..Len(q[d]) : q[d][i] # a
    BY <2>1
  <2>3. IsObj(kind2, d, a)
    BY <1>10, <2>2
  <2>4. \A i \in I : a # Obj(c, p, i)
    BY <1>13, <2>2
  <2>5. \A i \in 1..Len(q2[d]) : q2[d][i] # a
    <3>1. CASE d = c
      <4> SUFFICES ASSUME NEW i \in 1..(n - 1) PROVE t[i] # a
        BY <1>17, <1>20, <3>1
      <4> HIDE DEF I
      <4> QED
        BY <1>17, <2>4
    <3>2. CASE d # c
      BY <1>20, <2>2, <3>2
    <3> QED
      BY <3>1, <3>2
  <2>6. IsPiece(kind2, q2, y)
    BY <2>2, <2>3, <2>5 DEF IsPiece
  <2>7. y[1] # x[1]
    <3> DEFINE o == Obj(c, p, n - 1)
    <3>1. a # o /\ o \in Nat
      <4> HIDE DEF I
      <4> QED
        BY <1>7, <1>8, <2>4
    <3>2. y[1] = a + 3 /\ x[1] = o + 3
      BY <2>2 DEF OBJ_HEADER
    <3> HIDE DEF o, x
    <3> QED
      BY <3>1, <3>2
  <2> QED
    BY <2>6, <2>7
<1>23. ASSUME NEW y, IsRun(mem, pages, kind, y)
       PROVE  IsRun(mem', pages', kind2, y) /\ \E s \in PageSet, l \in 0..MaxOrder : BlockAt(y, s, l)
  <2>1. ASSUME NEW s \in PageSet, NEW l \in 0..MaxOrder,
               Run(s, l) \subseteq PageSet \ pages, \A u \in Run(s, l) : kind[u] = 0
        PROVE  /\ mem'[s * PageSize + 1] = mem[s * PageSize + 1]
               /\ Run(s, l) \subseteq PageSet \ pages'
               /\ \A u \in Run(s, l) : kind2[u] = 0
    <3> DEFINE a == s * PageSize
    <3>1. Run(s, l) \subseteq PageSet
      BY <2>1
    <3>2. s \in Run(s, l)
      BY <3>1, RunProperties
    <3>3. p \notin Run(s, l) /\ s # p /\ s \in Nat
      BY <2>1, <3>2, SizesAre
    <3>4. a \in Nat /\ (a + PageSize <= b \/ b + PageSize <= a) /\ PageSize >= 4
      BY <1>4, <3>3, PagesApart, SizesAre DEF b
    <3>5. \A w \in Nat : a <= w /\ w < a + PageSize => w \in Words
      BY <3>3, PagesApart
    <3>6. mem'[a + 1] = mem[a + 1]
      <4> HIDE DEF a
      <4>1. a + 1 \in Words /\ (a + 1 < b \/ b + PageSize <= a + 1)
        BY <1>4, <3>4, <3>5
      <4> QED
        BY <1>2, <4>1 DEF b
    <3>7. Run(s, l) \subseteq PageSet \ pages'
      BY <1>2, <2>1
    <3>8. \A u \in Run(s, l) : kind2[u] = 0
      BY <1>6, <2>1, <3>1, <3>3
    <3> QED
      BY <3>6, <3>7, <3>8
  <2>2. IsRun(mem', pages', kind2, y)
    BY <1>23, <2>1, RunKept
  <2>3. \E s \in PageSet, l \in 0..MaxOrder : BlockAt(y, s, l)
    BY <1>23 DEF IsRun
  <2> QED
    BY <2>2, <2>3
<1>24. IsObj(kind2, c, Obj(c, p, n - 1)) /\ Obj(c, p, n - 1) \in Nat
  <2> HIDE DEF I
  <2> QED
    BY <1>7, <1>8, <1>9
<1>25. IsPiece(kind2, q2, x)
  <2> DEFINE o == Obj(c, p, n - 1)
  <2>1. \A i \in 1..Len(q2[c]) : q2[c][i] # o
    <3> SUFFICES ASSUME NEW i \in 1..(n - 1), t[i] = o PROVE FALSE
      BY <1>17, <1>20
    <3>1. n - 1 - i \in I /\ t[i] = Obj(c, p, n - 1 - i)
      BY <1>17
    <3>2. n - 1 - i = n - 1
      <4> HIDE DEF I
      <4> QED
        BY <1>8, <1>18, <3>1
    <3> QED
      BY <1>4, <3>2
  <2>2. o \in Nat /\ IsObj(kind2, c, o) /\ x = <<o + OBJ_HEADER, SlabSizes[c], r>>
    BY <1>24
  <2> HIDE DEF o
  <2> QED
    BY <2>1, <2>2 DEF IsPiece
<1>26. x[1] = Obj(c, p, n - 1) + OBJ_HEADER /\ live' = live \union {x}
  BY <1>2
<1> HIDE DEF x
<1>27. Pieces(mem', pages', live', kind2, q2)
  BY <1>1, <1>22, <1>23, <1>25, <1>26 DEF Pieces
<1>28. ASSUME NEW y \in live PROVE Apart(x, y)
  <2>1. IsPiece(kind, q, y) \/ IsRun(mem, pages, kind, y)
    BY <1>1 DEF Pieces
  <2>2. y[1] # x[1] \/ \E s \in PageSet, l \in 0..MaxOrder : BlockAt(y, s, l)
    BY <1>22, <1>23, <2>1
  <2> QED
    BY <1>24, <1>26, <2>2, ObjectApart
<1>29. Separate(live')
  BY <1>1, <1>26, <1>28, SeparateKept
<1>30. Cut(pages', kind2)
  BY <1>1, <1>2, <1>3, <1>6 DEF Cut
<1>31. Layout(mem', pages', free_list', free_objects', live', kind2, q2)
  BY <1>14, <1>21, <1>27, <1>29, <1>30 DEF Layout
<1>32. Types'
  <2>1. total_allocated' \in 0..(Width - 1)
    <3>1. WidthIs
      BY <1>4, Wrapped
    <3>2. total_allocated \in Nat /\ SlabSizes[c] \in Nat
      BY <1>3, <3>1, SizesAre DEF WidthIs
    <3> QED
      BY <1>2, <3>2, Wrapped
  <2>2. free_list' \in [Slabs -> {0} \union Words]
    <3>1. n # 1 => Obj(c, p, n - 2) \in Words
      <4>1. n # 1 => IsObj(kind2, c, Obj(c, p, n - 2))
        <5> HIDE DEF I
        <5> QED
          BY <1>8, <1>9
      <4> QED
        BY <4>1, ObjectIs
    <3> QED
      BY <1>2, <1>3, <3>1
  <2>3. free_objects' \in [Slabs -> Nat]
    <3>1. free_objects[c] + n - 1 \in Nat
      BY <1>4, <1>16
    <3> QED
      BY <1>2, <1>3, <3>1
  <2>4. total_objects' \in [Slabs -> Nat]
    <3>1. total_objects[c] + n \in Nat
      BY <1>3, <1>4
    <3> QED
      BY <1>2, <1>3, <3>1
  <2>5. pages' \subseteq PageSet
    BY <1>2, <1>3
  <2> QED
    BY <1>2, <2>1, <2>2, <2>3, <2>4, <2>5 DEF Types
<1> QED
  BY <1>20, <1>31, <1>32

-----------------------------------------------------------------------------
(* The invariant                                                           *)

(* Before the first allocation no page is cut and nothing is listed. *)
LEMMA InitIInv == Init => IInv
<1> SUFFICES ASSUME Init PROVE IInv
  OBVIOUS
<1> DEFINE kind == [p \in PageSet |-> 0]
           q == [c \in Slabs |-> <<>>]
<1>1. /\ mem = [a \in Words |-> <<"data">>] /\ pages = PageSet
      /\ free_list = [c \in Slabs |-> 0] /\ free_objects = [c \in Slabs |-> 0]
      /\ total_objects = [c \in Slabs |-> 0]
      /\ total_allocated = 0 /\ total_freed = 0 /\ live = {}
  BY DEF Init
<1>2. Types
  <2>1. Width \in Nat \ {0}
    BY Wrapped DEF WidthIs
  <2>2. total_allocated \in 0..(Width - 1) /\ total_freed \in 0..(Width - 1)
    BY <1>1, <2>1
  <2> QED
    BY <1>1, <2>2 DEF Types
<1>3. \A c \in Slabs : \A a : ~IsObj(kind, c, a)
  BY DEF IsObj, Slabs
<1>4. Cut(pages, kind) /\ Headers(mem, kind)
  BY <1>1, <1>3 DEF Cut, Headers
<1>5. q \in [Slabs -> Seq(Nat)] /\ \A c \in Slabs : q[c] = <<>> /\ Len(q[c]) = 0
  OBVIOUS
<1> HIDE DEF q, kind
<1>6. Lists(mem, free_list, free_objects, kind, q)
  BY <1>1, <1>5 DEF Lists, IsList
<1>7. Pieces(mem, pages, live, kind, q) /\ Separate(live)
  BY <1>1 DEF Pieces, Separate
<1> QED
  BY <1>2, <1>4, <1>5, <1>6, <1>7 DEF IInv, Laid, Layout

(* Writing to a piece, or taking an object, changes no type. *)
LEMMA TypesKept ==
  ASSUME Types, NEW kind, NEW q,
         Layout(mem, pages, free_list, free_objects, live, kind, q)
  PROVE  /\ \A x \in live : Use(x) => Types'
         /\ \A c \in Slabs, r \in Requests : TakeObject(c, r) => Types'
<1>1. ASSUME NEW x \in live, Use(x) PROVE Types'
  <2>1. /\ mem' = [w \in Words |-> mem'[w]]
        /\ pages' = pages /\ free_list' = free_list /\ free_objects' = free_objects
        /\ total_objects' = total_objects
        /\ total_allocated' = total_allocated /\ total_freed' = total_freed
    BY <1>1 DEF Use, slab, stats
  <2> QED
    BY <2>1 DEF Types
<1>2. ASSUME NEW c \in Slabs, NEW r \in Requests, TakeObject(c, r) PROVE Types'
  <2> DEFINE h == free_list[c]
             z == mem[h + 2][2]
             n == free_objects[c]
  <2>1. /\ h # 0 /\ mem' = mem /\ pages' = pages /\ total_objects' = total_objects
        /\ free_list' = [free_list EXCEPT ![c] = z]
        /\ free_objects' = [free_objects EXCEPT ![c] = n - 1]
        /\ total_allocated' = (total_allocated + SlabSizes[c]) % Width
        /\ total_freed' = total_freed
    BY <1>2 DEF TakeObject, Hand
  <2>2. /\ free_list \in [Slabs -> {0} \union Words] /\ free_objects \in [Slabs -> Nat]
        /\ total_allocated \in 0..(Width - 1)
    BY DEF Types
  <2>3. OneList(mem, kind, c, h, n, q[c])
    BY DEF Layout, Lists, OneList
  <2>4. IsObj(kind, c, h) /\ n # 0
    <3> DEFINE s == q[c]
    <3>1. OneList(mem, kind, c, h, n, s) /\ h # 0
      BY <2>1, <2>3
    <3> HIDE DEF h, n, s
    <3>2. s # <<>>
      BY <3>1 DEF OneList, IsList
    <3>3. 1 \in 1..Len(s) /\ h = s[1]
      BY <3>1, <3>2 DEF OneList, IsList
    <3>4. IsObj(kind, c, h)
      BY <3>1, <3>3 DEF OneList, IsList
    <3>5. s \in Seq(Nat) /\ n = Len(s)
      BY <3>1 DEF OneList
    <3> QED
      BY <3>2, <3>4, <3>5
  <2>5. z \in {0} \union Words
    <3>1. PICK y \in {0} \union Words : mem[h + 2] = <<"next", y>>
      BY <2>4 DEF Layout, Headers
    <3> QED
      BY <3>1
  <2>6. n - 1 \in Nat
    BY <2>2, <2>4
  <2> HIDE DEF h, z
  <2>7. free_list' \in [Slabs -> {0} \union Words]
    BY <2>1, <2>2, <2>5
  <2>8. free_objects' \in [Slabs -> Nat]
    <3> HIDE DEF n
    <3> QED
      BY <2>1, <2>2, <2>6
  <2>9. total_allocated' \in 0..(Width - 1)
    <3>1. WidthIs
      <4>1. 0 \in Nat
        OBVIOUS
      <4> QED
        BY <4>1, Wrapped
    <3>2. total_allocated \in Nat /\ SlabSizes[c] \in Nat
      BY <2>2, <3>1, SizesAre DEF WidthIs
    <3> QED
      BY <2>1, <3>2, Wrapped
  <2> QED
    BY <2>1, <2>7, <2>8, <2>9 DEF Types
<1> QED
  BY <1>1, <1>2

(* Every operation keeps the invariant. *)
LEMMA NextIInv == IInv /\ [Next]_vars => IInv'
<1> SUFFICES ASSUME IInv, [Next]_vars PROVE IInv'
  OBVIOUS
<1>1. Types
  BY DEF IInv
<1>2. PICK kind : \E q \in [Slabs -> Seq(Nat)] :
        Layout(mem, pages, free_list, free_objects, live, kind, q)
  BY DEF IInv, Laid
<1>3. PICK q \in [Slabs -> Seq(Nat)] :
        Layout(mem, pages, free_list, free_objects, live, kind, q)
  BY <1>2
<1>4. \A k, s : s \in [Slabs -> Seq(Nat)]
                /\ Layout(mem', pages', free_list', free_objects', live', k, s) => Laid'
  BY DEF Laid
<1>5. ASSUME NEW n \in Requests, NEW c \in Slabs, c = FindSlab(n), TakeObject(c, n)
      PROVE  IInv'
  <2>1. n <= SlabSizes[c]
    <3>1. n \in Nat
      BY KmallocAssumption
    <3> QED
      BY <1>5, <3>1, FindSlabIs
  <2>2. Layout(mem', pages', free_list', free_objects', live', kind,
               [q EXCEPT ![c] = Tail(q[c])])
    BY <1>1, <1>3, <1>5, <2>1, TakeObjectKeeps
  <2>3. [q EXCEPT ![c] = Tail(q[c])] \in [Slabs -> Seq(Nat)]
    <3> DEFINE s == q[c]
               h == free_list[c]
               f == free_objects[c]
    <3>1. OneList(mem, kind, c, h, f, s)
      BY <1>3 DEF Layout, Lists, OneList
    <3>2. h # 0
      BY <1>5 DEF TakeObject
    <3> HIDE DEF s, h, f
    <3>3. OneList(mem, kind, c, mem[h + 2][2], f - 1, Tail(s))
      BY <3>1, <3>2, TailIsList
    <3>4. Tail(s) \in Seq(Nat)
      BY <3>3 DEF OneList
    <3> QED
      BY <3>4 DEF s
  <2>4. Types'
    BY <1>1, <1>3, <1>5, TypesKept
  <2> QED
    BY <1>4, <2>2, <2>3, <2>4 DEF IInv
<1>6. ASSUME NEW n \in Requests, NEW c \in Slabs, c = FindSlab(n), Grow(c, n)
      PROVE  IInv'
  <2>1. n <= SlabSizes[c]
    <3>1. n \in Nat
      BY KmallocAssumption
    <3> QED
      BY <1>6, <3>1, FindSlabIs
  <2>2. /\ \E kind2 : \E q2 \in [Slabs -> Seq(Nat)] :
             Layout(mem', pages', free_list', free_objects', live', kind2, q2)
        /\ Types'
    BY <1>1, <1>3, <1>6, <2>1, GrowKeeps
  <2> QED
    BY <1>4, <2>2 DEF IInv
<1>7. ASSUME NEW n \in Requests, TakePages(n) PROVE IInv'
  <2>1. Layout(mem', pages', free_list', free_objects', live', kind, q) /\ Types'
    BY <1>1, <1>3, <1>7, TakePagesKeeps
  <2> QED
    BY <1>4, <2>1 DEF IInv
<1>8. ASSUME NEW x \in live, FreeBlock(x) PROVE IInv'
  <2>1. Layout(mem', pages', free_list', free_objects', live', kind, q) /\ Types'
    BY <1>1, <1>3, <1>8, FreeBlockKeeps
  <2> QED
    BY <1>4, <2>1 DEF IInv
<1>9. ASSUME NEW x \in live, FreeObject(x) PROVE IInv'
  <2>1. /\ \E q2 \in [Slabs -> Seq(Nat)] :
             Layout(mem', pages', free_list', free_objects', live', kind, q2)
        /\ Types'
    BY <1>1, <1>3, <1>9, FreeObjectKeeps
  <2> QED
    BY <1>4, <2>1 DEF IInv
<1>10. ASSUME NEW x \in live, Use(x) PROVE IInv'
  <2>1. Layout(mem', pages', free_list', free_objects', live', kind, q)
    BY <1>3, <1>10, UseKeeps
  <2>2. Types'
    BY <1>1, <1>3, <1>10, TypesKept
  <2> QED
    BY <1>4, <2>1, <2>2 DEF IInv
<1>11. CASE UNCHANGED vars
  <2>1. /\ mem' = mem /\ pages' = pages /\ free_list' = free_list
        /\ free_objects' = free_objects /\ total_objects' = total_objects
        /\ total_allocated' = total_allocated /\ total_freed' = total_freed /\ live' = live
    BY <1>11 DEF vars, slab, stats
  <2>2. Types'
    BY <1>1, <2>1 DEF Types
  <2>3. Laid'
    BY <1>3, <1>4, <2>1
  <2> QED
    BY <2>2, <2>3 DEF IInv
<1> QED
  BY <1>5, <1>6, <1>7, <1>8, <1>9, <1>10, <1>11 DEF Next, Kmalloc

(* The invariant holds in every reachable state. *)
LEMMA IInvCorrect == Spec => []IInv
  BY InitIInv, NextIInv, PTL DEF Spec

-----------------------------------------------------------------------------
(* What the invariant says of the pieces in use                            *)

(* A piece lies in memory and is as large as was asked for. *)
LEMMA PieceInMemory ==
  ASSUME IInv, NEW x \in live
  PROVE  /\ x[1] \in Nat /\ x[2] \in Nat \ {0} /\ x[2] <= NumPages * PageSize
         /\ x[3] \in Requests /\ x[3] <= x[2]
         /\ \A w \in Nat : x[1] <= w /\ w < x[1] + x[2] => w \in Words
<1>1. PICK kind : \E q \in [Slabs -> Seq(Nat)] :
        Layout(mem, pages, free_list, free_objects, live, kind, q)
  BY DEF IInv, Laid
<1>2. PICK q \in [Slabs -> Seq(Nat)] :
        Layout(mem, pages, free_list, free_objects, live, kind, q)
  BY <1>1
<1>3. IsPiece(kind, q, x) \/ IsRun(mem, pages, kind, x)
  BY <1>2 DEF Layout, Pieces
<1>4. CASE IsPiece(kind, q, x)
  <2>1. PICK c \in Slabs, a \in Nat :
          /\ x[1] = a + 3 /\ x[2] = SlabSizes[c] /\ x[1] + x[2] = a + Stride(c)
          /\ x[3] \in Requests /\ x[3] <= x[2] /\ IsObj(kind, c, a)
    BY <1>4, PieceIs
  <2>2. \A w \in a..(a + Stride(c) - 1) : w \in Words
    BY <2>1, ObjectIs
  <2>3. /\ SlabSizes[c] \in Nat \ {0} /\ Stride(c) = SlabSizes[c] + 3 /\ Stride(c) <= PageSize
        /\ PageSize \in Nat /\ NumPages \in Nat \ {0}
    BY SizesAre
  <2>4. PageSize <= NumPages * PageSize /\ NumPages * PageSize \in Nat
    <3>1. 1 \in Nat /\ 1 <= NumPages /\ 1 * PageSize = PageSize
      BY <2>3
    <3> QED
      BY <2>3, <3>1, Products
  <2> DEFINE z == NumPages * PageSize
  <2>5. PageSize <= z /\ z \in Nat
    BY <2>4
  <2> HIDE DEF z
  <2>6. x[1] \in Nat /\ x[2] \in Nat \ {0} /\ x[2] <= z
    BY <2>1, <2>3, <2>5
  <2>7. \A w \in Nat : x[1] <= w /\ w < x[1] + x[2] => w \in Words
    BY <2>1, <2>2, <2>3
  <2> QED
    BY <2>1, <2>6, <2>7 DEF z
<1>5. CASE IsRun(mem, pages, kind, x)
  <2>1. PICK p \in PageSet, k \in 0..MaxOrder :
           /\ BlockAt(x, p, k) /\ x[1] = p * PageSize + 2
           /\ x[1] + x[2] = p * PageSize + PageSize * 2^k
           /\ x[1] \in Nat /\ x[2] \in Nat \ {0}
           /\ x[3] \in Requests /\ x[3] <= x[2]
           /\ Run(p, k) \subseteq PageSet
    BY <1>5, RunPieceIs
  <2> DEFINE a == p * PageSize
             e == PageSize * 2^k
             z == NumPages * PageSize
  <2>2. /\ a \in Nat /\ e \in Nat /\ e <= z
        /\ \A w \in Nat : a <= w /\ w < a + e => w \in Words
    BY <2>1, RunProperties
  <2>3. z \in Nat
    BY SizesAre, Products
  <2>4. x[1] = a + 2 /\ x[1] + x[2] = a + e
    BY <2>1
  <2> HIDE DEF a, e, z
  <2>5. x[2] <= z /\ \A w \in Nat : x[1] <= w /\ w < x[1] + x[2] => w \in Words
    BY <2>1, <2>2, <2>3, <2>4
  <2> QED
    BY <2>1, <2>5 DEF z
<1> QED
  BY <1>3, <1>4, <1>5

(* An object in use and a block of pages in use share no word. *)
LEMMA PieceAndRunApart ==
  ASSUME NEW M, NEW P, NEW kind, NEW q, NEW u, NEW v,
         IsPiece(kind, q, u), IsRun(M, P, kind, v)
  PROVE  u[1] + u[2] <= v[1] \/ v[1] + v[2] <= u[1]
<1>1. PICK c \in Slabs, a \in Nat :
        /\ u[1] = a + 3 /\ u[1] + u[2] = a + Stride(c) /\ IsObj(kind, c, a)
  BY PieceIs
<1>2. PICK p \in PageSet, k \in 0..MaxOrder :
        /\ v[1] = p * PageSize + 2
        /\ v[1] + v[2] = p * PageSize + PageSize * 2^k
        /\ Run(p, k) \subseteq PageSet
        /\ \A t \in Run(p, k) : kind[t] = 0
  BY RunPieceIs
<1> DEFINE b == p * PageSize
           e == PageSize * 2^k
<1>3. /\ a \in Nat /\ b \in Nat /\ e \in Nat /\ Stride(c) \in Nat
      /\ a + Stride(c) <= b \/ b + e <= a
  BY <1>1, <1>2, HeaderApart
<1>4. v[1] = b + 2 /\ v[1] + v[2] = b + e
  BY <1>2
<1> HIDE DEF b, e
<1> QED
  BY <1>1, <1>3, <1>4

(* Two pieces share no word. *)
LEMMA PiecesApart ==
  ASSUME IInv, NEW x \in live, NEW y \in live, x # y
  PROVE  x[1] + x[2] <= y[1] \/ y[1] + y[2] <= x[1]
<1>1. PICK kind : \E q \in [Slabs -> Seq(Nat)] :
        Layout(mem, pages, free_list, free_objects, live, kind, q)
  BY DEF IInv, Laid
<1>2. PICK q \in [Slabs -> Seq(Nat)] :
        Layout(mem, pages, free_list, free_objects, live, kind, q)
  BY <1>1
<1>3. /\ IsPiece(kind, q, x) \/ IsRun(mem, pages, kind, x)
      /\ IsPiece(kind, q, y) \/ IsRun(mem, pages, kind, y)
      /\ Apart(x, y)
  BY <1>2 DEF Layout, Pieces, Separate
<1>4. ASSUME NEW u \in live, NEW v \in live, IsPiece(kind, q, u), IsRun(mem, pages, kind, v)
      PROVE  u[1] + u[2] <= v[1] \/ v[1] + v[2] <= u[1]
  BY <1>4, PieceAndRunApart
<1>5. CASE IsPiece(kind, q, x) /\ IsPiece(kind, q, y)
  <2>1. PICK c \in Slabs, a \in Nat :
          /\ x[1] = a + 3 /\ x[1] + x[2] = a + Stride(c) /\ IsObj(kind, c, a)
    BY <1>5, PieceIs
  <2>2. PICK d \in Slabs, b \in Nat :
          /\ y[1] = b + 3 /\ y[1] + y[2] = b + Stride(d) /\ IsObj(kind, d, b)
    BY <1>5, PieceIs
  <2>3. a # b
    BY <1>3, <2>1, <2>2 DEF Apart
  <2>4. a + Stride(c) <= b \/ b + Stride(d) <= a
    BY <2>1, <2>2, <2>3, ObjectsApart
  <2>5. Stride(c) \in Nat /\ Stride(d) \in Nat
    BY SizesAre
  <2> QED
    BY <2>1, <2>2, <2>4, <2>5
<1>6. CASE IsRun(mem, pages, kind, x) /\ IsRun(mem, pages, kind, y)
  <2>1. PICK p \in PageSet, k \in 0..MaxOrder :
           /\ BlockAt(x, p, k) /\ x[1] = p * PageSize + 2
           /\ x[1] + x[2] = p * PageSize + PageSize * 2^k
           /\ Run(p, k) \subseteq PageSet
    BY <1>6, RunPieceIs
  <2>2. PICK s \in PageSet, l \in 0..MaxOrder :
           /\ BlockAt(y, s, l) /\ y[1] = s * PageSize + 2
           /\ y[1] + y[2] = s * PageSize + PageSize * 2^l
           /\ Run(s, l) \subseteq PageSet
    BY <1>6, RunPieceIs
  <2> DEFINE a == p * PageSize
             e == PageSize * 2^k
             b == s * PageSize
             f == PageSize * 2^l
  <2>3. Run(p, k) \intersect Run(s, l) = {}
    BY <1>3, <2>1, <2>2 DEF Apart
  <2>4. a \in Nat /\ e \in Nat /\ (b + f <= a \/ a + e <= b)
    BY <2>1, <2>3, RunProperties
  <2>5. b \in Nat /\ f \in Nat
    BY <2>2, RunProperties
  <2>6. x[1] = a + 2 /\ x[1] + x[2] = a + e /\ y[1] = b + 2 /\ y[1] + y[2] = b + f
    BY <2>1, <2>2
  <2> HIDE DEF a, b, e, f
  <2> QED
    BY <2>4, <2>5, <2>6
<1>7. CASE IsPiece(kind, q, x) /\ IsRun(mem, pages, kind, y)
  BY <1>4, <1>7
<1>8. CASE IsRun(mem, pages, kind, x) /\ IsPiece(kind, q, y)
  BY <1>4, <1>8
<1> QED
  BY <1>3, <1>5, <1>6, <1>7, <1>8

\* What callers see of the pieces they hold.
Promised ==
  /\ \A x \in live :
       /\ x[1] \in Nat /\ x[2] \in Nat \ {0} /\ x[3] \in Requests /\ x[3] <= x[2]
       /\ \A w \in Nat : x[1] <= w /\ w < x[1] + x[2] => w \in Words
  /\ \A x, y \in live : x # y => x[1] + x[2] <= y[1] \/ y[1] + y[2] <= x[1]

(* The invariant promises it. *)
LEMMA PromiseKept == IInv => Promised
<1> SUFFICES ASSUME IInv PROVE Promised
  OBVIOUS
<1>1. ASSUME NEW x \in live
      PROVE  /\ x[1] \in Nat /\ x[2] \in Nat \ {0} /\ x[3] \in Requests /\ x[3] <= x[2]
             /\ \A w \in Nat : x[1] <= w /\ w < x[1] + x[2] => w \in Words
  BY PieceInMemory
<1>2. ASSUME NEW x \in live, NEW y \in live, x # y
      PROVE  x[1] + x[2] <= y[1] \/ y[1] + y[2] <= x[1]
  BY <1>2, PiecesApart
<1> QED
  BY <1>1, <1>2 DEF Promised

-----------------------------------------------------------------------------
(* Every counter and every list head has its type, and every piece in use  *)
(* lies in memory: no count of free objects goes below zero.               *)
THEOREM TypeCorrect == Spec => []TypeOK
<1>1. IInv => TypeOK
  <2> SUFFICES ASSUME IInv PROVE TypeOK
    OBVIOUS
  <2>1. Types
    BY DEF IInv
  <2>2. DOMAIN mem = Words
    <3>1. mem = [w \in Words |-> mem[w]]
      BY <2>1 DEF Types
    <3> QED
      BY <3>1
  <2>3. ASSUME NEW x \in live PROVE x[1] \in Words /\ x[2] \in 1..(NumPages * PageSize)
    <3> DEFINE z == NumPages * PageSize
    <3>1. /\ x[1] \in Nat /\ x[2] \in Nat \ {0} /\ x[2] <= z
          /\ \A w \in Nat : x[1] <= w /\ w < x[1] + x[2] => w \in Words
      BY PieceInMemory
    <3>2. z \in Nat
      BY SizesAre, Products
    <3> HIDE DEF z
    <3>3. x[1] \in Words /\ x[2] \in 1..z
      BY <3>1, <3>2
    <3> QED
      BY <3>3 DEF z
  <2>4. free_list \in [Slabs -> Words \union {0}]
    BY <2>1 DEF Types
  <2> QED
    BY <2>1, <2>2, <2>3, <2>4 DEF TypeOK, Types
<1> QED
  BY <1>1, IInvCorrect, PTL

(* What kfree() reads before a pointer in use is what kmalloc() left       *)
(* there, whatever its users and the other pieces do to memory.            *)
THEOREM HeadersCorrect == Spec => []HeadersIntact
<1>1. IInv => HeadersIntact
  <2> SUFFICES ASSUME IInv, NEW x \in live
               PROVE  \/ IsBlock(x[1]) /\ PageSize * 2^(mem[x[1] - 1][2]) = x[2] + PAGE_HEADER
                      \/ /\ ~IsBlock(x[1])
                         /\ mem[x[1] - 2] = <<"KMALLOC_MAGIC">>
                         /\ mem[x[1] - 3] = <<"size", x[2]>>
    BY DEF HeadersIntact
  <2>1. PICK kind : \E q \in [Slabs -> Seq(Nat)] :
          Layout(mem, pages, free_list, free_objects, live, kind, q)
    BY DEF IInv, Laid
  <2>2. PICK q \in [Slabs -> Seq(Nat)] :
          Layout(mem, pages, free_list, free_objects, live, kind, q)
    BY <2>1
  <2>3. Headers(mem, kind) /\ (IsPiece(kind, q, x) \/ IsRun(mem, pages, kind, x))
    BY <2>2 DEF Layout, Pieces
  <2>4. CASE IsPiece(kind, q, x)
    <3>1. PICK c \in Slabs, a \in Nat : x[1] = a + 3 /\ x[2] = SlabSizes[c] /\ IsObj(kind, c, a)
      BY <2>4, PieceIs
    <3>2. mem[a] = <<"size", SlabSizes[c]>> /\ mem[a + 1] = <<"KMALLOC_MAGIC">>
      BY <2>3, <3>1 DEF Headers
    <3>3. x[1] - 2 = a + 1 /\ x[1] - 3 = a
      BY <3>1
    <3>4. ~IsBlock(x[1])
      BY <2>3, <2>4, KindTold
    <3> QED
      BY <3>1, <3>2, <3>3, <3>4
  <2>5. CASE IsRun(mem, pages, kind, x)
    <3>1. PICK p \in PageSet, k \in 0..MaxOrder :
             /\ BlockAt(x, p, k) /\ Run(p, k) \subseteq PageSet \ pages
             /\ mem[p * PageSize + 1] = <<"KMALLOC_PAGE_MAGIC", k>>
      BY <2>5 DEF IsRun
    <3> DEFINE a == p * PageSize
               e == PageSize * 2^k
    <3>2. a \in Nat /\ e \in Nat
      <4>1. Run(p, k) \subseteq PageSet
        BY <3>1
      <4> QED
        BY <4>1, RunProperties
    <3>3. x[1] = a + PAGE_HEADER /\ x[2] = e - PAGE_HEADER
      BY <3>1 DEF BlockAt
    <3>4. x[1] - 1 = a + 1 /\ e = x[2] + PAGE_HEADER
      <4> HIDE DEF a, e
      <4> QED
        BY <3>2, <3>3 DEF PAGE_HEADER
    <3>5. mem[x[1] - 1][2] = k
      BY <3>1, <3>4
    <3>6. IsBlock(x[1])
      BY <2>3, <2>5, KindTold
    <3>7. PageSize * 2^(mem[x[1] - 1][2]) = e
      BY <3>5
    <3> QED
      BY <3>4, <3>6, <3>7
  <2> QED
    BY <2>3, <2>4, <2>5
<1> QED
  BY <1>1, IInvCorrect, PTL

(* The heap implements Heap: each piece given out lies in memory, is as    *)
(* large as was asked for and apart from every other piece in use.         *)
THEOREM ImplementsHeap == Spec => HeapSafety
<1>1. Init => Owner!Init
  BY DEF Init, Owner!Init
<1>2. Promised' /\ [Next]_vars => [Owner!Next]_live
  <2> SUFFICES ASSUME Promised', [Next]_vars PROVE [Owner!Next]_live
    OBVIOUS
  <2>1. ASSUME NEW x, live' = live \union {x} PROVE [Owner!Next]_live
    <3>1. CASE x \in live
      BY <2>1, <3>1
    <3>2. CASE x \notin live
      <4>1. x \in live'
        BY <2>1
      <4>2. /\ x[1] \in Nat /\ x[2] \in Nat \ {0} /\ x[3] \in Requests /\ x[3] <= x[2]
            /\ \A w \in Nat : x[1] <= w /\ w < x[1] + x[2] => w \in Words
        BY <4>1 DEF Promised
      <4>3. Owner!Words(x) \subseteq Words
        BY <4>2 DEF Owner!Words
      <4>4. ASSUME NEW y \in live PROVE Owner!Words(x) \intersect Owner!Words(y) = {}
        <5>1. y \in live' /\ x # y
          BY <2>1, <3>2
        <5>2. x[1] + x[2] <= y[1] \/ y[1] + y[2] <= x[1]
          BY <4>1, <5>1 DEF Promised
        <5>3. y[1] \in Nat /\ y[2] \in Nat
          BY <5>1 DEF Promised
        <5> QED
          BY <4>2, <5>2, <5>3 DEF Owner!Words
      <4>5. x[2] >= x[3]
        <5>1. x[3] \in Nat
          BY <4>2, KmallocAssumption
        <5> QED
          BY <4>2, <5>1
      <4>6. Owner!Alloc(x)
        BY <2>1, <4>2, <4>3, <4>4, <4>5 DEF Owner!Alloc
      <4> QED
        BY <3>2, <4>1, <4>6 DEF Owner!Next
    <3> QED
      BY <3>1, <3>2
  <2>2. ASSUME NEW x \in live, live' = live \ {x} PROVE [Owner!Next]_live
    BY <2>2 DEF Owner!Next, Owner!Free
  <2>3. ASSUME NEW n \in Requests, NEW c \in Slabs, TakeObject(c, n) \/ Grow(c, n)
        PROVE  [Owner!Next]_live
    BY <2>1, <2>3 DEF TakeObject, Grow, Hand
  <2>4. ASSUME NEW n \in Requests, TakePages(n) PROVE [Owner!Next]_live
    BY <2>1, <2>4 DEF TakePages
  <2>5. ASSUME NEW x \in live, FreeBlock(x) \/ FreeObject(x) PROVE [Owner!Next]_live
    BY <2>2, <2>5 DEF FreeBlock, FreeObject
  <2>6. ASSUME NEW x \in live, Use(x) PROVE [Owner!Next]_live
    BY <2>6 DEF Use
  <2>7. CASE UNCHANGED vars
    BY <2>7 DEF vars
  <2> QED
    BY <2>3, <2>4, <2>5, <2>6, <2>7 DEF Next, Kmalloc
<1> QED
  BY <1>1, <1>2, PromiseKept, IInvCorrect, PTL DEF Spec, HeapSafety, Owner!Spec

-----------------------------------------------------------------------------
(* The lists as the links give them                                        *)

\* After n steps along the list s of slab c: what was met, and what is next.
At(s, n) == [seen |-> SubSeq(s, 1, n), ptr |-> IF n >= Len(s) THEN 0 ELSE s[n + 1]]

(* The first words of a list of numbers are a list of numbers. *)
LEMMA PrefixIsSeq ==
  ASSUME NEW s \in Seq(Nat), NEW n \in Nat, n <= Len(s)
  PROVE  SubSeq(s, 1, n) \in Seq(Nat)
<1>1. 1 \in Int /\ n \in Int
  OBVIOUS
<1>2. \A i \in 1..n : s[i] \in Nat
  OBVIOUS
<1> QED
  BY <1>1, <1>2, SubSeqProperties

(* Following the links meets the objects of the list one by one. *)
LEMMA ChainStep ==
  ASSUME NEW kind, NEW c \in Slabs, NEW h, NEW s, OneList(mem, kind, c, h, Len(s), s)
  PROVE  /\ At(s, 0) = [seen |-> <<>>, ptr |-> h]
         /\ At(s, Len(s)) = [seen |-> s, ptr |-> 0]
         /\ \A n \in 0..(Len(s) - 1) :
              /\ At(s, n).ptr # 0
              /\ At(s, n + 1) = [seen |-> Append(At(s, n).seen, At(s, n).ptr),
                                 ptr |-> mem[At(s, n).ptr + 2][2]]
<1> DEFINE m == Len(s)
<1>1. /\ s \in Seq(Nat) /\ m \in Nat
      /\ h = IF s = <<>> THEN 0 ELSE s[1]
      /\ \A i \in 1..m :
           /\ IsObj(kind, c, s[i])
           /\ mem[s[i] + 2] = <<"next", IF i = m THEN 0 ELSE s[i + 1]>>
  <2>1. s \in Seq(Nat) /\ IsList(mem, kind, c, h, s)
    BY DEF OneList
  <2>2. m \in Nat
    BY <2>1
  <2> QED
    BY <2>1, <2>2 DEF IsList
<1>2. s = <<>> <=> m = 0
  BY <1>1
<1>3. SubSeq(s, 1, 0) = <<>> /\ SubSeq(s, 1, m) = s
  BY <1>1, SubSeqEmpty, SubSeqFull
<1> HIDE DEF m
<1>4. At(s, 0) = [seen |-> <<>>, ptr |-> h]
  <2>1. h = IF 0 >= m THEN 0 ELSE s[0 + 1]
    BY <1>1, <1>2
  <2> QED
    BY <1>3, <2>1 DEF At, m
<1>5. At(s, m) = [seen |-> s, ptr |-> 0]
  <2>1. m >= m
    BY <1>1
  <2>2. m >= Len(s) /\ SubSeq(s, 1, m) = s
    BY <1>3, <2>1 DEF m
  <2> QED
    BY <2>2 DEF At
<1>6. ASSUME NEW n \in 0..(m - 1)
      PROVE  /\ At(s, n).ptr # 0
             /\ At(s, n + 1) = [seen |-> Append(At(s, n).seen, At(s, n).ptr),
                                ptr |-> mem[At(s, n).ptr + 2][2]]
  <2> DEFINE k == n + 1
  <2>1. n \in Nat /\ k \in 1..m /\ ~(n >= m) /\ (k >= m <=> k = m) /\ k - 1 = n /\ k \in k..m
    BY <1>1
  <2> HIDE DEF k
  <2>2. At(s, n).seen = SubSeq(s, 1, n) /\ At(s, n).ptr = s[k]
    BY <2>1 DEF At, k, m
  <2>3. s[k] # 0 /\ mem[s[k] + 2] = <<"next", IF k = m THEN 0 ELSE s[k + 1]>>
    <3>1. IsObj(kind, c, s[k])
      BY <1>1, <2>1
    <3> QED
      BY <1>1, <2>1, <3>1, ObjectIs
  <2>4. SubSeq(s, 1, k) = Append(SubSeq(s, 1, n), s[k])
    <3>1. 1 \in 1..Len(s) /\ k \in 1..Len(s)
      BY <1>1, <2>1 DEF m
    <3>2. SubSeq(s, 1, k) = SubSeq(s, 1, k - 1) \o <<s[k]>>
      BY <1>1, <3>1, SubSeqRecursiveSecond
    <3>3. SubSeq(s, 1, n) \in Seq(Nat) /\ s[k] \in Nat
      <4>1. s \in Seq(Nat) /\ n <= Len(s)
        BY <1>1, <2>1 DEF m
      <4>2. SubSeq(s, 1, n) \in Seq(Nat)
        BY <2>1, <4>1, PrefixIsSeq
      <4> QED
        BY <3>1, <4>1, <4>2
    <3> DEFINE u == SubSeq(s, 1, n)
               e == s[k]
    <3>4. u \in Seq(Nat) /\ e \in Nat /\ SubSeq(s, 1, k) = u \o <<e>>
      BY <2>1, <3>2, <3>3
    <3> HIDE DEF u, e
    <3>5. u \o <<e>> = Append(u, e)
      BY <3>4
    <3> QED
      BY <3>4, <3>5 DEF u, e
  <2>5. At(s, k) = [seen |-> SubSeq(s, 1, k), ptr |-> IF k = m THEN 0 ELSE s[k + 1]]
    BY <2>1 DEF At, m
  <2>6. mem[At(s, n).ptr + 2][2] = IF k = m THEN 0 ELSE s[k + 1]
    BY <2>2, <2>3
  <2>7. At(s, k) = [seen |-> Append(At(s, n).seen, At(s, n).ptr),
                    ptr |-> mem[At(s, n).ptr + 2][2]]
    BY <2>2, <2>4, <2>5, <2>6
  <2> QED
    BY <2>2, <2>3, <2>7 DEF k
<1> QED
  BY <1>4, <1>5, <1>6 DEF m

(* Chain gives the list. *)
LEMMA ChainIs ==
  ASSUME NEW kind, NEW c \in Slabs, NEW s,
         OneList(mem, kind, c, free_list[c], free_objects[c], s)
  PROVE  Chain(c) = s
<1> DEFINE m == free_objects[c]
           h == free_list[c]
           D == 0..(m + 1)
           Follow(r) == IF r.ptr = 0 THEN r
                        ELSE [seen |-> Append(r.seen, r.ptr), ptr |-> mem[r.ptr + 2][2]]
           Rec(f) == f = [n \in D |-> IF n = 0 THEN [seen |-> <<>>, ptr |-> h]
                                      ELSE Follow(f[n - 1])]
           step == CHOOSE f : Rec(f)
<1>1. Chain(c) = step[m + 1].seen
  BY DEF Chain
<1>2. s \in Seq(Nat) /\ m = Len(s) /\ m \in Nat
  BY DEF OneList
<1> HIDE DEF m, h
<1>3. /\ At(s, 0) = [seen |-> <<>>, ptr |-> h]
      /\ At(s, m) = [seen |-> s, ptr |-> 0]
      /\ \A n \in 0..(m - 1) : Follow(At(s, n)) = At(s, n + 1)
  <2>1. OneList(mem, kind, c, h, Len(s), s)
    BY <1>2 DEF m, h
  <2>2. /\ At(s, 0) = [seen |-> <<>>, ptr |-> h]
        /\ At(s, Len(s)) = [seen |-> s, ptr |-> 0]
        /\ \A n \in 0..(Len(s) - 1) :
              /\ At(s, n).ptr # 0
              /\ At(s, n + 1) = [seen |-> Append(At(s, n).seen, At(s, n).ptr),
                                 ptr |-> mem[At(s, n).ptr + 2][2]]
    BY <2>1, ChainStep
  <2> QED
    BY <1>2, <2>2
<1> DEFINE g == [n \in D |-> IF n <= m THEN At(s, n) ELSE At(s, m)]
<1>4. Follow(At(s, m)) = At(s, m)
  BY <1>3
<1> HIDE DEF Follow
<1>5. Rec(g)
  <2>1. ASSUME NEW n \in D
        PROVE  g[n] = IF n = 0 THEN [seen |-> <<>>, ptr |-> h] ELSE Follow(g[n - 1])
    <3>1. CASE n = 0
      BY <1>2, <1>3, <3>1
    <3>2. CASE n # 0
      <4>1. n - 1 \in D /\ n - 1 <= m /\ n - 1 \in Nat /\ n - 1 + 1 = n
        BY <1>2, <3>2
      <4>2. g[n - 1] = At(s, n - 1)
        BY <4>1
      <4>3. CASE n <= m
        <5>1. n - 1 \in 0..(m - 1) /\ g[n] = At(s, n)
          BY <1>2, <3>2, <4>3
        <5> QED
          BY <1>3, <3>2, <4>1, <4>2, <5>1
      <4>4. CASE ~(n <= m)
        <5>1. n - 1 = m /\ g[n] = At(s, m)
          BY <1>2, <4>1, <4>4
        <5> QED
          BY <1>4, <3>2, <4>2, <5>1
      <4> QED
        BY <4>3, <4>4
    <3> QED
      BY <3>1, <3>2
  <2>2. g = [n \in D |-> g[n]]
    OBVIOUS
  <2> HIDE DEF g, D
  <2>3. [n \in D |-> g[n]] = [n \in D |-> IF n = 0 THEN [seen |-> <<>>, ptr |-> h]
                                          ELSE Follow(g[n - 1])]
    BY <2>1
  <2> QED
    BY <2>2, <2>3
<1>6. Rec(step)
  <2> HIDE DEF Rec, g
  <2> QED
    BY <1>5
<1> HIDE DEF step
<1>7. \A n \in D : step[n] = IF n = 0 THEN [seen |-> <<>>, ptr |-> h] ELSE Follow(step[n - 1])
  BY <1>6
<1>8. \A n \in 0..m : step[n] = At(s, n)
  <2> DEFINE S == {n \in 0..m : step[n] # At(s, n)}
  <2> SUFFICES ASSUME S # {} PROVE FALSE
    OBVIOUS
  <2>1. S \in SUBSET Nat
    OBVIOUS
  <2>2. PICK n \in S : \A k \in S : n <= k
    BY <2>1, Least
  <2>3. n \in 0..m /\ step[n] # At(s, n) /\ n \in D
    BY <1>2
  <2>4. n # 0
    <3>1. 0 \in D
      BY <1>2
    <3> QED
      BY <1>3, <1>7, <2>3, <3>1
  <2>5. n - 1 \in 0..m /\ n - 1 \in 0..(m - 1) /\ ~(n <= n - 1) /\ n - 1 + 1 = n
    BY <1>2, <2>3, <2>4
  <2>6. step[n - 1] = At(s, n - 1)
    BY <2>2, <2>5
  <2>7. step[n] = Follow(At(s, n - 1))
    BY <1>7, <2>3, <2>4, <2>6
  <2>8. Follow(At(s, n - 1)) = At(s, n)
    BY <1>3, <2>5
  <2> QED
    BY <2>3, <2>7, <2>8
<1>9. step[m + 1] = At(s, m)
  <2>1. m + 1 \in D /\ m + 1 # 0 /\ m + 1 - 1 = m /\ m \in 0..m
    BY <1>2
  <2>2. step[m + 1] = Follow(step[m])
    BY <1>7, <2>1
  <2> QED
    BY <1>4, <1>8, <2>1, <2>2
<1>10. step[m + 1].seen = s
  BY <1>3, <1>9
<1> QED
  BY <1>1, <1>10 DEF step, m, h, Follow

(* Each slab's list holds as many objects as the slab counts, each once,   *)
(* none in use and none on a page that may be handed out: links survive    *)
(* allocation and what is written to the pieces in use.                    *)
THEOREM SlabListsCorrect == Spec => []SlabListsExact
<1>1. IInv => SlabListsExact
  <2> SUFFICES ASSUME IInv, NEW c \in Slabs
               PROVE  /\ Len(Chain(c)) = free_objects[c]
                      /\ Cardinality(Listed(c)) = free_objects[c]
                      /\ \A a \in Listed(c) : /\ a \div PageSize \notin pages
                                              /\ \A x \in live : x[1] # a + OBJ_HEADER
    BY DEF SlabListsExact
  <2>1. PICK kind : \E q \in [Slabs -> Seq(Nat)] :
          Layout(mem, pages, free_list, free_objects, live, kind, q)
    BY DEF IInv, Laid
  <2>2. PICK q \in [Slabs -> Seq(Nat)] :
          Layout(mem, pages, free_list, free_objects, live, kind, q)
    BY <2>1
  <2> DEFINE s == q[c]
             m == Len(s)
  <2>3. OneList(mem, kind, c, free_list[c], free_objects[c], s)
    BY <2>2 DEF Layout, Lists, OneList
  <2>4. /\ s \in Seq(Nat) /\ free_objects[c] = m
        /\ \A i \in 1..m : IsObj(kind, c, s[i])
        /\ \A i, j \in 1..m : s[i] = s[j] => i = j
    BY <2>3 DEF OneList, IsList
  <2> HIDE DEF s
  <2>5. Chain(c) = s
    BY <2>3, ChainIs
  <2>6. Listed(c) = {s[i] : i \in 1..m}
    BY <2>5 DEF Listed
  <2>7. Cardinality(Listed(c)) = m
    <3> DEFINE T == {s[i] : i \in 1..m}
               f == [i \in 1..m |-> s[i]]
    <3>1. m \in Nat
      BY <2>4
    <3>2. f \in Bijection(1..m, T)
      <4>1. f \in [1..m -> T]
        OBVIOUS
      <4>2. \A i, j \in 1..m : f[i] = f[j] => i = j
        BY <2>4
      <4>3. \A t \in T : \E i \in 1..m : f[i] = t
        OBVIOUS
      <4> HIDE DEF f, T
      <4> QED
        BY <4>1, <4>2, <4>3 DEF Bijection, Injection, Surjection, IsInjective
    <3>3. ExistsBijection(1..m, T)
      BY <3>2 DEF ExistsBijection
    <3> QED
      BY <2>6, <3>1, <3>3, FS_CountingElements, FS_NatBijection
  <2>8. ASSUME NEW a \in Listed(c), NEW x \in live, x[1] = a + OBJ_HEADER PROVE FALSE
    <3>1. PICK i \in 1..m : a = s[i]
      BY <2>6
    <3>2. IsObj(kind, c, a)
      BY <2>4, <3>1
    <3>3. IsPiece(kind, q, x) \/ IsRun(mem, pages, kind, x)
      BY <2>2 DEF Layout, Pieces
    <3>4. CASE IsPiece(kind, q, x)
      <4>1. PICK d \in Slabs, b \in Nat, r \in Requests :
              /\ x = <<b + OBJ_HEADER, SlabSizes[d], r>> /\ IsObj(kind, d, b)
              /\ \A j \in 1..Len(q[d]) : q[d][j] # b
        BY <3>4 DEF IsPiece
      <4>2. a \in Nat
        BY <3>2, ObjectIs
      <4>3. a = b
        BY <2>8, <4>1, <4>2 DEF OBJ_HEADER
      <4>4. c = d
        BY <3>2, <4>1, <4>3, ObjectsApart
      <4> QED
        BY <3>1, <4>1, <4>3, <4>4 DEF s
    <3>5. CASE IsRun(mem, pages, kind, x)
      <4>1. PICK p \in PageSet, k \in 0..MaxOrder : BlockAt(x, p, k)
        BY <3>5 DEF IsRun
      <4> QED
        BY <2>8, <3>2, <4>1, ObjectNoBlock DEF BlockAt
    <3> QED
      BY <3>3, <3>4, <3>5
  <2>9. ASSUME NEW a \in Listed(c) PROVE a \div PageSize \notin pages
    <3>1. PICK i \in 1..m : a = s[i]
      BY <2>6
    <3>2. PICK p \in PageSet : /\ kind[p] = c /\ a \div PageSize = p
                               /\ p * PageSize <= a
                               /\ a + Stride(c) <= p * PageSize + PageSize
      <4>1. IsObj(kind, c, a)
        BY <2>4, <3>1
      <4> QED
        BY <4>1, ObjectIs
    <3>3. c # 0
      BY DEF Slabs
    <3> QED
      BY <2>2, <3>2, <3>3 DEF Layout, Cut
  <2> QED
    BY <2>4, <2>5, <2>7, <2>8, <2>9
<1> QED
  BY <1>1, IInvCorrect, PTL

-----------------------------------------------------------------------------
(* What the statistics count                                               *)

\* The words kmalloc() counts for a piece: those of a block with its header.
InBlock(x) == \E p \in PageSet, k \in 0..MaxOrder : BlockAt(x, p, k)
Start(x)   == IF InBlock(x) THEN x[1] - PAGE_HEADER ELSE x[1]
Stop(x)    == x[1] + x[2]
Space(x)   == Start(x)..(Stop(x) - 1)
Weight(x)  == Stop(x) - Start(x)

\* The words of all pieces.
AllSpace(L) == UNION {Space(x) : x \in L}
Total(L)    == Cardinality(AllSpace(L))

\* The pieces of L lie in memory, apart from each other.
Spaced(L) ==
  /\ \A x \in L : /\ Start(x) \in Nat /\ Stop(x) \in Nat /\ Start(x) < Stop(x)
                  /\ Space(x) \subseteq Words
  /\ \A x, y \in L : x # y => Stop(x) <= Start(y) \/ Stop(y) <= Start(x)

(* Where the counted words of a piece begin and end, and how many they are *)
(* as kfree() tells blocks from objects.                                   *)
LEMMA PieceCounted ==
  ASSUME IInv, NEW x \in live
  PROVE  /\ Start(x) \in Nat /\ Stop(x) \in Nat /\ Start(x) < Stop(x)
         /\ Space(x) \subseteq Words /\ Counted(x) = Weight(x)
<1>1. PICK kind : \E q \in [Slabs -> Seq(Nat)] :
        Layout(mem, pages, free_list, free_objects, live, kind, q)
  BY DEF IInv, Laid
<1>2. PICK q \in [Slabs -> Seq(Nat)] :
        Layout(mem, pages, free_list, free_objects, live, kind, q)
  BY <1>1
<1>3. Headers(mem, kind) /\ (IsPiece(kind, q, x) \/ IsRun(mem, pages, kind, x))
  BY <1>2 DEF Layout, Pieces
<1>4. /\ x[1] \in Nat /\ x[2] \in Nat \ {0}
      /\ \A w \in Nat : x[1] <= w /\ w < x[1] + x[2] => w \in Words
  BY PieceInMemory
<1>5. CASE IsPiece(kind, q, x)
  <2>1. ~InBlock(x) /\ ~IsBlock(x[1])
    BY <1>3, <1>5, PieceIs, KindTold DEF InBlock
  <2>2. Start(x) = x[1] /\ Counted(x) = x[2] /\ Stop(x) = x[1] + x[2]
    BY <2>1 DEF Start, Stop, Counted
  <2>3. Space(x) \subseteq Words
    BY <1>4, <2>2 DEF Space
  <2>4. Counted(x) = Weight(x)
    BY <1>4, <2>2 DEF Weight
  <2> QED
    BY <1>4, <2>2, <2>3, <2>4
<1>6. CASE IsRun(mem, pages, kind, x)
  <2>1. PICK p \in PageSet, k \in 0..MaxOrder :
           /\ BlockAt(x, p, k) /\ x[1] = p * PageSize + 2
           /\ x[1] + x[2] = p * PageSize + PageSize * 2^k
           /\ x[1] \in Nat /\ x[2] \in Nat \ {0}
           /\ x[3] \in Requests /\ x[3] <= x[2]
           /\ Run(p, k) \subseteq PageSet
    BY <1>6, RunPieceIs
  <2>2. InBlock(x) /\ IsBlock(x[1])
    BY <1>3, <1>6, <2>1, KindTold DEF InBlock
  <2>3. Start(x) = x[1] - 2 /\ Counted(x) = x[2] + 2 /\ Stop(x) = x[1] + x[2]
    BY <2>2 DEF Start, Stop, Counted, PAGE_HEADER
  <2> DEFINE a == p * PageSize
             e == PageSize * 2^k
  <2>4. /\ a \in Nat /\ e \in Nat
        /\ \A w \in Nat : a <= w /\ w < a + e => w \in Words
    BY <2>1, RunProperties
  <2>5. x[1] = a + 2 /\ x[1] + x[2] = a + e
    BY <2>1
  <2> HIDE DEF a, e
  <2>6. Start(x) = a /\ Stop(x) = a + e /\ Stop(x) \in Nat /\ Start(x) < Stop(x)
    BY <1>4, <2>3, <2>4, <2>5
  <2>7. Space(x) \subseteq Words
    BY <2>4, <2>5, <2>6 DEF Space
  <2>8. Counted(x) = Weight(x)
    BY <1>4, <2>3, <2>4, <2>5 DEF Weight
  <2> QED
    BY <2>4, <2>6, <2>7, <2>8
<1> QED
  BY <1>3, <1>5, <1>6

(* A block of pages and an object in use share no word, the header of the  *)
(* block included.                                                         *)
LEMMA PieceAndBlockApart ==
  ASSUME NEW M, NEW P, NEW kind, NEW q, NEW u, NEW v,
         IsPiece(kind, q, u), IsRun(M, P, kind, v)
  PROVE  u[1] + u[2] <= Start(v) \/ v[1] + v[2] <= u[1]
<1>1. PICK c \in Slabs, a \in Nat :
        /\ u[1] = a + 3 /\ u[1] + u[2] = a + Stride(c) /\ IsObj(kind, c, a)
  BY PieceIs
<1>2. PICK p \in PageSet, k \in 0..MaxOrder :
        /\ BlockAt(v, p, k) /\ v[1] = p * PageSize + 2
        /\ v[1] + v[2] = p * PageSize + PageSize * 2^k
        /\ Run(p, k) \subseteq PageSet
        /\ \A t \in Run(p, k) : kind[t] = 0
  BY RunPieceIs
<1>3. Start(v) = v[1] - 2
  BY <1>2 DEF Start, InBlock, PAGE_HEADER
<1> DEFINE b == p * PageSize
           e == PageSize * 2^k
<1>4. /\ a \in Nat /\ b \in Nat /\ e \in Nat /\ Stride(c) \in Nat
      /\ a + Stride(c) <= b \/ b + e <= a
  BY <1>1, <1>2, HeaderApart
<1>5. v[1] = b + 2 /\ v[1] + v[2] = b + e
  BY <1>2
<1> HIDE DEF b, e
<1> QED
  BY <1>1, <1>3, <1>4, <1>5

(* The counted words of two pieces are apart.                              *)
LEMMA CountedApart ==
  ASSUME IInv, NEW x \in live, NEW y \in live, x # y
  PROVE  Stop(x) <= Start(y) \/ Stop(y) <= Start(x)
<1>0. Stop(x) = x[1] + x[2] /\ Stop(y) = y[1] + y[2]
  BY DEF Stop
<1>1. PICK kind : \E q \in [Slabs -> Seq(Nat)] :
        Layout(mem, pages, free_list, free_objects, live, kind, q)
  BY DEF IInv, Laid
<1>2. PICK q \in [Slabs -> Seq(Nat)] :
        Layout(mem, pages, free_list, free_objects, live, kind, q)
  BY <1>1
<1>3. /\ IsPiece(kind, q, x) \/ IsRun(mem, pages, kind, x)
      /\ IsPiece(kind, q, y) \/ IsRun(mem, pages, kind, y)
      /\ Apart(x, y)
  BY <1>2 DEF Layout, Pieces, Separate
<1>4. ASSUME NEW u \in live, IsPiece(kind, q, u) PROVE Start(u) = u[1]
  BY <1>4, PieceIs DEF Start, InBlock
<1>5. ASSUME NEW u \in live, NEW v \in live, IsPiece(kind, q, u), IsRun(mem, pages, kind, v)
      PROVE  u[1] + u[2] <= Start(v) \/ v[1] + v[2] <= Start(u)
  <2>1. Start(u) = u[1]
    BY <1>4, <1>5
  <2> QED
    BY <1>5, <2>1, PieceAndBlockApart
<1>6. CASE IsPiece(kind, q, x) /\ IsPiece(kind, q, y)
  <2>1. x[1] + x[2] <= y[1] \/ y[1] + y[2] <= x[1]
    BY PiecesApart
  <2> QED
    BY <1>0, <1>4, <1>6, <2>1
<1>7. CASE IsRun(mem, pages, kind, x) /\ IsRun(mem, pages, kind, y)
  <2>1. PICK p \in PageSet, k \in 0..MaxOrder :
           /\ BlockAt(x, p, k) /\ x[1] = p * PageSize + 2
           /\ x[1] + x[2] = p * PageSize + PageSize * 2^k
           /\ Run(p, k) \subseteq PageSet
    BY <1>7, RunPieceIs
  <2>2. PICK s \in PageSet, l \in 0..MaxOrder :
           /\ BlockAt(y, s, l) /\ y[1] = s * PageSize + 2
           /\ y[1] + y[2] = s * PageSize + PageSize * 2^l
           /\ Run(s, l) \subseteq PageSet
    BY <1>7, RunPieceIs
  <2> DEFINE a == p * PageSize
             e == PageSize * 2^k
             b == s * PageSize
             f == PageSize * 2^l
  <2>3. Run(p, k) \intersect Run(s, l) = {}
    BY <1>3, <2>1, <2>2 DEF Apart
  <2>4. a \in Nat /\ e \in Nat /\ (b + f <= a \/ a + e <= b)
    BY <2>1, <2>3, RunProperties
  <2>5. b \in Nat /\ f \in Nat
    BY <2>2, RunProperties
  <2>6. x[1] = a + 2 /\ x[1] + x[2] = a + e /\ y[1] = b + 2 /\ y[1] + y[2] = b + f
    BY <2>1, <2>2
  <2>7. Start(x) = x[1] - 2 /\ Start(y) = y[1] - 2
    BY <2>1, <2>2 DEF Start, InBlock, PAGE_HEADER
  <2> HIDE DEF a, b, e, f
  <2> QED
    BY <1>0, <2>4, <2>5, <2>6, <2>7
<1>8. CASE IsPiece(kind, q, x) /\ IsRun(mem, pages, kind, y)
  BY <1>0, <1>5, <1>8
<1>9. CASE IsRun(mem, pages, kind, x) /\ IsPiece(kind, q, y)
  BY <1>0, <1>5, <1>9
<1> QED
  BY <1>3, <1>6, <1>7, <1>8, <1>9

(* The invariant says so.                                                  *)
LEMMA SpacedKept == IInv => Spaced(live)
<1> SUFFICES ASSUME IInv PROVE Spaced(live)
  OBVIOUS
<1>1. ASSUME NEW x \in live
      PROVE  /\ Start(x) \in Nat /\ Stop(x) \in Nat /\ Start(x) < Stop(x)
             /\ Space(x) \subseteq Words
  BY PieceCounted
<1>2. ASSUME NEW x \in live, NEW y \in live, x # y
      PROVE  Stop(x) <= Start(y) \/ Stop(y) <= Start(x)
  BY <1>2, CountedApart
<1> QED
  BY <1>1, <1>2 DEF Spaced

(* Pieces that are apart are finitely many and hold no more words than     *)
(* there are.                                                              *)
LEMMA TotalIs ==
  ASSUME NEW L, Spaced(L)
  PROVE  /\ IsFiniteSet(L) /\ IsFiniteSet(AllSpace(L))
         /\ Total(L) \in Nat /\ Total(L) < Width
<1> DEFINE z == NumPages * PageSize
           y == (NumPages + 1) * PageSize
<1>1. z \in Nat /\ Width \in Nat /\ Width > z /\ PageSize \in Nat \ {0}
  BY SizesAre, Products, KmallocAssumption
<1>2. y = z + PageSize
  BY SizesAre, Products
<1>3. IsFiniteSet(Words) /\ Cardinality(Words) = z
  <2>1. Words = PageSize..(y - 1)
    BY DEF Words
  <2> HIDE DEF y, z
  <2>2. PageSize \in Int /\ y - 1 \in Int
    BY <1>1, <1>2
  <2>3. /\ IsFiniteSet(PageSize..(y - 1))
        /\ Cardinality(PageSize..(y - 1)) = IF PageSize > y - 1 THEN 0 ELSE y - 1 - PageSize + 1
    BY <2>2, FS_Interval
  <2> QED
    BY <1>1, <1>2, <2>1, <2>3
<1> HIDE DEF y, z
<1>4. AllSpace(L) \subseteq Words
  BY DEF Spaced, AllSpace
<1>5. IsFiniteSet(AllSpace(L)) /\ Total(L) <= z
  BY <1>3, <1>4, FS_Subset DEF Total
<1>6. Total(L) \in Nat
  BY <1>5, FS_CardinalityType DEF Total
<1>7. IsFiniteSet(L)
  <2> DEFINE f == [x \in L |-> Start(x)]
  <2>1. ASSUME NEW x \in L PROVE Start(x) \in Words
    BY DEF Spaced, Space, Words
  <2>2. ASSUME NEW x \in L, NEW u \in L, Start(x) = Start(u) PROVE x = u
    BY <2>2 DEF Spaced
  <2>3. f \in [L -> Words] /\ \A x, u \in L : f[x] = f[u] => x = u
    BY <2>1, <2>2
  <2> HIDE DEF f
  <2>4. f \in Injection(L, Words)
    BY <2>3 DEF Injection, IsInjective
  <2> QED
    BY <1>3, <2>4, FS_Injection
<1> QED
  BY <1>1, <1>5, <1>6, <1>7

(* One more piece adds its words.                                          *)
LEMMA TotalAdds ==
  ASSUME NEW L, NEW x, x \notin L, NEW K, K = L \union {x}, Spaced(K)
  PROVE  Spaced(L) /\ Total(K) = Total(L) + Weight(x) /\ Weight(x) \in Nat
<1>1. Spaced(L)
  BY DEF Spaced
<1>2. IsFiniteSet(AllSpace(L)) /\ Total(L) \in Nat
  BY <1>1, TotalIs
<1>3. AllSpace(K) = AllSpace(L) \union Space(x)
  BY DEF AllSpace
<1>4. /\ Start(x) \in Nat /\ Stop(x) \in Nat /\ Start(x) < Stop(x)
      /\ \A y \in L : y \in K /\ y # x
  BY DEF Spaced
<1>5. ASSUME NEW y \in L PROVE Space(y) \intersect Space(x) = {}
  <2>1. /\ Start(y) \in Nat /\ Stop(y) \in Nat
        /\ Stop(x) <= Start(y) \/ Stop(y) <= Start(x)
    BY <1>4 DEF Spaced
  <2> DEFINE a == Start(x)
             b == Stop(x)
             c == Start(y)
             d == Stop(y)
  <2>2. /\ a \in Nat /\ b \in Nat /\ c \in Nat /\ d \in Nat /\ (b <= c \/ d <= a)
        /\ Space(x) = a..(b - 1) /\ Space(y) = c..(d - 1)
    BY <1>4, <2>1 DEF Space
  <2> HIDE DEF a, b, c, d
  <2> QED
    BY <2>2
<1>6. AllSpace(L) \intersect Space(x) = {}
  BY <1>5 DEF AllSpace
<1>7. IsFiniteSet(Space(x)) /\ Cardinality(Space(x)) = Weight(x) /\ Weight(x) \in Nat
  <2> DEFINE a == Start(x)
             b == Stop(x)
  <2>1. a \in Nat /\ b \in Nat /\ a < b /\ Space(x) = a..(b - 1) /\ Weight(x) = b - a
    BY <1>4 DEF Space, Weight
  <2> HIDE DEF a, b
  <2>2. a \in Int /\ b - 1 \in Int
    BY <2>1
  <2>3. IsFiniteSet(a..(b - 1)) /\ Cardinality(a..(b - 1)) = IF a > b - 1 THEN 0 ELSE b - 1 - a + 1
    BY <2>2, FS_Interval
  <2> QED
    BY <2>1, <2>3
<1>8. Cardinality(AllSpace(L) \union Space(x)) = Total(L) + Weight(x) - Cardinality({})
  BY <1>2, <1>6, <1>7, FS_Union DEF Total
<1>9. Cardinality({}) = 0
  BY FS_EmptySet
<1>10. Total(K) = Total(L) + Weight(x) - 0
  BY <1>3, <1>8, <1>9 DEF Total
<1>11. Total(L) + Weight(x) - 0 = Total(L) + Weight(x)
  BY <1>2, <1>7
<1> QED
  BY <1>1, <1>7, <1>10, <1>11

(* No piece is no word.                                                    *)
LEMMA TotalOfNone == Total({}) = 0
<1>1. AllSpace({}) = {}
  BY DEF AllSpace
<1> QED
  BY <1>1, FS_EmptySet DEF Total

(* A part of pieces that are apart.                                        *)
LEMMA SpacedPart ==
  ASSUME NEW L, NEW K, K \subseteq L, Spaced(L)
  PROVE  Spaced(K)
BY DEF Spaced

\* The order in which pieces are summed up: each is picked once.
Pick(S) == CHOOSE f \in [1..Cardinality(S) -> S] :
             \A i, j \in 1..Cardinality(S) : f[i] = f[j] => i = j

(* It is one to one, and no piece is left out.                             *)
LEMMA PickIs ==
  ASSUME NEW S, IsFiniteSet(S)
  PROVE  /\ Pick(S) \in [1..Cardinality(S) -> S]
         /\ \A i, j \in 1..Cardinality(S) : Pick(S)[i] = Pick(S)[j] => i = j
         /\ \A x \in S : \E i \in 1..Cardinality(S) : Pick(S)[i] = x
<1> DEFINE n == Cardinality(S)
           One(f) == \A i, j \in 1..n : f[i] = f[j] => i = j
           pick == Pick(S)
<1>1. n \in Nat /\ ExistsBijection(1..n, S)
  BY FS_CardinalityType
<1>2. \E f \in [1..n -> S] : One(f)
  <2>1. PICK f : f \in Bijection(1..n, S)
    BY <1>1 DEF ExistsBijection
  <2>2. f \in [1..n -> S] /\ One(f)
    BY <2>1 DEF Bijection, Injection, IsInjective
  <2> QED
    BY <2>2
<1>3. pick = CHOOSE f \in [1..n -> S] : One(f)
  BY DEF Pick
<1> HIDE DEF One, n, pick
<1>4. pick \in [1..n -> S] /\ One(pick)
  BY <1>2, <1>3
<1>5. pick \in Injection(1..n, S)
  BY <1>4 DEF One, Injection, IsInjective
<1>6. Cardinality(1..n) = n
  <2>1. 1 \in Int /\ n \in Int
    BY <1>1
  <2>2. Cardinality(1..n) = IF 1 > n THEN 0 ELSE n - 1 + 1
    BY <2>1, FS_Interval
  <2> QED
    BY <1>1, <2>2
<1>7. pick \in Surjection(1..n, S)
  BY <1>5, <1>6, FS_Injection DEF n
<1>8. \A x \in S : \E i \in 1..n : pick[i] = x
  BY <1>7 DEF Surjection
<1> QED
  BY <1>4, <1>8 DEF One, n, pick

(* The first k pieces picked.                                              *)
LEMMA PickedAdds ==
  ASSUME NEW S, Spaced(S), NEW n \in Nat, NEW pick \in [1..n -> S],
         \A i, j \in 1..n : pick[i] = pick[j] => i = j,
         NEW k \in 1..n
  PROVE  /\ Total({pick[i] : i \in 1..k}) = Total({pick[i] : i \in 1..(k - 1)}) + Weight(pick[k])
         /\ pick[k] \in S
<1> DEFINE K == {pick[i] : i \in 1..k}
           L == {pick[i] : i \in 1..(k - 1)}
<1>1. K \subseteq S /\ pick[k] \in S
  OBVIOUS
<1>2. K = L \union {pick[k]}
  <2>1. 1..k = 1..(k - 1) \union {k}
    OBVIOUS
  <2> QED
    BY <2>1
<1>3. pick[k] \notin L
  OBVIOUS
<1> HIDE DEF K, L
<1>4. Spaced(K)
  BY <1>1, SpacedPart
<1>5. Total(K) = Total(L) + Weight(pick[k])
  BY <1>2, <1>3, <1>4, TotalAdds
<1> QED
  BY <1>1, <1>5 DEF K, L

(* The sum of what is counted for pieces that are apart is the number of   *)
(* their words.                                                            *)
LEMMA SumIs ==
  ASSUME NEW S, Spaced(S), \A x \in S : Counted(x) = Weight(x)
  PROVE  Sum(S) = Total(S)
<1> DEFINE n == Cardinality(S)
           D == 0..n
           pick == CHOOSE f \in [1..n -> S] : \A i, j \in 1..n : f[i] = f[j] => i = j
           Rec(f) == f = [k \in D |-> IF k = 0 THEN 0 ELSE f[k - 1] + Counted(pick[k])]
           sum == CHOOSE f : Rec(f)
<1>1. Sum(S) = sum[n]
  BY DEF Sum
<1>2. IsFiniteSet(S) /\ n \in Nat
  BY TotalIs, FS_CardinalityType
<1>3. /\ pick \in [1..n -> S]
      /\ \A i, j \in 1..n : pick[i] = pick[j] => i = j
      /\ \A x \in S : \E i \in 1..n : pick[i] = x
  <2>1. pick = Pick(S)
    BY DEF Pick
  <2> HIDE DEF pick
  <2> QED
    BY <1>2, <2>1, PickIs
<1> HIDE DEF pick, n
<1> DEFINE P(k) == {pick[i] : i \in 1..k}
           g == [k \in D |-> Total(P(k))]
<1>4. Total(P(0)) = 0
  <2>1. P(0) = {}
    OBVIOUS
  <2> HIDE DEF P
  <2> QED
    BY <2>1, TotalOfNone
<1>5. \A k \in 1..n : Total(P(k)) = Total(P(k - 1)) + Counted(pick[k])
  <2> SUFFICES ASSUME NEW k \in 1..n
               PROVE  Total(P(k)) = Total(P(k - 1)) + Counted(pick[k])
    OBVIOUS
  <2>1. /\ Total(P(k)) = Total(P(k - 1)) + Weight(pick[k])
        /\ pick[k] \in S
    BY <1>2, <1>3, PickedAdds
  <2> QED
    BY <2>1
<1>6. P(n) = S
  <2>1. P(n) \subseteq S
    BY <1>3
  <2>2. S \subseteq P(n)
    BY <1>3
  <2> QED
    BY <2>1, <2>2
<1> HIDE DEF P
<1>7. Rec(g)
  <2>1. ASSUME NEW k \in D
        PROVE  g[k] = IF k = 0 THEN 0 ELSE g[k - 1] + Counted(pick[k])
    <3>1. CASE k = 0
      BY <1>4, <3>1
    <3>2. CASE k # 0
      <4>1. k \in 1..n /\ k - 1 \in D
        BY <1>2, <3>2
      <4>2. g[k] = Total(P(k)) /\ g[k - 1] = Total(P(k - 1))
        BY <4>1
      <4> QED
        BY <1>5, <3>2, <4>1, <4>2
    <3> QED
      BY <3>1, <3>2
  <2>2. g = [k \in D |-> g[k]]
    OBVIOUS
  <2> HIDE DEF g, D
  <2>3. [k \in D |-> g[k]] = [k \in D |-> IF k = 0 THEN 0 ELSE g[k - 1] + Counted(pick[k])]
    BY <2>1
  <2> QED
    BY <2>2, <2>3
<1>8. Rec(sum)
  <2> HIDE DEF Rec, g
  <2> QED
    BY <1>7
<1> HIDE DEF sum
<1>9. \A k \in D : sum[k] = IF k = 0 THEN 0 ELSE sum[k - 1] + Counted(pick[k])
  BY <1>8
<1>10. \A k \in D : sum[k] = Total(P(k))
  <2> DEFINE B == {k \in D : sum[k] # Total(P(k))}
  <2> SUFFICES ASSUME B # {} PROVE FALSE
    OBVIOUS
  <2>1. B \in SUBSET Nat
    OBVIOUS
  <2>2. PICK k \in B : \A j \in B : k <= j
    BY <2>1, Least
  <2>3. k \in D /\ sum[k] # Total(P(k))
    BY <2>2
  <2>4. k # 0
    BY <1>4, <1>9, <2>3
  <2>5. k \in 1..n /\ k - 1 \in D /\ ~(k <= k - 1)
    BY <1>2, <2>3, <2>4
  <2>6. sum[k - 1] = Total(P(k - 1))
    BY <2>2, <2>5
  <2> QED
    BY <1>5, <1>9, <2>3, <2>4, <2>5, <2>6
<1>11. n \in D
  BY <1>2
<1>12. sum[n] = Total(S)
  BY <1>6, <1>10, <1>11
<1> QED
  BY <1>1, <1>12 DEF sum, pick, n

-----------------------------------------------------------------------------
(* The statistics                                                          *)

(* A counter below Width after an addition.                                *)
LEMMA Wraps ==
  \A n \in Nat : n < Width + Width => n % Width = IF n < Width THEN n ELSE n - Width
<1>1. Width \in Nat \ {0}
  BY Wrapped DEF WidthIs
<1>2. ASSUME NEW n \in Nat, NEW w \in Nat \ {0}, n < w + w PROVE n % w = IF n < w THEN n ELSE n - w
  <2>1. CASE n < w
    BY <1>2, <2>1
  <2>2. CASE ~(n < w)
    BY <1>2, <2>2
  <2> QED
    BY <2>1, <2>2
<1> QED
  BY <1>1, <1>2

\* The counters are balanced when t words are in use.
Balanced(a, f, t) == a = f + t \/ a + Width = f + t

Balance == Balanced(total_allocated, total_freed, Total(live))

(* An allocation or a return of w words keeps the balance, also when a     *)
(* counter wraps.                                                          *)
LEMMA BalanceKept ==
  ASSUME NEW a \in Nat, NEW f \in Nat, NEW t \in Nat, NEW w \in Nat, NEW u \in Nat,
         a < Width, f < Width, t < Width, u < Width,
         Balanced(a, f, t)
  PROVE  /\ u = t + w => Balanced((a + w) % Width, f, u)
         /\ t = u + w => Balanced(a, (f + w) % Width, u)
<1>1. Width \in Nat \ {0}
  BY Wrapped DEF WidthIs
<1>2. ASSUME u = t + w PROVE Balanced((a + w) % Width, f, u)
  <2> DEFINE n == a + w
             b == n % Width
  <2>1. n \in Nat /\ n < Width + Width
    BY <1>1, <1>2
  <2> HIDE DEF n
  <2>2. b = IF n < Width THEN n ELSE n - Width
    BY <2>1, Wraps
  <2>3. n = a + w
    BY DEF n
  <2> HIDE DEF b
  <2>4. b = f + u \/ b + Width = f + u
    BY <1>1, <1>2, <2>2, <2>3 DEF Balanced
  <2> QED
    BY <2>4 DEF Balanced, b, n
<1>3. ASSUME t = u + w PROVE Balanced(a, (f + w) % Width, u)
  <2> DEFINE n == f + w
             b == n % Width
  <2>1. n \in Nat /\ n < Width + Width
    BY <1>1, <1>3
  <2> HIDE DEF n
  <2>2. b = IF n < Width THEN n ELSE n - Width
    BY <2>1, Wraps
  <2>3. n = f + w
    BY DEF n
  <2> HIDE DEF b
  <2>4. a = b + u \/ a + Width = b + u
    BY <1>1, <1>3, <2>2, <2>3 DEF Balanced
  <2> QED
    BY <2>4 DEF Balanced, b, n
<1> QED
  BY <1>2, <1>3

(* What the balance says of the difference.                                *)
LEMMA BalanceTells ==
  ASSUME NEW a \in Nat, NEW f \in Nat, NEW t \in Nat, a < Width, f < Width, t < Width,
         Balanced(a, f, t)
  PROVE  (a + Width - f) % Width = t
<1>1. Width \in Nat \ {0}
  BY Wrapped DEF WidthIs
<1> DEFINE n == a + Width - f
<1>2. n \in Nat /\ n < Width + Width /\ (n = t \/ n = t + Width)
  BY <1>1 DEF Balanced
<1> HIDE DEF n
<1>3. n % Width = IF n < Width THEN n ELSE n - Width
  BY <1>2, Wraps
<1>4. n % Width = t
  BY <1>1, <1>2, <1>3
<1> QED
  BY <1>4 DEF n

(* An object in use begins after a header that is on no list.              *)
LEMMA PieceBegins ==
  ASSUME NEW kind, NEW q, NEW x, IsPiece(kind, q, x)
  PROVE  \E c \in Slabs : \E a \in Nat :
           /\ x[1] = a + OBJ_HEADER /\ IsObj(kind, c, a)
           /\ \A i \in 1..Len(q[c]) : q[c][i] # a
BY DEF IsPiece

(* No piece in use lies on a page the allocator has.                       *)
LEMMA PieceOffFreePages ==
  ASSUME IInv, NEW x \in live
  PROVE  x[1] \div PageSize \notin pages
<1>1. PICK kind : \E q \in [Slabs -> Seq(Nat)] :
        Layout(mem, pages, free_list, free_objects, live, kind, q)
  BY DEF IInv, Laid
<1>2. PICK q \in [Slabs -> Seq(Nat)] :
        Layout(mem, pages, free_list, free_objects, live, kind, q)
  BY <1>1
<1>3. Cut(pages, kind) /\ (IsPiece(kind, q, x) \/ IsRun(mem, pages, kind, x))
  BY <1>2 DEF Layout, Pieces
<1>4. PageSize \in Nat \ {0} /\ PageSize >= 4 /\ \A p \in PageSet : p \in Nat /\ p * PageSize \in Nat
  BY SizesAre, Products
<1>5. CASE IsPiece(kind, q, x)
  <2>1. PICK c \in Slabs, a \in Nat :
          /\ x[1] = a + OBJ_HEADER /\ IsObj(kind, c, a)
          /\ \A i \in 1..Len(q[c]) : q[c][i] # a
    BY <1>5, PieceBegins
  <2>2. PICK p \in PageSet : /\ kind[p] = c /\ p * PageSize <= a
                             /\ a + Stride(c) <= p * PageSize + PageSize
    BY <2>1, ObjectIs
  <2>3. Stride(c) \in Nat /\ SlabSizes[c] \in Nat \ {0} /\ Stride(c) = SlabSizes[c] + 3 /\ c # 0
    BY SizesAre DEF Slabs
  <2> DEFINE z == p * PageSize
  <2>4. z \in Nat /\ z <= a /\ a + Stride(c) <= z + PageSize
    BY <1>4, <2>2
  <2> HIDE DEF z
  <2>5. a + 3 \in Nat /\ z <= a + 3 /\ a + 3 < z + PageSize
    BY <1>4, <2>3, <2>4
  <2>6. (a + 3) \div PageSize = p
    BY <1>4, <2>5, PagesApart DEF z
  <2>7. x[1] \div PageSize = p
    BY <2>1, <2>6 DEF OBJ_HEADER
  <2> QED
    BY <1>3, <2>2, <2>3, <2>7 DEF Cut
<1>6. CASE IsRun(mem, pages, kind, x)
  <2>1. PICK p \in PageSet, k \in 0..MaxOrder :
          x[1] = p * PageSize + 2 /\ Run(p, k) \subseteq PageSet \ pages /\ Run(p, k) \subseteq PageSet
    BY <1>6, RunPieceIs
  <2>2. p \in Run(p, k)
    BY <2>1, RunProperties
  <2> DEFINE z == p * PageSize
  <2>3. z \in Nat /\ x[1] = z + 2
    BY <1>4, <2>1
  <2> HIDE DEF z
  <2>4. z + 2 \in Nat /\ z <= z + 2 /\ z + 2 < z + PageSize
    BY <1>4, <2>3
  <2>5. (z + 2) \div PageSize = p
    BY <1>4, <2>4, PagesApart DEF z
  <2> QED
    BY <2>1, <2>2, <2>3, <2>5
<1> QED
  BY <1>3, <1>5, <1>6

(* Nor does one begin at the object a list would give next.               *)
LEMMA PieceOffHeads ==
  ASSUME IInv, NEW x \in live, NEW c \in Slabs, free_list[c] # 0
  PROVE  x[1] # free_list[c] + OBJ_HEADER
<1>1. PICK kind : \E q \in [Slabs -> Seq(Nat)] :
        Layout(mem, pages, free_list, free_objects, live, kind, q)
  BY DEF IInv, Laid
<1>2. PICK q \in [Slabs -> Seq(Nat)] :
        Layout(mem, pages, free_list, free_objects, live, kind, q)
  BY <1>1
<1>3. /\ IsPiece(kind, q, x) \/ IsRun(mem, pages, kind, x)
      /\ q[c] \in Seq(Nat) /\ IsList(mem, kind, c, free_list[c], q[c])
  BY <1>2 DEF Layout, Pieces, Lists
<1> DEFINE h == free_list[c]
<1>4. IsObj(kind, c, h) /\ \E i \in 1..Len(q[c]) : q[c][i] = h
  <2> DEFINE s == q[c]
  <2>1. s \in Seq(Nat) /\ IsList(mem, kind, c, h, s) /\ h # 0
    BY <1>3
  <2> HIDE DEF s, h
  <2>2. s # <<>> /\ h = s[1]
    BY <2>1 DEF IsList
  <2>3. 1 \in 1..Len(s)
    BY <2>1, <2>2
  <2>4. \A i \in 1..Len(s) : IsObj(kind, c, s[i])
    BY <2>1 DEF IsList
  <2>5. IsObj(kind, c, h)
    BY <2>2, <2>3, <2>4
  <2> QED
    BY <2>2, <2>3, <2>5 DEF s
<1>5. h \in Nat
  BY <1>4, ObjectIs
<1> HIDE DEF h
<1> SUFFICES ASSUME x[1] = h + OBJ_HEADER PROVE FALSE
  BY DEF h
<1>6. CASE IsPiece(kind, q, x)
  <2>1. PICK d \in Slabs, b \in Nat :
          /\ x[1] = b + OBJ_HEADER /\ IsObj(kind, d, b)
          /\ \A i \in 1..Len(q[d]) : q[d][i] # b
    BY <1>6, PieceBegins
  <2>2. h = b
    BY <1>5, <2>1 DEF OBJ_HEADER
  <2>3. c = d
    BY <1>4, <2>1, <2>2, ObjectsApart
  <2> QED
    BY <1>4, <2>1, <2>2, <2>3
<1>7. CASE IsRun(mem, pages, kind, x)
  <2>1. PICK p \in PageSet, k \in 0..MaxOrder : BlockAt(x, p, k)
    BY <1>7 DEF IsRun
  <2> QED
    BY <1>4, <2>1, ObjectNoBlock DEF BlockAt
<1> QED
  BY <1>3, <1>6, <1>7

(* A piece that begins where an object or a block does is counted with the *)
(* words of the object or the block.                                       *)
LEMMA ObjectWeight ==
  ASSUME NEW kind, NEW c \in Slabs, NEW a, IsObj(kind, c, a), NEW x,
         x[1] = a + OBJ_HEADER, x[2] = SlabSizes[c]
  PROVE  Weight(x) = SlabSizes[c]
<1>1. ~InBlock(x)
  BY ObjectNoBlock DEF InBlock, BlockAt
<1>2. a \in Nat /\ SlabSizes[c] \in Nat
  BY ObjectIs, SizesAre
<1>3. Start(x) = a + 3 /\ Stop(x) = a + 3 + SlabSizes[c]
  BY <1>1 DEF Start, Stop, OBJ_HEADER
<1> QED
  BY <1>2, <1>3 DEF Weight

(* The header of a block is counted with it.                               *)
LEMMA BlockWeight ==
  ASSUME NEW p \in PageSet, NEW k \in 0..MaxOrder, Run(p, k) \subseteq PageSet,
         NEW x, BlockAt(x, p, k)
  PROVE  Weight(x) = PageSize * 2^k
<1> DEFINE a == p * PageSize
           e == PageSize * 2^k
<1>1. a \in Nat /\ e \in Nat
  BY RunProperties
<1>2. InBlock(x) /\ x[1] = a + 2 /\ x[2] = e - 2
  BY DEF InBlock, BlockAt, PAGE_HEADER
<1> HIDE DEF a, e
<1>3. Start(x) = a /\ Stop(x) = a + e
  BY <1>1, <1>2 DEF Start, Stop, PAGE_HEADER
<1>4. Weight(x) = e
  BY <1>1, <1>3 DEF Weight
<1> QED
  BY <1>4 DEF e

(* The counters are bounded.                                               *)
LEMMA CountersAre ==
  ASSUME Types
  PROVE  /\ total_allocated \in Nat /\ total_allocated < Width
         /\ total_freed \in Nat /\ total_freed < Width
<1>1. Width \in Nat
  BY KmallocAssumption
<1> QED
  BY <1>1 DEF Types

(* A new piece, or the return of one, with the words it is counted with.   *)
LEMMA AllocBalanced ==
  ASSUME Types, Balance, Spaced(live'), NEW x, x \notin live, live' = live \union {x},
         total_allocated' = (total_allocated + Weight(x)) % Width, total_freed' = total_freed
  PROVE  Balance'
<1> DEFINE L == live'
           u == Total(L)
           t == Total(live)
           w == Weight(x)
<1>1. Spaced(live) /\ u = t + w /\ w \in Nat
  BY TotalAdds
<1>2. u \in Nat /\ u < Width
  BY TotalIs
<1>3. t \in Nat /\ t < Width
  BY <1>1, TotalIs
<1>4. Balanced(total_allocated, total_freed, t)
  BY DEF Balance
<1> HIDE DEF u, t, w
<1>5. Balanced((total_allocated + w) % Width, total_freed, u)
  BY <1>1, <1>2, <1>3, <1>4, CountersAre, BalanceKept
<1> QED
  BY <1>5 DEF Balance, u, w, L

(* The same for a return.                                                  *)
LEMMA FreeBalanced ==
  ASSUME Types, Balance, Spaced(live), NEW x \in live, live' = live \ {x},
         total_freed' = (total_freed + Weight(x)) % Width, total_allocated' = total_allocated
  PROVE  Balance'
<1> DEFINE L == live'
           u == Total(L)
           t == Total(live)
           w == Weight(x)
<1>1. x \notin L /\ live = L \union {x}
  OBVIOUS
<1>2. Spaced(L) /\ t = u + w /\ w \in Nat
  BY <1>1, TotalAdds
<1>3. u \in Nat /\ u < Width
  BY <1>2, TotalIs
<1>4. t \in Nat /\ t < Width
  BY TotalIs
<1>5. Balanced(total_allocated, total_freed, t)
  BY DEF Balance
<1> HIDE DEF u, t, w
<1>6. Balanced(total_allocated, (total_freed + w) % Width, u)
  BY <1>2, <1>3, <1>4, <1>5, CountersAre, BalanceKept
<1> QED
  BY <1>6 DEF Balance, u, w, L

(* What an allocation counts, and that the piece is a new one.             *)
LEMMA TakeObjectBalanced ==
  ASSUME IInv, Balance, Spaced(live'), NEW c \in Slabs, NEW r, TakeObject(c, r)
  PROVE  Balance'
<1> DEFINE x == <<free_list[c] + OBJ_HEADER, SlabSizes[c], r>>
<1>1. /\ free_list[c] # 0 /\ live' = live \union {x} /\ total_freed' = total_freed
      /\ total_allocated' = (total_allocated + SlabSizes[c]) % Width
  BY DEF TakeObject, Hand
<1>2. x[1] = free_list[c] + OBJ_HEADER /\ x[2] = SlabSizes[c]
  OBVIOUS
<1> HIDE DEF x
<1>3. x \notin live
  BY <1>1, <1>2, PieceOffHeads
<1>4. PICK kind : IsObj(kind, c, free_list[c])
  <2>1. PICK kind : \E q \in [Slabs -> Seq(Nat)] :
          Layout(mem, pages, free_list, free_objects, live, kind, q)
    BY DEF IInv, Laid
  <2>2. PICK q \in [Slabs -> Seq(Nat)] :
          Layout(mem, pages, free_list, free_objects, live, kind, q)
    BY <2>1
  <2> DEFINE s == q[c]
  <2>3. s \in Seq(Nat) /\ IsList(mem, kind, c, free_list[c], s)
    BY <2>2 DEF Layout, Lists
  <2> HIDE DEF s
  <2>4. s # <<>> /\ free_list[c] = s[1]
    BY <1>1, <2>3 DEF IsList
  <2>5. 1 \in 1..Len(s)
    BY <2>3, <2>4
  <2>6. IsObj(kind, c, free_list[c])
    BY <2>3, <2>4, <2>5 DEF IsList
  <2> QED
    BY <2>6
<1>5. Weight(x) = SlabSizes[c]
  BY <1>2, <1>4, ObjectWeight
<1> QED
  BY <1>1, <1>3, <1>5, AllocBalanced DEF IInv

(* The object given from a new page lies on a page no piece was on.        *)
LEMMA GrowBalanced ==
  ASSUME IInv, Balance, Spaced(live'), NEW c \in Slabs, NEW r, Grow(c, r)
  PROVE  Balance'
<1> DEFINE i == PerPage(c) - 1
<1>1. PICK p \in pages :
        /\ total_allocated' = (total_allocated + SlabSizes[c]) % Width
        /\ total_freed' = total_freed
        /\ live' = live \union {<<Obj(c, p, i) + OBJ_HEADER, SlabSizes[c], r>>}
  BY GrowIs DEF IInv
<1> DEFINE a == Obj(c, p, i)
           x == <<a + OBJ_HEADER, SlabSizes[c], r>>
           kind == [t \in PageSet |-> c]
<1>2. x[1] = a + OBJ_HEADER /\ x[2] = SlabSizes[c] /\ live' = live \union {x}
  BY <1>1
<1>3. IsObj(kind, c, a)
  <2>1. i \in 0..(PerPage(c) - 1)
    BY SizesAre
  <2>2. p \in PageSet /\ kind[p] = c
    BY DEF IInv, Types
  <2> QED
    BY <2>1, <2>2 DEF IsObj
<1>4. a \in Nat /\ a + 3 \in Nat /\ (a + 3) \div PageSize = p
  <2>1. p \in PageSet /\ p \in Nat
    BY SizesAre DEF IInv, Types
  <2>2. /\ Stride(c) \in Nat /\ SlabSizes[c] \in Nat \ {0} /\ Stride(c) = SlabSizes[c] + 3
        /\ PageSize \in Nat /\ PerPage(c) \in Nat \ {0} /\ PerPage(c) * Stride(c) <= PageSize
    BY SizesAre
  <2> DEFINE z == p * PageSize
             y == i * Stride(c)
  <2>3. z \in Nat
    BY <2>1, <2>2, Products
  <2>4. y \in Nat /\ y + Stride(c) <= PageSize
    <3> DEFINE n == PerPage(c)
               d == Stride(c)
    <3>1. i \in Nat /\ n = i + 1
      BY <2>2
    <3>2. n * d = i * d + 1 * d
      <4>1. i \in Nat /\ 1 \in Nat /\ d \in Nat
        BY <2>2, <3>1
      <4> HIDE DEF i, d, n
      <4>2. (i + 1) * d = i * d + 1 * d
        BY <4>1, Products
      <4> QED
        BY <3>1, <4>2
    <3>3. i * d \in Nat /\ 1 * d = d
      BY <2>2, <3>1, Products
    <3> QED
      BY <2>2, <3>2, <3>3
  <2>5. a = z + y
    BY DEF Obj
  <2> HIDE DEF z, y, a
  <2>6. a \in Nat /\ a + 3 \in Nat /\ z <= a + 3 /\ a + 3 < z + PageSize
    <3>1. PageSize \in Nat /\ y \in Nat /\ y + 3 < PageSize
      <4> DEFINE d == Stride(c)
      <4>1. d \in Nat /\ d > 3 /\ y + d <= PageSize /\ PageSize \in Nat /\ y \in Nat
        BY <2>2, <2>4
      <4> HIDE DEF d
      <4> QED
        BY <4>1
    <3> QED
      BY <2>3, <2>5, <3>1
  <2>7. (a + 3) \div PageSize = p
    BY <2>1, <2>6, PagesApart DEF z
  <2> QED
    BY <2>6, <2>7
<1> HIDE DEF x, kind, a
<1>5. x \notin live
  <2>1. x[1] \div PageSize = p
    BY <1>2, <1>4 DEF OBJ_HEADER
  <2> QED
    BY <2>1, PieceOffFreePages
<1>6. Weight(x) = SlabSizes[c]
  BY <1>2, <1>3, ObjectWeight
<1> QED
  BY <1>1, <1>2, <1>5, <1>6, AllocBalanced DEF IInv

(* So does a block of pages.                                               *)
LEMMA TakePagesBalanced ==
  ASSUME IInv, Balance, Spaced(live'), NEW n \in Requests, TakePages(n)
  PROVE  Balance'
<1> DEFINE k == OrderFor(n)
<1>1. k \in 0..MaxOrder
  <2>1. OrderFor(n) <= MaxOrder
    BY DEF TakePages
  <2> QED
    BY <2>1, OrderForIs
<1>2. PICK p \in pages :
        /\ p..(p + 2^k - 1) \subseteq pages
        /\ total_allocated' = (total_allocated + PageSize * 2^k) % Width
        /\ live' = live \union {<<p * PageSize + PAGE_HEADER, PageSize * 2^k - PAGE_HEADER, n>>}
  BY DEF TakePages
<1>3. total_freed' = total_freed
  BY DEF TakePages
<1> HIDE DEF k
<1> DEFINE x == <<p * PageSize + PAGE_HEADER, PageSize * 2^k - PAGE_HEADER, n>>
<1>4. /\ x[1] = p * PageSize + 2 /\ BlockAt(x, p, k)
      /\ live' = live \union {x}
  BY <1>2 DEF BlockAt, PAGE_HEADER
<1>5. p \in PageSet /\ Run(p, k) \subseteq PageSet
  BY <1>2 DEF IInv, Types, Run
<1> HIDE DEF x
<1>6. x \notin live
  <2> DEFINE z == p * PageSize
  <2>1. p \in Nat /\ z \in Nat /\ PageSize \in Nat /\ PageSize >= 4
    BY <1>5, SizesAre, Products
  <2> HIDE DEF z
  <2>2. z + 2 \in Nat /\ z <= z + 2 /\ z + 2 < z + PageSize
    BY <2>1
  <2>3. (z + 2) \div PageSize = p
    BY <2>1, <2>2, PagesApart DEF z
  <2>4. x[1] \div PageSize = p
    BY <1>4, <2>3 DEF z
  <2> QED
    BY <2>4, PieceOffFreePages
<1>7. Weight(x) = PageSize * 2^k
  BY <1>1, <1>4, <1>5, BlockWeight
<1> QED
  BY <1>2, <1>3, <1>4, <1>6, <1>7, AllocBalanced DEF IInv

(* What a return counts.                                                   *)
LEMMA FreeBlockBalanced ==
  ASSUME IInv, Balance, Spaced(live), NEW x \in live, FreeBlock(x)
  PROVE  Balance'
<1>1. PICK kind : \E q \in [Slabs -> Seq(Nat)] :
        Layout(mem, pages, free_list, free_objects, live, kind, q)
  BY DEF IInv, Laid
<1>2. PICK q \in [Slabs -> Seq(Nat)] :
        Layout(mem, pages, free_list, free_objects, live, kind, q)
  BY <1>1
<1>3. PICK p \in PageSet, k \in 0..MaxOrder :
        /\ BlockAt(x, p, k) /\ Run(p, k) \subseteq PageSet /\ live' = live \ {x}
        /\ total_freed' = (total_freed + PageSize * 2^k) % Width
  BY <1>2, FreeBlockIs
<1>4. Weight(x) = PageSize * 2^k
  BY <1>3, BlockWeight
<1>5. total_allocated' = total_allocated
  BY DEF FreeBlock
<1> QED
  BY <1>3, <1>4, <1>5, FreeBalanced DEF IInv

(* The size in the header of an object is the one that was counted.        *)
LEMMA FreeObjectBalanced ==
  ASSUME IInv, Balance, Spaced(live), NEW x \in live, FreeObject(x)
  PROVE  Balance'
<1>1. PICK kind : \E q \in [Slabs -> Seq(Nat)] :
        Layout(mem, pages, free_list, free_objects, live, kind, q)
  BY DEF IInv, Laid
<1>2. PICK q \in [Slabs -> Seq(Nat)] :
        Layout(mem, pages, free_list, free_objects, live, kind, q)
  BY <1>1
<1>3. PICK c \in Slabs, a \in Nat :
        /\ x[1] = a + OBJ_HEADER /\ IsObj(kind, c, a) /\ live' = live \ {x}
        /\ total_freed' = (total_freed + SlabSizes[c]) % Width
  BY <1>2, FreeObjectIs
<1>4. x[2] = SlabSizes[c]
  <2>1. ~IsBlock(x[1])
    BY DEF FreeObject
  <2>2. Headers(mem, kind) /\ (IsPiece(kind, q, x) \/ IsRun(mem, pages, kind, x))
    BY <1>2 DEF Layout, Pieces
  <2>3. IsPiece(kind, q, x)
    BY <2>1, <2>2, KindTold
  <2>4. PICK d \in Slabs, b \in Nat :
          x[1] = b + 3 /\ x[2] = SlabSizes[d] /\ IsObj(kind, d, b)
    BY <2>3, PieceIs
  <2>5. a = b
    BY <1>3, <2>4 DEF OBJ_HEADER
  <2>6. c = d
    BY <1>3, <2>4, <2>5, ObjectsApart
  <2> QED
    BY <2>4, <2>6
<1>5. Weight(x) = SlabSizes[c]
  BY <1>3, <1>4, ObjectWeight
<1>6. total_allocated' = total_allocated
  BY DEF FreeObject
<1> QED
  BY <1>3, <1>5, <1>6, FreeBalanced DEF IInv

(* The difference of the two counters is what callers hold, even when the  *)
(* counters have wrapped, as long as the words of all pieces fit a counter *)
(* (memory is smaller than that): kmalloc() and kfree() count the same     *)
(* words for a piece, although kfree() learns of them from the header.     *)
THEOREM StatsCorrect == Spec => []StatsExact
<1>1. Init => Balance
  <2> SUFFICES ASSUME Init PROVE Balance
    OBVIOUS
  <2>1. total_allocated = 0 /\ total_freed = 0 /\ Total(live) = 0
    BY TotalOfNone DEF Init
  <2> QED
    BY <2>1 DEF Balance, Balanced
<1>2. IInv /\ Spaced(live)' /\ Balance /\ [Next]_vars => Balance'
  <2> SUFFICES ASSUME IInv, Spaced(live'), Balance, [Next]_vars PROVE Balance'
    OBVIOUS
  <2>1. ASSUME NEW n \in Requests, TakePages(n) PROVE Balance'
    BY <2>1, TakePagesBalanced
  <2>2. ASSUME NEW n \in Requests, NEW c \in Slabs, TakeObject(c, n) PROVE Balance'
    BY <2>2, TakeObjectBalanced
  <2>3. ASSUME NEW n \in Requests, NEW c \in Slabs, Grow(c, n) PROVE Balance'
    BY <2>3, GrowBalanced
  <2>4. Spaced(live)
    BY SpacedKept
  <2>5. ASSUME NEW x \in live, FreeBlock(x) PROVE Balance'
    BY <2>4, <2>5, FreeBlockBalanced
  <2>6. ASSUME NEW x \in live, FreeObject(x) PROVE Balance'
    BY <2>4, <2>6, FreeObjectBalanced
  <2>7. ASSUME total_allocated' = total_allocated, total_freed' = total_freed, live' = live
        PROVE  Balance'
    BY <2>7 DEF Balance
  <2>8. ASSUME NEW x \in live, Use(x) PROVE Balance'
    BY <2>7, <2>8 DEF Use, stats
  <2>9. CASE UNCHANGED vars
    BY <2>7, <2>9 DEF vars, stats
  <2> QED
    BY <2>1, <2>2, <2>3, <2>5, <2>6, <2>8, <2>9 DEF Next, Kmalloc
<1>3. IInv /\ Balance => StatsExact
  <2> SUFFICES ASSUME IInv, Balance PROVE StatsExact
    OBVIOUS
  <2>1. Spaced(live)
    BY SpacedKept
  <2>2. \A x \in live : Counted(x) = Weight(x)
    BY PieceCounted
  <2>3. Sum(live) = Total(live)
    BY <2>1, <2>2, SumIs
  <2>4. Total(live) \in Nat /\ Total(live) < Width
    BY <2>1, TotalIs
  <2>5. Types
    BY DEF IInv
  <2>6. (total_allocated + Width - total_freed) % Width = Total(live)
    BY <2>4, <2>5, CountersAre, BalanceTells DEF Balance
  <2> QED
    BY <2>3, <2>6 DEF StatsExact
<1> QED
  BY <1>1, <1>2, <1>3, SpacedKept, IInvCorrect, PTL DEF Spec
=============================================================================
