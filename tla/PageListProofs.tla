---------------------------- MODULE PageListProofs ----------------------------
(***************************************************************************)
(* What the operators of PageList return, for lists of any length: the     *)
(* lemmas the proofs about the allocator (PmmProofs) and about its         *)
(* interleavings (CreationProofs) cite.                                    *)
(***************************************************************************)
EXTENDS PageList, SequenceTheorems, FiniteSetTheorems, WellFoundedInduction, TLAPS

(* Counting the places up to one gives every number from 1 on exactly      *)
(* once: the n-th page the unlinking loop leaves in place exists and is    *)
(* unique.                                                                 *)
LEMMA RankBijective ==
  ASSUME NEW K \in SUBSET Nat, IsFiniteSet(K)
  PROVE  /\ \A i \in K : Rank(K, i) \in 1..Cardinality(K)
         /\ \A i, j \in K : Rank(K, i) = Rank(K, j) => i = j
         /\ \A n \in 1..Cardinality(K) : \E i \in K : Rank(K, i) = n
<1> DEFINE upTo(i) == {j \in K : j <= i}
<1>1. \A i \in K : IsFiniteSet(upTo(i)) /\ Cardinality(upTo(i)) \in Nat
                   /\ Cardinality(upTo(i)) <= Cardinality(K)
  <2> TAKE i \in K
  <2>1. upTo(i) \in SUBSET K
    OBVIOUS
  <2> HIDE DEF upTo
  <2> QED
    BY <2>1, FS_Subset, FS_CardinalityType
<1>2. \A i \in K : Rank(K, i) \in 1..Cardinality(K)
  <2> TAKE i \in K
  <2>1. i \in upTo(i)
    OBVIOUS
  <2> HIDE DEF upTo
  <2>2. Cardinality(upTo(i)) # 0
    BY <2>1, <1>1, FS_EmptySet
  <2>3. Cardinality(K) \in Nat
    BY FS_CardinalityType
  <2>4. Cardinality(upTo(i)) \in 1..Cardinality(K)
    BY <1>1, <2>2, <2>3
  <2> QED
    BY <2>4 DEF Rank, upTo
<1>3. ASSUME NEW i \in K, NEW j \in K, i < j
      PROVE  Rank(K, i) # Rank(K, j)
  <2>6. \A x \in K : x <= i => x <= j
    <3> TAKE x \in K
    <3>1. x \in Nat /\ i \in Nat /\ j \in Nat
      OBVIOUS
    <3> QED
      BY <3>1, <1>3
  <2>1. upTo(i) \in SUBSET upTo(j)
    BY <2>6
  <2>5. i \in Nat /\ j \in Nat
    OBVIOUS
  <2>2. j <= j /\ ~(j <= i)
    BY <1>3, <2>5
  <2>4. j \in upTo(j) /\ j \notin upTo(i)
    BY <2>2
  <2> HIDE DEF upTo
  <2>3. Cardinality(upTo(i)) # Cardinality(upTo(j))
    BY <1>1, <2>1, <2>4, FS_Subset
  <2> QED
    BY <2>3 DEF Rank, upTo
<1>4. \A i, j \in K : Rank(K, i) = Rank(K, j) => i = j
  <2> SUFFICES ASSUME NEW i \in K, NEW j \in K, i # j
               PROVE  Rank(K, i) # Rank(K, j)
    OBVIOUS
  <2>1. i < j \/ j < i
    OBVIOUS
  <2> QED
    BY <1>3, <2>1
<1>5. \A n \in 1..Cardinality(K) : \E i \in K : Rank(K, i) = n
  <2> DEFINE f == [i \in K |-> Rank(K, i)]
             T == 1..Cardinality(K)
  <2>1. Cardinality(K) \in Nat
    BY FS_CardinalityType
  <2>2. f \in [K -> T]
    BY <1>2
  <2>3. \A i, j \in K : f[i] = f[j] => i = j
    BY <1>4
  <2>4. IsFiniteSet(T) /\ Cardinality(T) = Cardinality(K)
    BY <2>1, FS_Interval
  <2> HIDE DEF f, T
  <2>5. f \in Injection(K, T)
    BY <2>2, <2>3 DEF Injection, IsInjective
  <2>6. f \in Surjection(K, T)
    BY <2>4, <2>5, FS_Injection
  <2>7. \A n \in T : \E i \in K : f[i] = n
    BY <2>6 DEF Surjection
  <2> QED
    BY <2>7 DEF f, T
<1> QED
  BY <1>2, <1>4, <1>5

(* The n-th place is one of the places, and different n name different     *)
(* ones.                                                                   *)
LEMMA NthProperties ==
  ASSUME NEW K \in SUBSET Nat, IsFiniteSet(K)
  PROVE  /\ \A n \in 1..Cardinality(K) : Nth(K, n) \in K /\ Rank(K, Nth(K, n)) = n
         /\ \A i \in K : \E n \in 1..Cardinality(K) : Nth(K, n) = i
<1>1. \A n \in 1..Cardinality(K) : Nth(K, n) \in K /\ Rank(K, Nth(K, n)) = n
  BY RankBijective DEF Nth
<1>2. \A i \in K : \E n \in 1..Cardinality(K) : Nth(K, n) = i
  <2> TAKE i \in K
  <2>1. Rank(K, i) \in 1..Cardinality(K)
    BY RankBijective
  <2> DEFINE r == Rank(K, i)
  <2>2. Nth(K, r) \in K /\ Rank(K, Nth(K, r)) = Rank(K, i)
    BY <1>1, <2>1
  <2>4. \A a, b \in K : Rank(K, a) = Rank(K, b) => a = b
    BY RankBijective
  <2>3. Nth(K, r) = i
    BY <2>2, <2>4
  <2> QED
    BY <2>1, <2>3
<1> QED
  BY <1>1, <1>2

(* Unlinking the pages of B (alloc_pages() for an order above 0, and the   *)
(* walk of an interrupted one): a list of the same pages without B, each   *)
(* still linked once if it was.                                            *)
LEMMA WithoutProperties ==
  ASSUME NEW S, NEW list \in Seq(S), NEW B
  PROVE  /\ Without(list, B) \in Seq(S)
         /\ Len(Without(list, B)) = Cardinality(Kept(list, B))
         /\ Entries(Without(list, B)) = Entries(list) \ B
         /\ Distinct(list) => Distinct(Without(list, B))
<1> DEFINE K == Kept(list, B)
           w == Without(list, B)
<1>1. Len(list) \in Nat
  BY LenProperties
<1>2. K \in SUBSET (1..Len(list)) /\ K \in SUBSET Nat
  BY <1>1 DEF Kept
<1>3. IsFiniteSet(K) /\ Cardinality(K) \in Nat
  <2>1. IsFiniteSet(1..Len(list))
    BY <1>1, FS_Interval
  <2> HIDE DEF K
  <2> QED
    BY <2>1, <1>2, FS_Subset, FS_CardinalityType
<1>4. \A i \in K : i \in 1..Len(list) /\ list[i] \in S /\ list[i] \notin B
  BY ElementOfSeq DEF Kept
<1>5. /\ \A n \in 1..Cardinality(K) : Nth(K, n) \in K /\ Rank(K, Nth(K, n)) = n
      /\ \A i \in K : \E n \in 1..Cardinality(K) : Nth(K, n) = i
  <2> HIDE DEF K
  <2> QED
    BY <1>2, <1>3, NthProperties
<1>6. w = [n \in 1..Cardinality(K) |-> list[Nth(K, n)]]
  BY DEF Without
<1>7. w \in [1..Cardinality(K) -> S]
  <2> HIDE DEF w, K
  <2> QED
    BY <1>6, <1>5, <1>4
<1>8. w \in Seq(S) /\ Len(w) = Cardinality(K)
  <2> HIDE DEF w, K
  <2>1. w \in Seq(S)
    BY <1>3, <1>7, SeqDef
  <2>2. DOMAIN w = 1..Len(w) /\ Len(w) \in Nat
    BY <2>1, LenProperties
  <2>3. DOMAIN w = 1..Cardinality(K)
    BY <1>7
  <2> QED
    BY <2>1, <2>2, <2>3, <1>3
<1>9. Entries(w) = Entries(list) \ B
  <2>1. \A x \in Entries(w) : x \in Entries(list) \ B
    <3> HIDE DEF w, K
    <3> QED
      BY <1>4, <1>5, <1>6, <1>8 DEF Entries
  <2>2. ASSUME NEW x \in Entries(list) \ B
        PROVE  x \in Entries(w)
    <3>1. PICK i \in 1..Len(list) : list[i] = x
      BY DEF Entries
    <3>2. i \in K
      BY <3>1 DEF Kept
    <3> HIDE DEF w, K
    <3>3. PICK n \in 1..Cardinality(K) : Nth(K, n) = i
      BY <3>2, <1>5
    <3>4. w[n] = x
      BY <3>1, <3>3, <1>6
    <3> QED
      BY <3>4, <1>8 DEF Entries
  <2> QED
    BY <2>1, <2>2
<1>10. ASSUME Distinct(list)
       PROVE  Distinct(w)
  <2> HIDE DEF w, K
  <2> SUFFICES ASSUME NEW m \in 1..Len(w), NEW n \in 1..Len(w), w[m] = w[n]
               PROVE  m = n
    BY DEF Distinct
  <2>1. list[Nth(K, m)] = list[Nth(K, n)]
    BY <1>6, <1>8
  <2>2. Nth(K, m) = Nth(K, n)
    BY <2>1, <1>4, <1>5, <1>8, <1>10 DEF Distinct
  <2> QED
    BY <2>2, <1>5, <1>8
<1> QED
  BY <1>8, <1>9, <1>10

(* The pages of a list are what its type says.                             *)
LEMMA EntriesType ==
  ASSUME NEW S, NEW list \in Seq(S)
  PROVE  Entries(list) \subseteq S
<1>1. \A i \in 1..Len(list) : list[i] \in S
  BY ElementOfSeq
<1> QED
  BY <1>1 DEF Entries

(* The length of a list without repetition is the number of its pages.     *)
LEMMA DistinctLength ==
  ASSUME NEW S, NEW list \in Seq(S), Distinct(list)
  PROVE  IsFiniteSet(Entries(list)) /\ Cardinality(Entries(list)) = Len(list)
<1>1. Len(list) \in Nat /\ list \in [1..Len(list) -> S]
  BY LenProperties
<1>2. list \in [1..Len(list) -> Entries(list)]
  BY <1>1 DEF Entries
<1>3. list \in Bijection(1..Len(list), Entries(list))
  BY <1>2 DEF Entries, Distinct, Bijection, Injection, Surjection, IsInjective
<1>4. ExistsBijection(1..Len(list), Entries(list))
  BY <1>3 DEF ExistsBijection
<1> QED
  BY <1>1, <1>4, FS_CountingElements, FS_NatBijection

(* The list without a page, and with one.                                  *)
LEMMA SmallLists ==
  /\ Len(<<>>) = 0 /\ Entries(<<>>) = {} /\ Distinct(<<>>) /\ \A S : <<>> \in Seq(S)
  /\ \A p : /\ Len(<<p>>) = 1 /\ <<p>>[1] = p /\ Entries(<<p>>) = {p} /\ Distinct(<<p>>)
           /\ \A S : p \in S => <<p>> \in Seq(S)
  BY DEF Entries, Distinct

(* Joining two lists that share no page.                                   *)
LEMMA ConcatDistinct ==
  ASSUME NEW S, NEW s \in Seq(S), NEW t \in Seq(S),
         Distinct(s), Distinct(t), Entries(s) \intersect Entries(t) = {}
  PROVE  Distinct(s \o t)
<1> DEFINE c == s \o t
<1>1. /\ c \in Seq(S) /\ Len(c) = Len(s) + Len(t)
      /\ \A i \in 1..Len(s) + Len(t) : c[i] = IF i <= Len(s) THEN s[i] ELSE t[i - Len(s)]
  BY ConcatProperties
<1>2. Len(s) \in Nat /\ Len(t) \in Nat
  BY LenProperties
<1> HIDE DEF c
<1> SUFFICES ASSUME NEW i \in 1..Len(c), NEW j \in 1..Len(c), c[i] = c[j]
             PROVE  i = j
  BY DEF Distinct, c
<1>3. CASE i <= Len(s) /\ j <= Len(s)
  BY <1>1, <1>2, <1>3 DEF Distinct
<1>4. CASE i > Len(s) /\ j > Len(s)
  <2>1. i - Len(s) \in 1..Len(t) /\ j - Len(s) \in 1..Len(t)
    BY <1>1, <1>2, <1>4
  <2>2. t[i - Len(s)] = t[j - Len(s)]
    BY <1>1, <1>2, <1>4
  <2>3. i - Len(s) = j - Len(s)
    BY <2>1, <2>2 DEF Distinct
  <2> QED
    BY <2>3, <1>2
<1>5. \A a, b \in 1..Len(c) : a <= Len(s) /\ b > Len(s) => c[a] # c[b]
  <2> SUFFICES ASSUME NEW a \in 1..Len(c), NEW b \in 1..Len(c), a <= Len(s), b > Len(s)
               PROVE  c[a] # c[b]
    OBVIOUS
  <2>1. c[a] = s[a] /\ a \in 1..Len(s)
    BY <1>1, <1>2
  <2>2. c[b] = t[b - Len(s)] /\ b - Len(s) \in 1..Len(t)
    BY <1>1, <1>2
  <2>3. c[a] \in Entries(s) /\ c[b] \in Entries(t)
    BY <2>1, <2>2 DEF Entries
  <2> QED
    BY <2>3
<1> QED
  BY <1>2, <1>3, <1>4, <1>5

(* ... and the pages the longer list holds.                                *)
LEMMA ConcatEntries ==
  ASSUME NEW S, NEW s \in Seq(S), NEW t \in Seq(S)
  PROVE  Entries(s \o t) = Entries(s) \union Entries(t)
<1>1. /\ s \o t \in Seq(S) /\ Range(s \o t) = Range(s) \union Range(t)
  BY ConcatProperties, RangeConcatenation
<1> QED
  BY <1>1, RangeEquality DEF Entries

(* Taking the head off a list: unless it is there twice, it is gone.       *)
LEMMA TailProperties ==
  ASSUME NEW S, NEW s \in Seq(S), s # <<>>
  PROVE  /\ Head(s) \in S /\ Tail(s) \in Seq(S)
         /\ Len(Tail(s)) = Len(s) - 1
         /\ Entries(s) = Entries(Tail(s)) \union {Head(s)}
         /\ Distinct(s) => /\ Distinct(Tail(s))
                           /\ Entries(Tail(s)) = Entries(s) \ {Head(s)}
<1>1. /\ Head(s) \in S /\ Tail(s) \in Seq(S)
      /\ Len(Tail(s)) = Len(s) - 1
      /\ \A i \in 1..Len(Tail(s)) : Tail(s)[i] = s[i + 1]
  BY HeadTailProperties
<1>2. Len(s) \in Nat /\ Len(s) # 0 /\ Head(s) = s[1]
  BY EmptySeq, LenProperties
<1>3. ASSUME Distinct(s)
      PROVE  Distinct(Tail(s)) /\ Head(s) \notin Entries(Tail(s))
  <2>1. ASSUME NEW i \in 1..Len(Tail(s)), NEW j \in 1..Len(Tail(s)),
               Tail(s)[i] = Tail(s)[j]
        PROVE  i = j
    <3>1. i + 1 \in 1..Len(s) /\ j + 1 \in 1..Len(s) /\ s[i + 1] = s[j + 1]
      BY <1>1, <1>2, <2>1
    <3>2. i + 1 = j + 1
      BY <3>1, <1>3 DEF Distinct
    <3> QED
      BY <3>2, <1>1, <1>2
  <2>2. ASSUME NEW i \in 1..Len(Tail(s))
        PROVE  Tail(s)[i] # Head(s)
    <3>1. i + 1 \in 1..Len(s) /\ 1 \in 1..Len(s) /\ i + 1 # 1
      BY <1>1, <1>2
    <3>2. s[i + 1] # s[1]
      BY <3>1, <1>3 DEF Distinct
    <3> QED
      BY <3>2, <1>1, <1>2
  <2> QED
    BY <2>1, <2>2 DEF Distinct, Entries
<1>4. Entries(Tail(s)) \subseteq Entries(s) /\ Head(s) \in Entries(s)
  <2>1. ASSUME NEW i \in 1..Len(Tail(s))
        PROVE  Tail(s)[i] \in Entries(s)
    <3>1. i + 1 \in 1..Len(s)
      BY <1>1, <1>2
    <3> QED
      BY <3>1, <1>1 DEF Entries
  <2>2. 1 \in 1..Len(s)
    BY <1>2
  <2> QED
    BY <2>1, <2>2, <1>2 DEF Entries
<1>5. ASSUME NEW x \in Entries(s) \ {Head(s)}
      PROVE  x \in Entries(Tail(s))
  <2>1. PICK i \in 1..Len(s) : s[i] = x
    BY DEF Entries
  <2>2. i # 1
    BY <2>1, <1>2
  <2>3. i - 1 \in 1..Len(Tail(s)) /\ (i - 1) + 1 = i
    BY <2>2, <1>1, <1>2
  <2>4. Tail(s)[i - 1] = x
    BY <2>1, <2>3, <1>1
  <2> QED
    BY <2>3, <2>4 DEF Entries
<1> QED
  BY <1>1, <1>3, <1>4, <1>5

(* Pushing a page that is not linked at the head, as free_pages() does.    *)
LEMMA PushProperties ==
  ASSUME NEW S, NEW list \in Seq(S), NEW p \in S
  PROVE  /\ <<p>> \o list \in Seq(S)
         /\ Entries(<<p>> \o list) = {p} \union Entries(list)
         /\ Distinct(list) /\ p \notin Entries(list) => Distinct(<<p>> \o list)
<1> DEFINE one == <<p>>
<1>1. one \in Seq(S) /\ Entries(one) = {p} /\ Distinct(one)
  BY DEF Entries, Distinct
<1> HIDE DEF one
<1>2. one \o list \in Seq(S)
  BY <1>1, ConcatProperties
<1>3. Entries(one \o list) = {p} \union Entries(list)
  BY <1>1, ConcatEntries
<1>4. ASSUME Distinct(list), p \notin Entries(list)
      PROVE  Distinct(one \o list)
  <2>1. Entries(one) \intersect Entries(list) = {}
    BY <1>1, <1>4
  <2> QED
    BY <1>1, <1>4, <2>1, ConcatDistinct
<1> QED
  BY <1>2, <1>3, <1>4 DEF one

(* Noting one page more at the end.                                        *)
LEMMA AppendEntries ==
  ASSUME NEW S, NEW list \in Seq(S), NEW p \in S
  PROVE  /\ Append(list, p) \in Seq(S)
         /\ Len(Append(list, p)) = Len(list) + 1
         /\ \A i \in 1..Len(list) : Append(list, p)[i] = list[i]
         /\ Append(list, p)[Len(list) + 1] = p
         /\ Entries(Append(list, p)) = Entries(list) \union {p}
         /\ Distinct(list) /\ p \notin Entries(list) => Distinct(Append(list, p))
<1> DEFINE one == <<p>>
<1>1. one \in Seq(S) /\ Entries(one) = {p} /\ Distinct(one)
  BY DEF Entries, Distinct
<1>2. Append(list, p) = list \o one
  BY AppendIsConcat
<1> HIDE DEF one
<1>3. /\ Append(list, p) \in Seq(S) /\ Len(Append(list, p)) = Len(list) + 1
      /\ \A i \in 1..Len(list) : Append(list, p)[i] = list[i]
      /\ Append(list, p)[Len(list) + 1] = p
  BY AppendProperties
<1>4. Entries(list \o one) = Entries(list) \union {p}
  BY <1>1, ConcatEntries
<1>5. ASSUME Distinct(list), p \notin Entries(list)
      PROVE  Distinct(list \o one)
  <2>1. Entries(list) \intersect Entries(one) = {}
    BY <1>1, <1>5
  <2> QED
    BY <1>1, <1>5, <2>1, ConcatDistinct
<1> QED
  BY <1>2, <1>3, <1>4, <1>5

-----------------------------------------------------------------------------
(* The list as it is stored.                                               *)

\* From h on, along links l, lie pages of S only: links stay in S and lead
\* down, and no two of them, or one and h, meet.
Chain(h, l, S, depth, null) ==
  /\ null \notin S
  /\ h # null => h \in S
  /\ \A p \in S : depth[p] \in Nat
  /\ \A p \in S : l[p] # null => l[p] \in S /\ depth[l[p]] < depth[p] /\ l[p] # h
  /\ \A p, q \in S : l[p] = l[q] /\ l[p] # null => p = q

(* A page is pushed: it is linked to the old head and becomes the head.    *)
LEMMA ChainPush ==
  ASSUME NEW h, NEW l, NEW S, NEW depth, NEW null, Chain(h, l, S, depth, null),
         NEW p, NEW m, p \notin S, p # null, m[p] = h, \A q \in S : m[q] = l[q]
  PROVE  \E d : Chain(p, m, S \union {p}, d, null)
<1> DEFINE d == [q \in S \union {p} |->
                   IF q = p THEN (IF h = null THEN 0 ELSE depth[h] + 1) ELSE depth[q]]
<1>1. /\ \A q \in S : depth[q] \in Nat
      /\ h # null => h \in S
  BY DEF Chain
<1>2. /\ \A q \in S : d[q] = depth[q]
      /\ d[p] = IF h = null THEN 0 ELSE depth[h] + 1
  OBVIOUS
<1> HIDE DEF d
<1>3. \A q \in S \union {p} : d[q] \in Nat
  BY <1>1, <1>2
<1>4. \A q \in S : m[q] # null => m[q] \in S /\ d[m[q]] < d[q] /\ m[q] # p
  BY <1>2 DEF Chain
<1>5. m[p] # null => m[p] \in S /\ d[m[p]] < d[p] /\ m[p] # p
  BY <1>1, <1>2
<1>6. \A q, r \in S \union {p} : m[q] = m[r] /\ m[q] # null => q = r
  BY DEF Chain
<1>7. null \notin S \union {p}
  BY DEF Chain
<1>8. Chain(p, m, S \union {p}, d, null)
  BY <1>3, <1>4, <1>5, <1>6, <1>7 DEF Chain
<1> QED
  BY <1>8

(* The head is taken off.                                                  *)
LEMMA ChainDrop ==
  ASSUME NEW h, NEW l, NEW S, NEW depth, NEW null, Chain(h, l, S, depth, null), h # null,
         NEW m, \A q \in S \ {h} : m[q] = l[q]
  PROVE  Chain(l[h], m, S \ {h}, depth, null)
<1>1. h \in S
  BY DEF Chain
<1>2. l[h] # null => l[h] \in S \ {h}
  BY <1>1 DEF Chain
<1>3. \A q \in S \ {h} : m[q] # null => /\ m[q] \in S \ {h} /\ depth[m[q]] < depth[q]
                                       /\ m[q] # l[h]
  BY <1>1 DEF Chain
<1>4. \A q, r \in S \ {h} : m[q] = m[r] /\ m[q] # null => q = r
  BY DEF Chain
<1>5. null \notin S \ {h} /\ \A q \in S \ {h} : depth[q] \in Nat
  BY DEF Chain
<1> QED
  BY <1>2, <1>3, <1>4, <1>5 DEF Chain

(* A page p behind b is unlinked.                                          *)
LEMMA ChainUnlink ==
  ASSUME NEW h, NEW l, NEW S, NEW depth, NEW null, Chain(h, l, S, depth, null),
         NEW b \in S, NEW p \in S, l[b] = p,
         NEW m, m[b] = l[p], \A q \in S \ {p, b} : m[q] = l[q]
  PROVE  Chain(h, m, S \ {p}, depth, null)
<1>1. p # null /\ p # h /\ depth[p] < depth[b] /\ depth[p] \in Nat /\ depth[b] \in Nat
  BY DEF Chain
<1>2. p # b
  BY <1>1
<1>3. h # null => h \in S \ {p}
  BY <1>1 DEF Chain
<1>4. m[b] # null => m[b] \in S \ {p} /\ depth[m[b]] < depth[b] /\ m[b] # h
  <2> SUFFICES ASSUME l[p] # null PROVE l[p] \in S \ {p} /\ depth[l[p]] < depth[b] /\ l[p] # h
    OBVIOUS
  <2>1. l[p] \in S /\ depth[l[p]] < depth[p] /\ l[p] # h /\ depth[l[p]] \in Nat
    BY DEF Chain
  <2>2. l[p] # p
    BY <2>1, <1>1
  <2> QED
    BY <2>1, <2>2, <1>1
<1>5. \A q \in S \ {p, b} : m[q] # null => /\ m[q] \in S \ {p} /\ depth[m[q]] < depth[q]
                                          /\ m[q] # h
  BY <1>1 DEF Chain
<1>6. \A q, r \in S \ {p} : m[q] = m[r] /\ m[q] # null => q = r
  <2>1. \A q \in S \ {p, b} : m[q] = m[b] /\ m[q] # null => q = p
    BY DEF Chain
  <2>2. \A q, r \in S \ {p, b} : m[q] = m[r] /\ m[q] # null => q = r
    BY DEF Chain
  <2> QED
    BY <2>1, <2>2
<1>7. null \notin S \ {p} /\ \A q \in S \ {p} : depth[q] \in Nat
  BY DEF Chain
<1> QED
  BY <1>2, <1>3, <1>4, <1>5, <1>6, <1>7 DEF Chain

(* The links of other pages do not matter.                                 *)
LEMMA ChainFrame ==
  ASSUME NEW h, NEW l, NEW S, NEW depth, NEW null, Chain(h, l, S, depth, null),
         NEW m, \A q \in S : m[q] = l[q]
  PROVE  Chain(h, m, S, depth, null)
BY DEF Chain

(* The empty list.                                                         *)
LEMMA ChainEmpty ==
  ASSUME NEW l, NEW depth, NEW null
  PROVE  Chain(null, l, {}, depth, null)
BY DEF Chain

-----------------------------------------------------------------------------
(* Walking along the list                                                  *)

(* A set of numbers that is not empty has a least element.                 *)
LEMMA Least ==
  ASSUME NEW S \in SUBSET Nat, S # {}
  PROVE  \E n \in S : \A m \in S : n <= m
<1>1. \E x \in S : \A y \in S : ~ (<<y, x>> \in OpToRel(<, Nat))
  BY NatLessThanWellFounded, WFMin
<1>2. PICK x \in S : \A y \in S : ~ (<<y, x>> \in OpToRel(<, Nat))
  BY <1>1
<1>3. \A y \in S : ~ (y < x)
  BY <1>2 DEF OpToRel
<1> QED
  BY <1>3

Follow(r, l, null) == IF r.ptr = null THEN r
                      ELSE [seen |-> Append(r.seen, r.ptr), ptr |-> l[r.ptr]]

\* f gives the states of a walk from p on, up to the n-th.
Steps(f, p, l, n, null) ==
  f = [i \in 0..n |-> IF i = 0 THEN [seen |-> <<>>, ptr |-> p]
                      ELSE Follow(f[i - 1], l, null)]

(* The walk is defined for any number of steps.                            *)
LEMMA StepsExist ==
  ASSUME NEW p, NEW l, NEW null, NEW n \in Nat
  PROVE  \E f : Steps(f, p, l, n, null)
<1> DEFINE S == {k \in Nat : ~ \E f : Steps(f, p, l, k, null)}
<1> SUFFICES ASSUME S # {} PROVE FALSE
  OBVIOUS
<1>1. PICK k \in S : \A m \in S : k <= m
  BY Least
<1>2. k \in Nat /\ ~ \E f : Steps(f, p, l, k, null)
  OBVIOUS
<1>3. k # 0
  <2> DEFINE g == [i \in 0..0 |-> [seen |-> <<>>, ptr |-> p]]
  <2>1. Steps(g, p, l, 0, null)
    BY DEF Steps
  <2> QED
    BY <1>2, <2>1
<1>4. k - 1 \in Nat /\ ~(k <= k - 1)
  BY <1>2, <1>3
<1>5. PICK f : Steps(f, p, l, k - 1, null)
  BY <1>1, <1>4
<1> DEFINE g == [i \in 0..k |-> IF i = k THEN Follow(f[k - 1], l, null) ELSE f[i]]
<1>6. \A i \in 0..(k - 1) : f[i] = IF i = 0 THEN [seen |-> <<>>, ptr |-> p]
                                   ELSE Follow(f[i - 1], l, null)
  BY <1>5 DEF Steps
<1>7. \A i \in 0..k : g[i] = IF i = 0 THEN [seen |-> <<>>, ptr |-> p]
                             ELSE Follow(g[i - 1], l, null)
  <2> TAKE i \in 0..k
  <2>1. CASE i = k
    <3>1. k - 1 \in 0..k /\ k - 1 # k /\ k \in 0..k
      BY <1>2, <1>4
    <3>2. g[k - 1] = f[k - 1] /\ g[k] = Follow(f[k - 1], l, null)
      BY <3>1
    <3> QED
      BY <2>1, <3>2, <1>3
  <2>2. CASE i # k
    <3>1. i \in 0..(k - 1) /\ (i # 0 => i - 1 \in 0..k /\ i - 1 # k)
      BY <2>2, <1>2
    <3>2. g[i] = f[i] /\ (i # 0 => g[i - 1] = f[i - 1])
      BY <2>2, <3>1
    <3> HIDE DEF g
    <3> QED
      BY <3>1, <3>2, <1>6
  <2> QED
    BY <2>1, <2>2
<1>8. g = [i \in 0..k |-> g[i]]
  OBVIOUS
<1> HIDE DEF g
<1>9. [i \in 0..k |-> g[i]] = [i \in 0..k |-> IF i = 0 THEN [seen |-> <<>>, ptr |-> p]
                                              ELSE Follow(g[i - 1], l, null)]
  BY <1>7
<1>10. Steps(g, p, l, k, null)
  BY <1>8, <1>9 DEF Steps
<1> QED
  BY <1>2, <1>10

\* After i steps along a chain: r.seen was met, r.ptr is next.
Met(r, i, h, l, S, depth, null) ==
  LET m == Len(r.seen)
  IN  /\ r.seen \in Seq(S) /\ r.ptr \in S \union {null}
      /\ m <= i /\ (r.ptr # null => m = i)
      /\ IF m = 0 THEN r.ptr = h ELSE r.seen[1] = h /\ l[r.seen[m]] = r.ptr
      /\ \A a \in 1..m : a # m => l[r.seen[a]] = r.seen[a + 1]
      /\ \A a, b \in 1..m : a < b => depth[r.seen[b]] < depth[r.seen[a]]
      /\ r.ptr # null => \A a \in 1..m : depth[r.ptr] < depth[r.seen[a]]

(* One step more.                                                          *)
LEMMA MetStep ==
  ASSUME NEW h, NEW l, NEW S, NEW depth, NEW null, Chain(h, l, S, depth, null),
         NEW r, NEW i \in Nat, Met(r, i, h, l, S, depth, null)
  PROVE  Met(Follow(r, l, null), i + 1, h, l, S, depth, null)
<1> DEFINE m == Len(r.seen)
           u == Append(r.seen, r.ptr)
<1>1. /\ r.seen \in Seq(S) /\ r.ptr \in S \union {null}
      /\ m <= i /\ (r.ptr # null => m = i)
      /\ IF m = 0 THEN r.ptr = h ELSE r.seen[1] = h /\ l[r.seen[m]] = r.ptr
      /\ \A a \in 1..m : a # m => l[r.seen[a]] = r.seen[a + 1]
      /\ \A a, b \in 1..m : a < b => depth[r.seen[b]] < depth[r.seen[a]]
      /\ r.ptr # null => \A a \in 1..m : depth[r.ptr] < depth[r.seen[a]]
  BY DEF Met
<1>2. m \in Nat
  BY <1>1, LenProperties
<1>3. CASE r.ptr = null
  <2>1. Follow(r, l, null) = r
    BY <1>3 DEF Follow
  <2>2. m <= i + 1 /\ (r.ptr # null => m = i + 1)
    BY <1>1, <1>2, <1>3
  <2> QED
    BY <2>1, <2>2, <1>1 DEF Met
<1>4. CASE r.ptr # null
  <2>1. m = i /\ r.ptr \in S
    BY <1>1, <1>4
  <2>2. /\ u \in Seq(S) /\ Len(u) = m + 1
        /\ \A a \in 1..m : u[a] = r.seen[a]
        /\ u[m + 1] = r.ptr
    BY <1>1, <2>1, AppendProperties
  <2> HIDE DEF u
  <2> DEFINE n == m + 1
             q == l[r.ptr]
             t == [seen |-> u, ptr |-> q]
  <2>3. Follow(r, l, null) = t /\ t.seen = u /\ t.ptr = q
    BY <1>4 DEF Follow, u
  <2>4. n \in Nat \ {0} /\ \A a \in 1..n : a \in 1..m \/ a = n
    BY <1>2
  <2>5. q \in S \union {null}
    BY <2>1 DEF Chain
  <2>6. q # null => depth[q] < depth[r.ptr] /\ depth[q] \in Nat /\ depth[r.ptr] \in Nat
    BY <2>1 DEF Chain
  <2>7. \A a \in 1..m : r.seen[a] \in S /\ depth[r.seen[a]] \in Nat
    BY <1>1, ElementOfSeq DEF Chain
  <2>8. u[1] = h /\ l[u[n]] = q
    <3>1. CASE m = 0
      BY <3>1, <1>1, <2>2
    <3>2. CASE m # 0
      <4>1. 1 \in 1..m
        BY <3>2, <1>2
      <4> QED
        BY <3>2, <4>1, <1>1, <2>2
    <3> QED
      BY <3>1, <3>2
  <2>9. \A a \in 1..n : a # n => l[u[a]] = u[a + 1]
    <3> SUFFICES ASSUME NEW a \in 1..m PROVE l[u[a]] = u[a + 1]
      BY <2>4
    <3>1. CASE a = m
      BY <3>1, <1>1, <2>2, <1>2
    <3>2. CASE a # m
      <4>1. a + 1 \in 1..m
        BY <3>2, <1>2
      <4> QED
        BY <3>2, <4>1, <1>1, <2>2
    <3> QED
      BY <3>1, <3>2
  <2>10. \A a, b \in 1..n : a < b => depth[u[b]] < depth[u[a]]
    <3> SUFFICES ASSUME NEW a \in 1..n, NEW b \in 1..n, a < b
                 PROVE  depth[u[b]] < depth[u[a]]
      OBVIOUS
    <3>1. a \in 1..m
      BY <1>2
    <3>2. CASE b \in 1..m
      BY <3>1, <3>2, <1>1, <2>2
    <3>3. CASE b = n
      BY <3>1, <3>3, <1>1, <1>4, <2>2
    <3> QED
      BY <3>2, <3>3, <2>4
  <2>11. q # null => \A a \in 1..n : depth[q] < depth[u[a]]
    <3> SUFFICES ASSUME q # null, NEW a \in 1..n PROVE depth[q] < depth[u[a]]
      OBVIOUS
    <3>1. CASE a = n
      BY <3>1, <2>2, <2>6
    <3>2. CASE a \in 1..m
      <4>1. u[a] = r.seen[a] /\ depth[r.ptr] < depth[r.seen[a]] /\ depth[r.seen[a]] \in Nat
        BY <3>2, <1>1, <1>4, <2>2, <2>7
      <4> QED
        BY <4>1, <2>6
    <3> QED
      BY <3>1, <3>2, <2>4
  <2>12. Len(t.seen) = n /\ n # 0 /\ n = i + 1 /\ n <= i + 1
    BY <2>1, <2>2, <2>3, <2>4
  <2> HIDE DEF t, q, n
  <2> QED
    BY <2>2, <2>3, <2>5, <2>8, <2>9, <2>10, <2>11, <2>12 DEF Met
<1> QED
  BY <1>3, <1>4

(* A walk along a chain that is no longer than the walk may be meets its   *)
(* pages, each once and in the order of the links, up to the last.         *)
LEMMA WalkIs ==
  ASSUME NEW h, NEW l, NEW S, NEW depth, NEW null, Chain(h, l, S, depth, null),
         IsFiniteSet(S), NEW n \in Nat, Cardinality(S) < n, NEW w, w = Walk(h, l, n, null)
  PROVE  /\ w \in Seq(S) /\ Distinct(w) /\ Len(w) < n
         /\ IF Len(w) = 0 THEN h = null ELSE w[1] = h /\ l[w[Len(w)]] = null
         /\ \A a \in 1..Len(w) : a # Len(w) => l[w[a]] = w[a + 1]
<1> DEFINE step == CHOOSE f : Steps(f, h, l, n, null)
<1>1. w = step[n].seen
  BY DEF Walk, Steps, Follow
<1>2. Steps(step, h, l, n, null)
  BY StepsExist
<1> HIDE DEF step
<1>3. \A i \in 0..n : step[i] = IF i = 0 THEN [seen |-> <<>>, ptr |-> h]
                                ELSE Follow(step[i - 1], l, null)
  BY <1>2 DEF Steps
<1>4. \A i \in 0..n : Met(step[i], i, h, l, S, depth, null)
  <2> DEFINE T == {i \in 0..n : ~Met(step[i], i, h, l, S, depth, null)}
  <2> SUFFICES ASSUME T # {} PROVE FALSE
    OBVIOUS
  <2>1. T \in SUBSET Nat
    OBVIOUS
  <2>2. PICK k \in T : \A m \in T : k <= m
    BY <2>1, Least
  <2>3. k \in 0..n /\ ~Met(step[k], k, h, l, S, depth, null)
    OBVIOUS
  <2>4. k # 0
    <3> DEFINE r == [seen |-> <<>>, ptr |-> h]
    <3>1. 0 \in 0..n /\ step[0] = r
      BY <1>3
    <3>2. Met(r, 0, h, l, S, depth, null)
      <4>1. r.seen = <<>> /\ r.ptr = h /\ Len(<<>>) = 0 /\ <<>> \in Seq(S)
        OBVIOUS
      <4>2. h \in S \union {null}
        BY DEF Chain
      <4>3. 1..0 = {}
        OBVIOUS
      <4> HIDE DEF r
      <4> QED
        BY <4>1, <4>2, <4>3 DEF Met
    <3> QED
      BY <2>3, <3>1, <3>2
  <2>5. k - 1 \in 0..n /\ k - 1 \in Nat /\ ~(k <= k - 1) /\ (k - 1) + 1 = k
    BY <2>3, <2>4
  <2>6. Met(step[k - 1], k - 1, h, l, S, depth, null)
    BY <2>2, <2>5
  <2>7. Met(Follow(step[k - 1], l, null), (k - 1) + 1, h, l, S, depth, null)
    BY <2>5, <2>6, MetStep
  <2>8. step[k] = Follow(step[k - 1], l, null)
    BY <1>3, <2>3, <2>4
  <2> QED
    BY <2>3, <2>5, <2>7, <2>8
<1>5. Met(step[n], n, h, l, S, depth, null)
  BY <1>4
<1> DEFINE m == Len(w)
<1>6. /\ w \in Seq(S) /\ step[n].ptr \in S \union {null}
      /\ step[n].ptr # null => m = n
      /\ IF m = 0 THEN step[n].ptr = h ELSE w[1] = h /\ l[w[m]] = step[n].ptr
      /\ \A a \in 1..m : a # m => l[w[a]] = w[a + 1]
      /\ \A a, b \in 1..m : a < b => depth[w[b]] < depth[w[a]]
  BY <1>1, <1>5 DEF Met
<1>7. m \in Nat /\ \A a \in 1..m : w[a] \in S /\ depth[w[a]] \in Nat
  BY <1>6, LenProperties, ElementOfSeq DEF Chain
<1>8. Distinct(w)
  <2> SUFFICES ASSUME NEW a \in 1..m, NEW b \in 1..m, a # b PROVE w[a] # w[b]
    BY DEF Distinct
  <2>1. a < b \/ b < a
    BY <1>7
  <2>2. depth[w[b]] < depth[w[a]] \/ depth[w[a]] < depth[w[b]]
    BY <2>1, <1>6
  <2> QED
    BY <2>2, <1>7
<1>9. m < n
  <2>1. IsFiniteSet(Entries(w)) /\ Cardinality(Entries(w)) = m
    BY <1>6, <1>8, DistinctLength
  <2>2. Entries(w) \in SUBSET S
    BY <1>7 DEF Entries
  <2>3. Cardinality(Entries(w)) <= Cardinality(S) /\ Cardinality(S) \in Nat
    BY <2>2, FS_Subset, FS_CardinalityType
  <2> QED
    BY <2>1, <2>3, <1>7
<1>10. step[n].ptr = null
  BY <1>6, <1>7, <1>9
<1> QED
  BY <1>6, <1>8, <1>9, <1>10

(* Such a walk meets all of a chain: its pages make one of their own.      *)
LEMMA WalkChain ==
  ASSUME NEW h, NEW l, NEW S, NEW depth, NEW null, Chain(h, l, S, depth, null),
         NEW w \in Seq(S),
         IF Len(w) = 0 THEN h = null ELSE w[1] = h /\ l[w[Len(w)]] = null,
         \A a \in 1..Len(w) : a # Len(w) => l[w[a]] = w[a + 1]
  PROVE  Chain(h, l, Entries(w), depth, null)
<1>1. Len(w) \in Nat /\ \A a \in 1..Len(w) : w[a] \in S
  BY LenProperties, ElementOfSeq
<1>2. Entries(w) \subseteq S
  BY <1>1 DEF Entries
<1>3. h # null => h \in Entries(w)
  <2> SUFFICES ASSUME h # null PROVE h \in Entries(w)
    OBVIOUS
  <2>1. 1 \in 1..Len(w) /\ w[1] = h
    BY <1>1
  <2> QED
    BY <2>1 DEF Entries
<1>4. \A p \in Entries(w) : l[p] # null => l[p] \in Entries(w)
  <2> SUFFICES ASSUME NEW a \in 1..Len(w), l[w[a]] # null PROVE l[w[a]] \in Entries(w)
    BY DEF Entries
  <2>1. a # Len(w)
    BY <1>1
  <2>2. a + 1 \in 1..Len(w)
    BY <2>1, <1>1
  <2> QED
    BY <2>1, <2>2 DEF Entries
<1> QED
  BY <1>2, <1>3, <1>4 DEF Chain
=============================================================================
