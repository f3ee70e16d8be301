--------------------------- MODULE ReadyQueueProofs ---------------------------
(***************************************************************************)
(* The links of the ready queue for any number of tasks: until a tick      *)
(* comes in one of the windows of add_to_ready_queue() they are those of   *)
(* one sequence of tasks, and this sequence is a TaskQueue, whatever ticks *)
(* and exits fall between the other statements.                            *)
(***************************************************************************)
EXTENDS ReadyQueue, FiniteSetTheorems, SequenceTheorems, WellFoundedInduction, TLAPS

-----------------------------------------------------------------------------
(* What the links represent                                                *)

Entries == Tasks \union {NULL}

\* From p on, links l lead through the tasks of s.
Path(p, l, s) ==
  /\ p = IF s = <<>> THEN NULL ELSE s[1]
  /\ \A i \in 1..Len(s) : l[s[i]] = IF i = Len(s) THEN NULL ELSE s[i + 1]

Distinct(s) == \A i, j \in 1..Len(s) : s[i] = s[j] => i = j

\* The links q and the two end pointers are those of the queue s.
Represents(q, s) ==
  /\ Path(q.head, q.next, s)
  /\ q.tail = IF s = <<>> THEN NULL ELSE s[Len(s)]
  /\ \A i \in 1..Len(s) : q.prev[s[i]] = IF i = 1 THEN NULL ELSE s[i - 1]

Holds(s, S) == \A t \in Tasks : t \in S <=> \E i \in 1..Len(s) : s[i] = t

Ready == {t \in Tasks : state[t] = "READY"}

\* The links with the end pointers as add_to_ready_queue() will have left them.
Finished == [Links EXCEPT !.head = IF head = NULL THEN new ELSE head, !.tail = new]

-----------------------------------------------------------------------------
(* The inductive invariant                                                 *)

Types ==
  /\ next \in [Tasks -> Entries] /\ prev \in [Tasks -> Entries]
  /\ head \in Entries /\ tail \in Entries
  /\ state \in [Tasks -> {"READY", "RUNNING", "TERMINATED"}]
  /\ current \in Tasks
  /\ at \in {"wfi", "fill", "prev", "next", "tail", "head"}

\* One task runs, and the idle task never exits.  Those that are gone are the
\* TERMINATED ones.
Running ==
  /\ \A t \in Tasks : state[t] = "RUNNING" <=> t = current
  /\ state[Idle] # "TERMINATED"
  /\ \A t \in Tasks : t \in gone <=> state[t] = "TERMINATED"

\* The task being created waits to be linked; while it is, the idle task runs.
Creates ==
  /\ at = "wfi" => new = NULL
  /\ at # "wfi" => new \in Tasks /\ new # Idle
  /\ at = "fill" => state[new] = "TERMINATED"
  /\ at \notin {"wfi", "fill"} => state[new] = "READY"
  /\ at \in {"next", "tail", "head"} => current = Idle

\* The task being created is not linked to, and the rest of the READY ones are
\* the queue s.
Before(s) ==
  /\ at \in {"wfi", "fill", "prev", "next"}
  /\ Represents(Links, s) /\ Holds(s, Ready \ {new})
  /\ at = "next" => prev[new] = tail /\ next[new] = NULL

\* It is the last of the list, and the end pointers are to follow.
After(s) ==
  /\ at \in {"tail", "head"}
  /\ Represents(Finished, s) /\ Holds(s, Ready)
  /\ at = "tail" => prev[new] = tail /\ (tail = NULL => head = NULL)
  /\ at = "head" => tail = new

Linked(s) == Distinct(s) /\ (Before(s) \/ After(s))

Good == Types /\ Running /\ Creates /\ \E s \in Seq(Tasks) : Linked(s)

IInv == torn \in BOOLEAN /\ (~torn => Good)

-----------------------------------------------------------------------------
(* Following the links                                                     *)

(* A set of naturals has a least element. *)
LEMMA Least ==
  ASSUME NEW S \in SUBSET Nat, S # {}
  PROVE  \E m \in S : \A k \in S : m <= k
<1>1. \E m \in S : \A k \in S : ~(<<k, m>> \in OpToRel(<, Nat))
  BY NatLessThanWellFounded, WFMin
<1>2. PICK m \in S : \A k \in S : ~(<<k, m>> \in OpToRel(<, Nat))
  BY <1>1
<1>3. \A k \in S : ~(k < m)
  BY <1>2 DEF OpToRel
<1> QED
  BY <1>3

(* A queue without duplicates is no longer than there are tasks. *)
LEMMA QueueFits ==
  ASSUME NEW s \in Seq(Tasks), Distinct(s)
  PROVE  Len(s) <= Cardinality(Tasks) /\ Cardinality(Tasks) \in Nat
<1>1. IsFiniteSet(Tasks) /\ Cardinality(Tasks) \in Nat
  BY ReadyQueueAssumption, FS_CardinalityType
<1>2. Len(s) \in Nat /\ s \in [1..Len(s) -> Tasks]
  OBVIOUS
<1>3. s \in Injection(1..Len(s), Tasks)
  BY <1>2 DEF Distinct, Injection, IsInjective
<1>4. Cardinality(1..Len(s)) <= Cardinality(Tasks)
  BY <1>1, <1>3, FS_Injection
<1>5. Cardinality(1..Len(s)) = Len(s)
  <2>1. 1 \in Int /\ Len(s) \in Int
    BY <1>2
  <2>2. Cardinality(1..Len(s)) = IF 1 > Len(s) THEN 0 ELSE Len(s) - 1 + 1
    BY <2>1, FS_Interval
  <2> QED
    BY <1>2, <2>2
<1> QED
  BY <1>1, <1>4, <1>5

\* After n steps along s: what was met, and what is next.
Reached(s, n) ==
  [seen |-> SubSeq(s, 1, n), ptr |-> IF n >= Len(s) THEN NULL ELSE s[n + 1]]

(* The first entries of a sequence of tasks are a sequence of tasks. *)
LEMMA PrefixIsSeq ==
  ASSUME NEW s \in Seq(Tasks), NEW n \in Nat, n <= Len(s)
  PROVE  SubSeq(s, 1, n) \in Seq(Tasks)
<1>1. 1 \in Int /\ n \in Int
  OBVIOUS
<1>2. \A i \in 1..n : s[i] \in Tasks
  OBVIOUS
<1> QED
  BY <1>1, <1>2, SubSeqProperties

(* Following the links meets the tasks of the queue one by one. *)
LEMMA WalkStep ==
  ASSUME NEW p, NEW l, NEW s \in Seq(Tasks), Path(p, l, s)
  PROVE  /\ Reached(s, 0) = [seen |-> <<>>, ptr |-> p]
         /\ Reached(s, Len(s)) = [seen |-> s, ptr |-> NULL]
         /\ \A n \in 0..(Len(s) - 1) :
              /\ Reached(s, n).ptr # NULL
              /\ Reached(s, n + 1) = [seen |-> Append(Reached(s, n).seen, Reached(s, n).ptr),
                                      ptr |-> l[Reached(s, n).ptr]]
<1> DEFINE m == Len(s)
<1>1. /\ m \in Nat
      /\ p = IF s = <<>> THEN NULL ELSE s[1]
      /\ \A i \in 1..m : s[i] \in Tasks /\ l[s[i]] = IF i = m THEN NULL ELSE s[i + 1]
  BY DEF Path
<1>2. s = <<>> <=> m = 0
  OBVIOUS
<1>3. SubSeq(s, 1, 0) = <<>> /\ SubSeq(s, 1, m) = s
  BY <1>1, SubSeqEmpty, SubSeqFull
<1> HIDE DEF m
<1>4. Reached(s, 0) = [seen |-> <<>>, ptr |-> p]
  <2>1. p = IF 0 >= m THEN NULL ELSE s[0 + 1]
    BY <1>1, <1>2
  <2> QED
    BY <1>3, <2>1 DEF Reached, m
<1>5. Reached(s, m) = [seen |-> s, ptr |-> NULL]
  <2>1. m >= m
    BY <1>1
  <2>2. m >= Len(s) /\ SubSeq(s, 1, m) = s
    BY <1>3, <2>1 DEF m
  <2> QED
    BY <2>2 DEF Reached
<1>6. ASSUME NEW n \in 0..(m - 1)
      PROVE  /\ Reached(s, n).ptr # NULL
             /\ Reached(s, n + 1) = [seen |-> Append(Reached(s, n).seen, Reached(s, n).ptr),
                                     ptr |-> l[Reached(s, n).ptr]]
  <2> DEFINE k == n + 1
  <2>1. n \in Nat /\ k \in 1..m /\ ~(n >= m) /\ (k >= m <=> k = m) /\ k - 1 = n /\ k \in k..m
    BY <1>1
  <2> HIDE DEF k
  <2>2. Reached(s, n).seen = SubSeq(s, 1, n) /\ Reached(s, n).ptr = s[k]
    BY <2>1 DEF Reached, k, m
  <2>3. s[k] # NULL /\ l[s[k]] = IF k = m THEN NULL ELSE s[k + 1]
    BY <1>1, <2>1, ReadyQueueAssumption
  <2>4. SubSeq(s, 1, k) = Append(SubSeq(s, 1, n), s[k])
    <3>1. 1 \in 1..Len(s) /\ k \in 1..Len(s)
      BY <1>1, <2>1 DEF m
    <3>2. SubSeq(s, 1, k) = SubSeq(s, 1, k - 1) \o <<s[k]>>
      BY <3>1, SubSeqRecursiveSecond
    <3>3. SubSeq(s, 1, n) \in Seq(Tasks) /\ s[k] \in Tasks
      <4>1. n <= Len(s)
        BY <1>1, <2>1 DEF m
      <4>2. SubSeq(s, 1, n) \in Seq(Tasks)
        BY <2>1, <4>1, PrefixIsSeq
      <4> QED
        BY <3>1, <4>2
    <3> DEFINE u == SubSeq(s, 1, n)
    <3>4. SubSeq(s, 1, k) = u \o <<s[k]>> /\ u \in Seq(Tasks)
      BY <2>1, <3>2, <3>3
    <3> HIDE DEF u
    <3>5. u \o <<s[k]>> = Append(u, s[k])
      BY <3>3, <3>4
    <3> QED
      BY <3>4, <3>5 DEF u
  <2>5. Reached(s, k) = [seen |-> SubSeq(s, 1, k), ptr |-> IF k = m THEN NULL ELSE s[k + 1]]
    BY <2>1 DEF Reached, m
  <2> QED
    BY <2>2, <2>3, <2>4, <2>5 DEF k
<1> QED
  BY <1>4, <1>5, <1>6 DEF m

(* Walk gives the queue the links represent. *)
LEMMA WalkIs ==
  ASSUME NEW p, NEW l, NEW s \in Seq(Tasks), Path(p, l, s), Distinct(s)
  PROVE  Walk(p, l) = s
<1> DEFINE m == Len(s)
           z == Cardinality(Tasks) + 1
           D == 0..z
           Follow(r) == IF r.ptr = NULL THEN r
                        ELSE [seen |-> Append(r.seen, r.ptr), ptr |-> l[r.ptr]]
           Rec(f) == f = [n \in D |-> IF n = 0 THEN [seen |-> <<>>, ptr |-> p]
                                      ELSE Follow(f[n - 1])]
           step == CHOOSE f : Rec(f)
<1>1. Walk(p, l) = step[z].seen
  BY DEF Walk
<1>2. m \in Nat /\ z \in Nat /\ m < z
  BY QueueFits
<1>3. /\ Reached(s, 0) = [seen |-> <<>>, ptr |-> p]
      /\ Reached(s, m) = [seen |-> s, ptr |-> NULL]
      /\ \A n \in 0..(m - 1) : Follow(Reached(s, n)) = Reached(s, n + 1)
  <2>1. /\ Reached(s, 0) = [seen |-> <<>>, ptr |-> p]
        /\ Reached(s, Len(s)) = [seen |-> s, ptr |-> NULL]
        /\ \A n \in 0..(Len(s) - 1) :
              /\ Reached(s, n).ptr # NULL
              /\ Reached(s, n + 1) = [seen |-> Append(Reached(s, n).seen, Reached(s, n).ptr),
                                      ptr |-> l[Reached(s, n).ptr]]
    BY WalkStep
  <2> QED
    BY <2>1
<1> HIDE DEF m, z
<1> DEFINE g == [n \in D |-> IF n <= m THEN Reached(s, n) ELSE Reached(s, m)]
<1>4. Follow(Reached(s, m)) = Reached(s, m)
  BY <1>3
<1> HIDE DEF Follow
<1>5. Rec(g)
  <2>1. ASSUME NEW n \in D
        PROVE  g[n] = IF n = 0 THEN [seen |-> <<>>, ptr |-> p] ELSE Follow(g[n - 1])
    <3>1. CASE n = 0
      BY <1>2, <1>3, <3>1
    <3>2. CASE n # 0
      <4>1. n - 1 \in D /\ n - 1 \in Nat /\ n - 1 + 1 = n /\ n \in Nat
        BY <1>2, <3>2
      <4>2. CASE n <= m
        <5>1. n - 1 \in 0..(m - 1) /\ n - 1 <= m
          BY <1>2, <3>2, <4>1, <4>2
        <5>2. g[n] = Reached(s, n) /\ g[n - 1] = Reached(s, n - 1)
          BY <4>1, <4>2, <5>1
        <5> QED
          BY <1>3, <3>2, <4>1, <5>1, <5>2
      <4>3. CASE ~(n <= m)
        <5>1. g[n] = Reached(s, m) /\ m <= n - 1
          BY <1>2, <4>1, <4>3
        <5>2. g[n - 1] = Reached(s, m)
          <6>1. CASE n - 1 = m
            BY <1>2, <4>1, <6>1
          <6>2. CASE n - 1 # m
            BY <1>2, <4>1, <5>1, <6>2
          <6> QED
            BY <6>1, <6>2
        <5> QED
          BY <1>4, <3>2, <5>1, <5>2
      <4> QED
        BY <4>2, <4>3
    <3> QED
      BY <3>1, <3>2
  <2>2. g = [n \in D |-> g[n]]
    OBVIOUS
  <2> HIDE DEF g, D
  <2>3. [n \in D |-> g[n]] = [n \in D |-> IF n = 0 THEN [seen |-> <<>>, ptr |-> p]
                                          ELSE Follow(g[n - 1])]
    BY <2>1
  <2> QED
    BY <2>2, <2>3
<1>6. Rec(step)
  <2> HIDE DEF Rec, g
  <2> QED
    BY <1>5
<1>7. \A n \in D : step[n] = IF n = 0 THEN [seen |-> <<>>, ptr |-> p] ELSE Follow(step[n - 1])
  <2> HIDE DEF step
  <2> QED
    BY <1>6
<1> HIDE DEF step
<1>8. \A n \in D : step[n] = g[n]
  <2> DEFINE S == {n \in D : step[n] # g[n]}
  <2> SUFFICES ASSUME S # {} PROVE FALSE
    OBVIOUS
  <2>1. S \in SUBSET Nat
    OBVIOUS
  <2>2. PICK n \in S : \A k \in S : n <= k
    BY <2>1, Least
  <2>3. n \in D /\ step[n] # g[n]
    OBVIOUS
  <2>4. \A k \in D : g[k] = IF k = 0 THEN [seen |-> <<>>, ptr |-> p] ELSE Follow(g[k - 1])
    <3> HIDE DEF g
    <3> QED
      BY <1>5
  <2>5. n # 0
    <3> HIDE DEF g, S
    <3> QED
      BY <1>7, <2>3, <2>4
  <2>6. n - 1 \in D /\ ~(n <= n - 1)
    BY <1>2, <2>3, <2>5
  <2>7. step[n - 1] = g[n - 1]
    BY <2>2, <2>6
  <2> HIDE DEF g, S
  <2> QED
    BY <1>7, <2>3, <2>4, <2>5, <2>7
<1>9. step[z] = Reached(s, m)
  <2>1. z \in D /\ ~(z <= m)
    BY <1>2
  <2>2. g[z] = Reached(s, m)
    BY <2>1
  <2> HIDE DEF g
  <2> QED
    BY <1>8, <2>1, <2>2
<1>10. step[z].seen = s
  <2> HIDE DEF g
  <2> QED
    BY <1>3, <1>9
<1> QED
  BY <1>1, <1>10 DEF step, z, Follow

\* A queue from its end.
Backwards(s) == [i \in 1..Len(s) |-> s[Len(s) + 1 - i]]

(* The prev links lead through the queue from its end. *)
LEMMA BackwardIs ==
  ASSUME NEW q, NEW s \in Seq(Tasks), Represents(q, s), Distinct(s)
  PROVE  /\ Walk(q.tail, q.prev) = Backwards(s)
         /\ Len(Backwards(s)) = Len(s)
<1> DEFINE m == Len(s)
           r == Backwards(s)
<1>1. m \in Nat /\ (s = <<>> <=> m = 0)
  OBVIOUS
<1>2. r \in Seq(Tasks) /\ Len(r) = m /\ DOMAIN r = 1..m
  <2>1. \A i \in 1..m : m + 1 - i \in 1..m
    BY <1>1
  <2>2. \A i \in 1..m : s[m + 1 - i] \in Tasks
    BY <2>1
  <2> QED
    BY <1>1, <2>2 DEF Backwards
<1>3. \A i \in 1..m : r[i] = s[m + 1 - i]
  BY DEF Backwards
<1>4. /\ q.tail = IF m = 0 THEN NULL ELSE s[m]
      /\ \A i \in 1..m : q.prev[s[i]] = IF i = 1 THEN NULL ELSE s[i - 1]
  BY <1>1 DEF Represents
<1>5. \A i, j \in 1..m : s[i] = s[j] => i = j
  BY DEF Distinct
<1> HIDE DEF m, r
<1>6. q.tail = IF r = <<>> THEN NULL ELSE r[1]
  <2>1. r = <<>> <=> m = 0
    BY <1>1, <1>2
  <2>2. m # 0 => 1 \in 1..m /\ m + 1 - 1 = m
    BY <1>1
  <2> QED
    BY <1>3, <1>4, <2>1, <2>2
<1>7. ASSUME NEW i \in 1..m
      PROVE  q.prev[r[i]] = IF i = m THEN NULL ELSE r[i + 1]
  <2> DEFINE j == m + 1 - i
  <2>1. j \in 1..m /\ (j = 1 <=> i = m) /\ (i # m => i + 1 \in 1..m /\ m + 1 - (i + 1) = j - 1)
    BY <1>1
  <2>2. r[i] = s[j]
    BY <1>3
  <2> HIDE DEF j
  <2>3. i # m => r[i + 1] = s[j - 1]
    BY <1>3, <2>1
  <2> QED
    BY <1>4, <2>1, <2>2, <2>3
<1>8. Distinct(r)
  <2>1. \A i, j \in 1..m : m + 1 - i \in 1..m /\ m + 1 - j \in 1..m /\ (m + 1 - i = m + 1 - j => i = j)
    BY <1>1
  <2>2. ASSUME NEW i \in 1..m, NEW j \in 1..m, r[i] = r[j] PROVE i = j
    <3>1. s[m + 1 - i] = s[m + 1 - j]
      BY <1>3, <2>2
    <3> QED
      BY <1>5, <2>1, <3>1
  <2> QED
    BY <1>2, <2>2 DEF Distinct
<1>9. Path(q.tail, q.prev, r)
  BY <1>2, <1>6, <1>7 DEF Path
<1>10. Walk(q.tail, q.prev) = r
  BY <1>2, <1>8, <1>9, WalkIs
<1> QED
  BY <1>2, <1>10 DEF r, m

-----------------------------------------------------------------------------
(* The operations on the links                                             *)

IsLinks(q) ==
  /\ q.next \in [Tasks -> Entries] /\ q.prev \in [Tasks -> Entries]
  /\ q.head \in Entries /\ q.tail \in Entries

(* add_to_ready_queue() appends. *)
LEMMA AddIs ==
  ASSUME NEW q, IsLinks(q), NEW s \in Seq(Tasks), Represents(q, s),
         NEW t \in Tasks, \A i \in 1..Len(s) : s[i] # t
  PROVE  IsLinks(Add(q, t)) /\ Represents(Add(q, t), Append(s, t))
<1> DEFINE m == Len(s)
           u == Append(s, t)
           a == Add(q, t)
<1>1. m \in Nat /\ (s = <<>> <=> m = 0)
  OBVIOUS
<1>2. u # <<>> /\ Len(u) = m + 1 /\ u[m + 1] = t /\ \A i \in 1..m : u[i] = s[i]
  <2>1. Len(u) = m + 1 /\ u[m + 1] = t /\ \A i \in 1..m : u[i] = s[i]
    OBVIOUS
  <2>2. u # <<>>
    OBVIOUS
  <2> QED
    BY <2>1, <2>2
<1>3. /\ q.next \in [Tasks -> Entries] /\ q.prev \in [Tasks -> Entries]
      /\ q.head \in Entries /\ q.tail \in Entries
  BY DEF IsLinks
<1>4. /\ q.head = IF m = 0 THEN NULL ELSE s[1]
      /\ q.tail = IF m = 0 THEN NULL ELSE s[m]
      /\ \A i \in 1..m : /\ q.next[s[i]] = IF i = m THEN NULL ELSE s[i + 1]
                         /\ q.prev[s[i]] = IF i = 1 THEN NULL ELSE s[i - 1]
  BY <1>1 DEF Represents, Path
<1>5. NULL \notin Tasks
  BY ReadyQueueAssumption
<1>6. \A i \in 1..m : s[i] \in Tasks /\ s[i] # t
  OBVIOUS
<1>7. /\ a.next = IF q.tail = NULL THEN [q.next EXCEPT ![t] = NULL]
                  ELSE [q.next EXCEPT ![t] = NULL, ![q.tail] = t]
      /\ a.prev = [q.prev EXCEPT ![t] = q.tail]
      /\ a.head = IF q.head = NULL THEN t ELSE q.head
      /\ a.tail = t
  BY DEF Add
<1>8. m # 0 => 1 \in 1..m /\ m \in 1..m
  BY <1>1
<1> HIDE DEF m, u, a
<1>9. IsLinks(a)
  <2>1. t \in Entries /\ NULL \in Entries
    BY DEF Entries
  <2>2. a.next \in [Tasks -> Entries]
    <3> DEFINE f == [q.next EXCEPT ![t] = NULL]
    <3>1. f \in [Tasks -> Entries]
      BY <1>3, <2>1
    <3> HIDE DEF f
    <3>2. [f EXCEPT ![q.tail] = t] \in [Tasks -> Entries]
      BY <2>1, <3>1
    <3>3. a.next = IF q.tail = NULL THEN f ELSE [f EXCEPT ![q.tail] = t]
      BY <1>7 DEF f
    <3> QED
      BY <3>1, <3>2, <3>3
  <2>3. a.prev \in [Tasks -> Entries]
    BY <1>3, <1>7, <2>1
  <2> QED
    BY <1>3, <1>7, <2>1, <2>2, <2>3 DEF IsLinks
<1>10. a.head = u[1]
  <2>1. CASE m = 0
    BY <1>2, <1>4, <1>7, <2>1
  <2>2. CASE m # 0
    BY <1>2, <1>4, <1>5, <1>6, <1>7, <1>8, <2>2
  <2> QED
    BY <2>1, <2>2
<1>11. m # 0 => q.tail = s[m] /\ q.tail \in Tasks /\ q.tail # NULL /\ q.tail # t
  BY <1>4, <1>5, <1>6, <1>8
<1>12. \A x \in Tasks : a.next[x] = IF x = t THEN NULL
                                    ELSE IF m # 0 /\ x = s[m] THEN t ELSE q.next[x]
  <2>1. CASE m = 0
    BY <1>3, <1>4, <1>7, <2>1
  <2>2. CASE m # 0
    BY <1>3, <1>7, <1>11, <2>2
  <2> QED
    BY <2>1, <2>2
<1>13. \A x \in Tasks : a.prev[x] = IF x = t THEN q.tail ELSE q.prev[x]
  BY <1>3, <1>7
<1>14. ASSUME NEW i \in 1..(m + 1)
       PROVE  /\ a.next[u[i]] = IF i = m + 1 THEN NULL ELSE u[i + 1]
              /\ a.prev[u[i]] = IF i = 1 THEN NULL ELSE u[i - 1]
  <2>1. CASE i = m + 1
    <3>1. u[i] = t /\ a.next[u[i]] = NULL /\ a.prev[u[i]] = q.tail
      BY <1>2, <1>12, <1>13, <2>1
    <3>2. CASE m = 0
      BY <1>4, <2>1, <3>1, <3>2
    <3>3. CASE m # 0
      <4>1. i # 1 /\ i - 1 = m
        BY <1>1, <2>1, <3>3
      <4>2. u[i - 1] = s[m]
        BY <1>2, <1>8, <3>3, <4>1
      <4> QED
        BY <1>11, <2>1, <3>1, <3>3, <4>1, <4>2
    <3> QED
      BY <3>2, <3>3
  <2>2. CASE i # m + 1
    <3>1. i \in 1..m /\ m # 0 /\ (i # 1 => i - 1 \in 1..m) /\ (i # m => i + 1 \in 1..m)
      BY <1>1, <2>2
    <3>2. u[i] = s[i] /\ s[i] \in Tasks /\ s[i] # t
      BY <1>2, <1>6, <3>1
    <3>3. a.prev[u[i]] = IF i = 1 THEN NULL ELSE u[i - 1]
      <4>1. a.prev[u[i]] = IF i = 1 THEN NULL ELSE s[i - 1]
        BY <1>4, <1>13, <3>1, <3>2
      <4> QED
        BY <1>2, <3>1, <4>1
    <3>4. a.next[u[i]] = u[i + 1]
      <4>1. CASE i = m
        BY <1>2, <1>12, <3>1, <3>2, <4>1
      <4>2. CASE i # m
        <5>1. q.next[s[i]] = s[i + 1] /\ u[i + 1] = s[i + 1]
          BY <1>2, <1>4, <3>1, <4>2
        <5>2. s[i] # s[m]
          <6>1. s[i + 1] # NULL
            BY <1>5, <1>6, <3>1, <4>2
          <6>2. q.next[s[m]] = NULL
            BY <1>4, <1>8, <3>1
          <6> QED
            BY <5>1, <6>1, <6>2
        <5> QED
          BY <1>12, <3>1, <3>2, <5>1, <5>2
      <4> QED
        BY <4>1, <4>2
    <3> QED
      BY <2>2, <3>3, <3>4
  <2> QED
    BY <2>1, <2>2
<1>15. Represents(a, u)
  <2>1. \A i \in 1..Len(u) : /\ a.next[u[i]] = IF i = Len(u) THEN NULL ELSE u[i + 1]
                             /\ a.prev[u[i]] = IF i = 1 THEN NULL ELSE u[i - 1]
    BY <1>2, <1>14
  <2>2. a.tail = u[Len(u)]
    BY <1>2, <1>7
  <2> QED
    BY <1>2, <1>10, <2>1, <2>2 DEF Represents, Path
<1> QED
  BY <1>9, <1>15 DEF a, u

(* remove_from_ready_queue() of the head leaves the rest. *)
LEMMA RemoveIs ==
  ASSUME NEW q, IsLinks(q), NEW s \in Seq(Tasks), s # <<>>, Represents(q, s), Distinct(s)
  PROVE  /\ q.head = s[1] /\ s[1] \in Tasks /\ q.head # NULL
         /\ IsLinks(Remove(q, q.head)) /\ Represents(Remove(q, q.head), Tail(s))
         /\ Tail(s) \in Seq(Tasks)
<1> DEFINE m == Len(s)
           u == Tail(s)
           t == s[1]
           a == Remove(q, t)
           n == q.next[t]
<1>1. m \in Nat /\ m # 0 /\ 1 \in 1..m /\ m \in 1..m
  OBVIOUS
<1>2. u \in Seq(Tasks) /\ Len(u) = m - 1 /\ \A i \in 1..(m - 1) : u[i] = s[i + 1]
  BY <1>1
<1>3. /\ q.next \in [Tasks -> Entries] /\ q.prev \in [Tasks -> Entries]
      /\ q.head \in Entries /\ q.tail \in Entries
  BY DEF IsLinks
<1>4. /\ q.head = t
      /\ q.tail = s[m]
      /\ \A i \in 1..m : /\ q.next[s[i]] = IF i = m THEN NULL ELSE s[i + 1]
                         /\ q.prev[s[i]] = IF i = 1 THEN NULL ELSE s[i - 1]
  BY <1>1 DEF Represents, Path
<1>5. NULL \notin Tasks
  BY ReadyQueueAssumption
<1>6. t \in Tasks /\ \A i \in 1..m : s[i] \in Tasks
  BY <1>1
<1>7. q.prev[t] = NULL /\ n = IF m = 1 THEN NULL ELSE s[2]
  <2>1. \A i \in 1..m : /\ q.next[s[i]] = IF i = m THEN NULL ELSE s[i + 1]
                        /\ q.prev[s[i]] = IF i = 1 THEN NULL ELSE s[i - 1]
    BY <1>4
  <2>2. /\ q.next[s[1]] = IF 1 = m THEN NULL ELSE s[1 + 1]
        /\ q.prev[s[1]] = IF 1 = 1 THEN NULL ELSE s[1 - 1]
    BY <1>1, <2>1
  <2> QED
    BY <2>2
<1>8. /\ a.next = [x \in Tasks |-> IF x = t THEN NULL
                                   ELSE IF x = q.prev[t] THEN n ELSE q.next[x]]
      /\ a.prev = [x \in Tasks |-> IF x = t THEN NULL
                                   ELSE IF x = n THEN q.prev[t] ELSE q.prev[x]]
      /\ a.head = IF q.prev[t] = NULL THEN n ELSE q.head
      /\ a.tail = IF n = NULL THEN q.prev[t] ELSE q.tail
  BY DEF Remove
<1>9. \A i, j \in 1..m : s[i] = s[j] => i = j
  BY DEF Distinct
<1> HIDE DEF m, u, a
<1>10. n \in Entries
  BY <1>3, <1>6
<1> HIDE DEF t, n
<1>11. IsLinks(a)
  <2>1. NULL \in Entries
    BY DEF Entries
  <2>2. a.next \in [Tasks -> Entries]
    BY <1>3, <1>8, <1>10, <2>1
  <2>3. a.prev \in [Tasks -> Entries]
    BY <1>3, <1>7, <1>8, <2>1
  <2> QED
    BY <1>3, <1>7, <1>8, <1>10, <2>1, <2>2, <2>3 DEF IsLinks
<1>12. ASSUME NEW i \in 1..(m - 1)
       PROVE  /\ a.next[u[i]] = IF i = m - 1 THEN NULL ELSE u[i + 1]
              /\ a.prev[u[i]] = IF i = 1 THEN NULL ELSE u[i - 1]
  <2> DEFINE j == i + 1
  <2>1. /\ j \in 1..m /\ j # 1 /\ m # 1 /\ (j = m <=> i = m - 1) /\ j - 1 = i
        /\ (i # m - 1 => i + 1 \in 1..(m - 1)) /\ (i # 1 => i - 1 \in 1..(m - 1) /\ i - 1 + 1 = i)
        /\ (i = 1 <=> j = 2) /\ 2 \in 1..m /\ i \in 1..m
    BY <1>1
  <2>2. u[i] = s[j] /\ (i # m - 1 => u[i + 1] = s[j + 1]) /\ (i # 1 => u[i - 1] = s[i])
    BY <1>2, <2>1
  <2> HIDE DEF j
  <2>3. s[j] \in Tasks /\ s[j] # t /\ s[j] # NULL
    BY <1>1, <1>5, <1>6, <1>9, <2>1 DEF t
  <2>4. a.next[u[i]] = q.next[s[j]]
    BY <1>7, <1>8, <2>2, <2>3
  <2>5. s[j] = n <=> i = 1
    BY <1>7, <1>9, <2>1
  <2>6. a.prev[u[i]] = IF i = 1 THEN NULL ELSE q.prev[s[j]]
    BY <1>7, <1>8, <2>2, <2>3, <2>5
  <2> QED
    BY <1>4, <2>1, <2>2, <2>4, <2>6
<1>13. a.head = IF u = <<>> THEN NULL ELSE u[1]
  <2>1. CASE m = 1
    BY <1>2, <1>7, <1>8, <2>1
  <2>2. CASE m # 1
    <3>1. 1 \in 1..(m - 1) /\ u # <<>> /\ 1 + 1 = 2
      BY <1>1, <1>2, <2>2
    <3>2. u[1] = s[2]
      BY <1>2, <3>1
    <3> QED
      BY <1>7, <1>8, <2>2, <3>1, <3>2
  <2> QED
    BY <2>1, <2>2
<1>14. a.tail = IF u = <<>> THEN NULL ELSE u[Len(u)]
  <2>1. CASE m = 1
    BY <1>2, <1>7, <1>8, <2>1
  <2>2. CASE m # 1
    <3>1. m - 1 \in 1..(m - 1) /\ u # <<>> /\ m - 1 + 1 = m /\ 2 \in 1..m
      BY <1>1, <1>2, <2>2
    <3>2. u[Len(u)] = s[m]
      BY <1>2, <3>1
    <3>3. n # NULL
      BY <1>5, <1>6, <1>7, <2>2, <3>1
    <3> QED
      BY <1>4, <1>8, <3>1, <3>2, <3>3
  <2> QED
    BY <2>1, <2>2
<1>15. Represents(a, u)
  BY <1>2, <1>12, <1>13, <1>14 DEF Represents, Path
<1> QED
  BY <1>2, <1>4, <1>5, <1>6, <1>11, <1>15 DEF a, u, t

(* Appending a task that is not queued keeps a queue without duplicates.   *)
LEMMA AppendHolds ==
  ASSUME NEW s \in Seq(Tasks), NEW t \in Tasks, \A i \in 1..Len(s) : s[i] # t,
         Distinct(s), NEW S, Holds(s, S)
  PROVE  /\ Append(s, t) \in Seq(Tasks) /\ Append(s, t) # <<>>
         /\ Distinct(Append(s, t)) /\ Holds(Append(s, t), S \union {t})
<1> DEFINE m == Len(s)
           u == Append(s, t)
<1>1. /\ m \in Nat /\ u \in Seq(Tasks) /\ Len(u) = m + 1
      /\ u[m + 1] = t /\ \A i \in 1..m : u[i] = s[i]
  OBVIOUS
<1>2. u # <<>>
  OBVIOUS
<1>3. \A i \in 1..m : s[i] # t
  OBVIOUS
<1>4. (\A i, j \in 1..m : s[i] = s[j] => i = j) /\ \A x \in Tasks : x \in S <=> \E i \in 1..m : s[i] = x
  BY DEF Distinct, Holds
<1> HIDE DEF m, u
<1>5. \A i \in 1..(m + 1) : i = m + 1 \/ i \in 1..m
  BY <1>1
<1>6. 1..m \subseteq 1..(m + 1) /\ m + 1 \in 1..(m + 1)
  BY <1>1
<1>7. ASSUME NEW i \in 1..(m + 1), NEW j \in 1..(m + 1), u[i] = u[j] PROVE i = j
  BY <1>1, <1>3, <1>4, <1>5, <1>7
<1>8. ASSUME NEW x \in Tasks PROVE x \in S \union {t} <=> \E i \in 1..(m + 1) : u[i] = x
  <2>1. CASE x = t
    BY <1>1, <1>6, <2>1
  <2>2. CASE x # t
    BY <1>1, <1>4, <1>5, <1>6, <2>2
  <2> QED
    BY <2>1, <2>2
<1>9. Distinct(u)
  BY <1>1, <1>7 DEF Distinct
<1>10. Holds(u, S \union {t})
  BY <1>1, <1>8 DEF Holds
<1> QED
  BY <1>1, <1>2, <1>9, <1>10 DEF u

(* So does taking the first.                                               *)
LEMMA TailHolds ==
  ASSUME NEW s \in Seq(Tasks), s # <<>>, Distinct(s), NEW S, Holds(s, S)
  PROVE  /\ s[1] \in Tasks /\ s[1] \in S
         /\ Distinct(Tail(s)) /\ Holds(Tail(s), S \ {s[1]})
<1> DEFINE m == Len(s)
           u == Tail(s)
           t == s[1]
<1>1. /\ m \in Nat /\ 1 \in 1..m /\ Len(u) = m - 1
      /\ \A i \in 1..(m - 1) : u[i] = s[i + 1]
  OBVIOUS
<1>2. t \in Tasks
  BY <1>1
<1>3. (\A i, j \in 1..m : s[i] = s[j] => i = j) /\ \A x \in Tasks : x \in S <=> \E i \in 1..m : s[i] = x
  BY DEF Distinct, Holds
<1>4. t \in S
  BY <1>1, <1>2, <1>3
<1> HIDE DEF m, u
<1>5. /\ \A i \in 1..(m - 1) : i + 1 \in 1..m /\ i + 1 # 1
      /\ \A i \in 1..m : i # 1 => i - 1 \in 1..(m - 1) /\ i - 1 + 1 = i
      /\ \A i, j \in 1..(m - 1) : i + 1 = j + 1 => i = j
  BY <1>1
<1>6. ASSUME NEW i \in 1..(m - 1), NEW j \in 1..(m - 1), u[i] = u[j] PROVE i = j
  BY <1>1, <1>3, <1>5, <1>6
<1>7. ASSUME NEW x \in Tasks PROVE x \in S \ {t} <=> \E i \in 1..(m - 1) : u[i] = x
  <2>1. CASE x = t
    <3>1. \A i \in 1..(m - 1) : s[i + 1] # s[1]
      BY <1>1, <1>3, <1>5
    <3> QED
      BY <1>1, <2>1, <3>1
  <2>2. CASE x # t
    <3>1. ASSUME NEW i \in 1..m, s[i] = x PROVE \E j \in 1..(m - 1) : u[j] = x
      <4>1. i # 1
        BY <2>2, <3>1
      <4>2. i - 1 \in 1..(m - 1) /\ i - 1 + 1 = i
        BY <1>5, <4>1
      <4>3. u[i - 1] = s[i]
        BY <1>1, <4>2
      <4> QED
        BY <3>1, <4>2, <4>3
    <3>2. ASSUME NEW j \in 1..(m - 1), u[j] = x PROVE \E i \in 1..m : s[i] = x
      BY <1>1, <1>5, <3>2
    <3> QED
      BY <1>3, <2>2, <3>1, <3>2
  <2> QED
    BY <2>1, <2>2
<1>8. Distinct(u)
  BY <1>1, <1>6 DEF Distinct
<1>9. Holds(u, S \ {t})
  BY <1>1, <1>7 DEF Holds
<1> QED
  BY <1>2, <1>4, <1>8, <1>9 DEF u

(* The end pointers and links a queue has do not depend on other entries.  *)
LEMMA OthersFree ==
  ASSUME NEW q, NEW r, NEW s \in Seq(Tasks), Represents(q, s),
         r.head = q.head, r.tail = q.tail,
         \A i \in 1..Len(s) : r.next[s[i]] = q.next[s[i]] /\ r.prev[s[i]] = q.prev[s[i]]
  PROVE  Represents(r, s)
BY DEF Represents, Path

-----------------------------------------------------------------------------
(* The steps                                                               *)

\* The list as read from the head: a first task is not seen before SetHead.
Shown(s) == IF at \in {"tail", "head"} /\ head = NULL THEN <<>> ELSE s

\* What a step does to the queue c: it leaves it alone, or is one of TaskQueue.
QueueStep(c, d) ==
  \/ d = c
  \/ c # <<>> /\ d = Tail(c)
  \/ \E t \in Tasks : /\ \A i \in 1..Len(c) : c[i] # t
                      /\ d = Append(c, t) \/ d = Tail(Append(c, t))

\* A step from queue s keeps the invariant and is one of TaskQueue.
Follows(s) ==
  /\ Types' /\ Running' /\ Creates'
  /\ \E u \in Seq(Tasks) : Linked(u)' /\ QueueStep(Shown(s), Shown(u)')

(* schedule() runs the first task of a queue and takes it off.             *)
LEMMA DispatchIs ==
  ASSUME NEW q, IsLinks(q), NEW s \in Seq(Tasks), s # <<>>, Represents(q, s), Distinct(s),
         NEW st, Dispatch(q, st)
  PROVE  /\ Represents(Links', Tail(s)) /\ IsLinks(Links') /\ Tail(s) \in Seq(Tasks)
         /\ state' = [st EXCEPT ![s[1]] = "RUNNING"] /\ current' = s[1]
<1> DEFINE a == Remove(q, q.head)
<1>1. /\ q.head = s[1] /\ s[1] \in Tasks /\ q.head # NULL
      /\ IsLinks(a) /\ Represents(a, Tail(s)) /\ Tail(s) \in Seq(Tasks)
  BY RemoveIs
<1>2. /\ SetLinks(a) /\ state' = [st EXCEPT ![q.head] = "RUNNING"] /\ current' = q.head
  BY <1>1 DEF Dispatch
<1> HIDE DEF a
<1>3. Links'.next = a.next /\ Links'.prev = a.prev /\ Links'.head = a.head /\ Links'.tail = a.tail
  BY <1>2 DEF SetLinks, Links
<1> DEFINE u == Tail(s)
           r == Links'
<1> HIDE DEF u, r
<1>4. r.next = a.next /\ r.prev = a.prev /\ r.head = a.head /\ r.tail = a.tail
  BY <1>3 DEF r
<1>5. Represents(r, u)
  BY <1>1, <1>4 DEF Represents, Path, u
<1>6. IsLinks(r)
  BY <1>1, <1>4 DEF IsLinks
<1> QED
  BY <1>1, <1>2, <1>5, <1>6 DEF u, r

(* Nothing is linked while other tasks may run.                            *)
LEMMA Waits ==
  ASSUME Types, Running, Creates, NEW s \in Seq(Tasks), Linked(s), at \in {"wfi", "fill", "prev"}
  PROVE  /\ Represents(Links, s) /\ Holds(s, Ready \ {new}) /\ Distinct(s)
         /\ state[current] = "RUNNING" /\ current \in Tasks
         /\ current # new /\ current \notin Ready
<1>1. Represents(Links, s) /\ Holds(s, Ready \ {new}) /\ Distinct(s)
  BY DEF Linked, Before, After
<1>2. state[current] = "RUNNING" /\ current \in Tasks
  BY DEF Running, Types
<1>3. current # new
  BY <1>2, ReadyQueueAssumption DEF Creates
<1> QED
  BY <1>1, <1>2, <1>3 DEF Ready

(* A preemption puts the current task last and takes the first.            *)
LEMMA TickStep ==
  ASSUME Types, Running, Creates, NEW s \in Seq(Tasks), Linked(s), Tick, at \in {"wfi", "fill", "prev"}
  PROVE  Follows(s)
<1> DEFINE st == [state EXCEPT ![current] = "READY"]
           u == Append(s, current)
           q == Add(Links, current)
           S == Ready \ {new}
<1>1. /\ Represents(Links, s) /\ Holds(s, S) /\ Distinct(s)
      /\ state[current] = "RUNNING" /\ current \in Tasks
      /\ current # new /\ current \notin Ready
  BY Waits
<1>2. at' = at /\ new' = new /\ gone' = gone
  BY DEF Tick
<1>3. \A i \in 1..Len(s) : s[i] # current
  BY <1>1 DEF Holds
<1>4. IsLinks(Links)
  BY DEF IsLinks, Links, Types
<1>5. IsLinks(q) /\ Represents(q, u)
  BY <1>1, <1>3, <1>4, AddIs
<1> HIDE DEF S
<1>6. u \in Seq(Tasks) /\ u # <<>> /\ Distinct(u) /\ Holds(u, S \union {current})
  BY <1>1, <1>3, AppendHolds
<1>7. Dispatch(q, st)
  BY DEF Tick
<1> HIDE DEF q, u, st
<1>8. /\ Represents(Links', Tail(u)) /\ IsLinks(Links') /\ Tail(u) \in Seq(Tasks)
      /\ state' = [st EXCEPT ![u[1]] = "RUNNING"] /\ current' = u[1]
  BY <1>5, <1>6, <1>7, DispatchIs
<1>9. /\ u[1] \in Tasks /\ u[1] \in S \union {current}
      /\ Distinct(Tail(u)) /\ Holds(Tail(u), (S \union {current}) \ {u[1]})
  BY <1>6, TailHolds
<1>10. PICK v \in Seq(Tasks) : v = Tail(u)
  BY <1>8
<1>11. PICK t \in Tasks : t = u[1]
  BY <1>9
<1>12. state' = [[state EXCEPT ![current] = "READY"] EXCEPT ![t] = "RUNNING"] /\ current' = t
  BY <1>8, <1>11 DEF st
<1>13. \A x \in Tasks : state'[x] = IF x = t THEN "RUNNING"
                                    ELSE IF x = current THEN "READY" ELSE state[x]
  BY <1>1, <1>12 DEF Types
<1>14. t # new /\ (t = current \/ state[t] = "READY")
  BY <1>1, <1>9, <1>11 DEF S, Ready
<1>15. Ready' \ {new'} = (S \union {current}) \ {t}
  BY <1>1, <1>2, <1>13 DEF Ready, S
<1>16. Types'
  <2>1. /\ next' \in [Tasks -> Entries] /\ prev' \in [Tasks -> Entries]
        /\ head' \in Entries /\ tail' \in Entries
    BY <1>8 DEF IsLinks, Links
  <2>2. state' \in [Tasks -> {"READY", "RUNNING", "TERMINATED"}]
    BY <1>1, <1>12 DEF Types
  <2> QED
    BY <1>2, <1>12, <2>1, <2>2 DEF Types, Entries
<1>17. Running'
  <2>1. ASSUME NEW x \in Tasks PROVE state'[x] = "RUNNING" <=> x = current'
    <3>1. state[x] = "RUNNING" <=> x = current
      BY DEF Running
    <3>2. current' = t
      BY <1>12
    <3> QED
      BY <1>13, <3>1, <3>2
  <2>2. ASSUME NEW x \in Tasks PROVE (x \in gone <=> state'[x] = "TERMINATED")
    <3>1. x \in gone <=> state[x] = "TERMINATED"
      BY DEF Running
    <3> QED
      BY <1>1, <1>13, <1>14, <3>1
  <2>3. state'[Idle] # "TERMINATED"
    BY <1>13, ReadyQueueAssumption DEF Running
  <2> QED
    BY <1>2, <2>1, <2>2, <2>3 DEF Running
<1>18. Creates'
  BY <1>1, <1>2, <1>13, <1>14 DEF Creates
<1>19. Linked(v)'
  <2>1. Represents(Links', v) /\ Holds(v, Ready' \ {new'}) /\ Distinct(v)
    BY <1>8, <1>9, <1>10, <1>11, <1>15
  <2>2. Before(v)'
    BY <1>2, <2>1 DEF Before
  <2> QED
    BY <2>1, <2>2 DEF Linked
<1>20. QueueStep(Shown(s), Shown(v)')
  <2>1. Shown(s) = s /\ Shown(v)' = v
    BY <1>2 DEF Shown
  <2>2. v = Tail(Append(s, current))
    BY <1>10 DEF u
  <2> QED
    BY <1>1, <1>3, <2>1, <2>2 DEF QueueStep
<1> QED
  BY <1>16, <1>17, <1>18, <1>19, <1>20 DEF Follows

(* An idle task that is alone is put on the queue and taken off again.     *)
LEMMA AloneIs ==
  ASSUME Types, Running, current = Idle, head = NULL, tail = NULL, Tick
  PROVE  /\ next' = [next EXCEPT ![Idle] = NULL] /\ prev' = [prev EXCEPT ![Idle] = NULL]
         /\ head' = NULL /\ tail' = NULL
         /\ state' = state /\ current' = current
         /\ at' = at /\ new' = new /\ gone' = gone
<1> DEFINE q == Add(Links, Idle)
           a == Remove(q, Idle)
<1>1. Idle \in Tasks /\ NULL \notin Tasks /\ state[Idle] = "RUNNING"
  BY ReadyQueueAssumption DEF Running
<1>2. /\ q.next = [next EXCEPT ![Idle] = NULL] /\ q.prev = [prev EXCEPT ![Idle] = NULL]
      /\ q.head = Idle /\ q.tail = Idle
  BY DEF Add, Links
<1>3. q.next[Idle] = NULL /\ q.prev[Idle] = NULL
  BY <1>1, <1>2 DEF Types
<1>4. \A x \in Tasks : q.next[x] = IF x = Idle THEN NULL ELSE next[x]
  BY <1>1, <1>2 DEF Types
<1>5. \A x \in Tasks : q.prev[x] = IF x = Idle THEN NULL ELSE prev[x]
  BY <1>1, <1>2 DEF Types
<1>6. Dispatch(q, [state EXCEPT ![Idle] = "READY"])
  BY DEF Tick
<1>7. q.head # NULL
  BY <1>1, <1>2
<1> HIDE DEF q
<1>8. /\ SetLinks(a) /\ current' = Idle
      /\ state' = [[state EXCEPT ![Idle] = "READY"] EXCEPT ![Idle] = "RUNNING"]
  BY <1>2, <1>6, <1>7 DEF Dispatch
<1>9. /\ a.next = [x \in Tasks |-> IF x = Idle THEN NULL
                                   ELSE IF x = NULL THEN NULL ELSE q.next[x]]
      /\ a.prev = [x \in Tasks |-> IF x = Idle THEN NULL
                                   ELSE IF x = NULL THEN NULL ELSE q.prev[x]]
      /\ a.head = NULL /\ a.tail = NULL
  BY <1>3 DEF Remove
<1> HIDE DEF a
<1>10. next' = [next EXCEPT ![Idle] = NULL]
  <2>1. next' = [x \in Tasks |-> IF x = Idle THEN NULL ELSE next[x]]
    BY <1>1, <1>4, <1>8, <1>9 DEF SetLinks
  <2> QED
    BY <1>1, <2>1 DEF Types
<1>11. prev' = [prev EXCEPT ![Idle] = NULL]
  <2>1. prev' = [x \in Tasks |-> IF x = Idle THEN NULL ELSE prev[x]]
    BY <1>1, <1>5, <1>8, <1>9 DEF SetLinks
  <2> QED
    BY <1>1, <2>1 DEF Types
<1>12. state' = state
  BY <1>1, <1>8 DEF Types
<1> QED
  BY <1>8, <1>9, <1>10, <1>11, <1>12 DEF SetLinks, Tick

(* A list that is empty but for the task being linked.                     *)
LEMMA Empty ==
  ASSUME Types, Creates, NEW s \in Seq(Tasks), Linked(s), at \in {"next", "tail"}, tail = NULL
  PROVE  /\ head = NULL
         /\ at = "next" => s = <<>>
         /\ at = "tail" => Len(s) = 1 /\ s[1] = new
<1>1. CASE at = "next"
  <2>1. Represents(Links, s)
    BY <1>1 DEF Linked, Before, After
  <2>2. s # <<>> => Len(s) \in 1..Len(s) /\ s[Len(s)] \in Tasks /\ Links.tail = s[Len(s)]
    BY <2>1 DEF Represents
  <2>3. s = <<>>
    BY <2>2, ReadyQueueAssumption DEF Links
  <2>4. Links.head = NULL
    BY <2>1, <2>3 DEF Represents, Path
  <2> QED
    BY <1>1, <2>3, <2>4 DEF Links
<1>2. CASE at = "tail"
  <2>1. Represents(Finished, s) /\ head = NULL /\ prev[new] = NULL /\ new \in Tasks
    BY <1>2 DEF Linked, Before, After, Creates
  <2>2. Finished.head = new /\ Finished.tail = new /\ Finished.prev = prev
    BY <2>1 DEF Finished, Links
  <2>3. s # <<>> /\ s[1] = new /\ s[Len(s)] = new
    BY <2>1, <2>2, ReadyQueueAssumption DEF Represents, Path
  <2>4. Len(s) = 1
    <3>1. Len(s) \in 1..Len(s) /\ (Len(s) # 1 => Len(s) - 1 \in 1..Len(s))
      <4> DEFINE m == Len(s)
      <4>1. m \in Nat /\ m # 0
        BY <2>3
      <4> HIDE DEF m
      <4>2. m \in 1..m /\ (m # 1 => m - 1 \in 1..m)
        BY <4>1
      <4> QED
        BY <4>2 DEF m
    <3>2. \A i \in 1..Len(s) : prev[s[i]] = IF i = 1 THEN NULL ELSE s[i - 1]
      BY <2>1, <2>2 DEF Represents
    <3>3. Len(s) # 1 => prev[new] = s[Len(s) - 1] /\ s[Len(s) - 1] \in Tasks
      BY <2>3, <3>1, <3>2
    <3> QED
      BY <2>1, <3>3, ReadyQueueAssumption
  <2> QED
    BY <1>2, <2>1, <2>3, <2>4
<1> QED
  BY <1>1, <1>2

(* A tick there changes nothing but the idle task's own links.             *)
LEMMA AloneStep ==
  ASSUME Types, Running, Creates, NEW s \in Seq(Tasks), Linked(s), Tick,
         at \in {"next", "tail"}, tail = NULL
  PROVE  Follows(s)
<1>1. current = Idle /\ new \in Tasks /\ new # Idle
  BY DEF Creates
<1>2. /\ head = NULL
      /\ at = "next" => s = <<>>
      /\ at = "tail" => Len(s) = 1 /\ s[1] = new
  BY Empty
<1>3. /\ next' = [next EXCEPT ![Idle] = NULL] /\ prev' = [prev EXCEPT ![Idle] = NULL]
      /\ head' = NULL /\ tail' = NULL
      /\ state' = state /\ current' = current
      /\ at' = at /\ new' = new /\ gone' = gone
  BY <1>1, <1>2, AloneIs
<1>4. next'[new] = next[new] /\ prev'[new] = prev[new]
  BY <1>1, <1>3 DEF Types
<1>5. Types'
  BY <1>3, ReadyQueueAssumption DEF Types, Entries
<1>6. Running' /\ Creates'
  BY <1>3 DEF Running, Creates
<1>7. Ready' = Ready
  BY <1>3 DEF Ready
<1>8. Linked(s)'
  <2>1. Distinct(s)
    BY DEF Linked
  <2>2. CASE at = "next"
    <3>1. Represents(Links, s) /\ Holds(s, Ready \ {new}) /\ prev[new] = tail /\ next[new] = NULL
      BY <2>2 DEF Linked, Before, After
    <3>2. Links'.head = Links.head /\ Links'.tail = Links.tail
      BY <1>2, <1>3 DEF Links
    <3>3. \A i \in 1..Len(s) : FALSE
      BY <1>2, <2>2
    <3>4. Represents(Links', s)
      <4> HIDE DEF Links
      <4> QED
        BY <3>1, <3>2, <3>3, OthersFree
    <3>5. Before(s)'
      BY <1>3, <1>4, <1>7, <2>2, <3>1, <3>4 DEF Before
    <3> QED
      BY <2>1, <3>5 DEF Linked
  <2>3. CASE at = "tail"
    <3>1. Represents(Finished, s) /\ Holds(s, Ready) /\ prev[new] = tail
      BY <2>3 DEF Linked, Before, After
    <3>2. /\ Finished'.head = Finished.head /\ Finished'.tail = Finished.tail
          /\ Finished'.next = next' /\ Finished.next = next
          /\ Finished'.prev = prev' /\ Finished.prev = prev
      BY <1>2, <1>3 DEF Finished, Links
    <3>3. \A i \in 1..Len(s) : s[i] = new
      <4>1. Len(s) = 1 /\ s[1] = new
        BY <1>2, <2>3
      <4>2. \A i \in 1..1 : i = 1
        OBVIOUS
      <4> QED
        BY <4>1, <4>2
    <3>4. Represents(Finished', s)
      <4> HIDE DEF Finished
      <4> QED
        BY <1>4, <3>1, <3>2, <3>3, OthersFree
    <3>5. After(s)'
      BY <1>3, <1>4, <1>7, <2>3, <3>1, <3>4 DEF After
    <3> QED
      BY <2>1, <3>5 DEF Linked
  <2> QED
    BY <2>2, <2>3
<1>9. Shown(s)' = Shown(s)
  BY <1>2, <1>3 DEF Shown
<1>10. QueueStep(Shown(s), Shown(s)')
  BY <1>9 DEF QueueStep
<1> QED
  BY <1>5, <1>6, <1>8, <1>10 DEF Follows

(* An exit finds the idle task, at least, in the queue.                    *)
LEMMA ExitStep ==
  ASSUME Types, Running, Creates, NEW s \in Seq(Tasks), Linked(s), Exit
  PROVE  Follows(s)
<1> DEFINE st == [state EXCEPT ![current] = "TERMINATED"]
           S == Ready \ {new}
<1>1. /\ current # Idle /\ at' = at /\ new' = new /\ gone' = gone \union {current}
      /\ at \in {"wfi", "fill", "prev"}
  BY DEF Exit, Creates, Types
<1>2. /\ Represents(Links, s) /\ Holds(s, S) /\ Distinct(s)
      /\ state[current] = "RUNNING" /\ current \in Tasks
      /\ current # new /\ current \notin Ready
  BY <1>1, Waits
<1>3. s # <<>>
  <2>1. state[Idle] = "READY" /\ Idle # new
    BY <1>1, ReadyQueueAssumption DEF Running, Types, Creates
  <2>2. \E i \in 1..Len(s) : s[i] = Idle
    BY <1>2, <2>1, ReadyQueueAssumption DEF Holds, Ready
  <2> QED
    BY <2>2
<1>4. IsLinks(Links)
  BY DEF IsLinks, Links, Types
<1>5. Dispatch(Links, st)
  BY DEF Exit
<1> HIDE DEF st, S
<1>6. /\ Represents(Links', Tail(s)) /\ IsLinks(Links') /\ Tail(s) \in Seq(Tasks)
      /\ state' = [st EXCEPT ![s[1]] = "RUNNING"] /\ current' = s[1]
  BY <1>2, <1>3, <1>4, <1>5, DispatchIs
<1>7. /\ s[1] \in Tasks /\ s[1] \in S
      /\ Distinct(Tail(s)) /\ Holds(Tail(s), S \ {s[1]})
  BY <1>2, <1>3, TailHolds
<1>8. PICK v \in Seq(Tasks) : v = Tail(s)
  BY <1>6
<1>9. PICK t \in Tasks : t = s[1]
  BY <1>7
<1>10. state' = [[state EXCEPT ![current] = "TERMINATED"] EXCEPT ![t] = "RUNNING"] /\ current' = t
  BY <1>6, <1>9 DEF st
<1>11. state[t] = "READY" /\ t # current /\ t # new
  BY <1>2, <1>7, <1>9 DEF Ready, S
<1>12. \A x \in Tasks : state'[x] = IF x = t THEN "RUNNING"
                                    ELSE IF x = current THEN "TERMINATED" ELSE state[x]
  BY <1>2, <1>10 DEF Types
<1>13. Ready' \ {new'} = S \ {t}
  BY <1>1, <1>2, <1>12 DEF Ready, S
<1>14. Types'
  <2>1. /\ next' \in [Tasks -> Entries] /\ prev' \in [Tasks -> Entries]
        /\ head' \in Entries /\ tail' \in Entries
    BY <1>6 DEF IsLinks, Links
  <2>2. state' \in [Tasks -> {"READY", "RUNNING", "TERMINATED"}]
    BY <1>2, <1>10 DEF Types
  <2> QED
    BY <1>1, <1>10, <2>1, <2>2 DEF Types, Entries
<1>15. Running'
  <2>1. ASSUME NEW x \in Tasks PROVE state'[x] = "RUNNING" <=> x = current'
    <3>1. state[x] = "RUNNING" <=> x = current
      BY DEF Running
    <3>2. current' = t
      BY <1>10
    <3> QED
      BY <1>12, <3>1, <3>2
  <2>2. ASSUME NEW x \in Tasks PROVE (x \in gone' <=> state'[x] = "TERMINATED")
    <3>1. x \in gone <=> state[x] = "TERMINATED"
      BY DEF Running
    <3> QED
      BY <1>1, <1>11, <1>12, <3>1
  <2>3. state'[Idle] # "TERMINATED"
    BY <1>1, <1>12, ReadyQueueAssumption DEF Running
  <2> QED
    BY <2>1, <2>2, <2>3 DEF Running
<1>16. Creates'
  BY <1>1, <1>2, <1>11, <1>12 DEF Creates
<1>17. Linked(v)'
  <2>1. Represents(Links', v) /\ Holds(v, Ready' \ {new'}) /\ Distinct(v)
    BY <1>6, <1>7, <1>8, <1>9, <1>13
  <2>2. Before(v)'
    BY <1>1, <2>1 DEF Before
  <2> QED
    BY <2>1, <2>2 DEF Linked
<1>18. QueueStep(Shown(s), Shown(v)')
  <2>1. Shown(s) = s /\ Shown(v)' = v
    BY <1>1 DEF Shown
  <2> QED
    BY <1>3, <1>8, <2>1 DEF QueueStep
<1> QED
  BY <1>14, <1>15, <1>16, <1>17, <1>18 DEF Follows

(* Nothing is linked by a step that leaves the links and the READY tasks   *)
(* but the new one alone.                                                  *)
LEMMA SameQueue ==
  ASSUME NEW s \in Seq(Tasks), Linked(s), at \in {"wfi", "fill"}, at' \in {"wfi", "fill", "prev"},
         Links' = Links, Ready' \ {new'} = Ready \ {new}
  PROVE  Linked(s)' /\ QueueStep(Shown(s), Shown(s)')
<1>1. Represents(Links, s) /\ Holds(s, Ready \ {new}) /\ Distinct(s)
  BY DEF Linked, Before, After
<1>2. Before(s)'
  BY <1>1 DEF Before
<1>3. Shown(s) = s /\ Shown(s)' = s
  BY DEF Shown
<1> QED
  BY <1>1, <1>2, <1>3 DEF Linked, QueueStep

(* The entry chosen is not READY.                                          *)
LEMMA ChooseStep ==
  ASSUME Types, Running, Creates, NEW s \in Seq(Tasks), Linked(s), NEW t \in Tasks, Choose(t)
  PROVE  Follows(s)
<1>1. /\ at = "wfi" /\ current = Idle /\ state[t] = "TERMINATED"
      /\ state' = state /\ gone' = gone /\ new' = t /\ at' = "fill"
      /\ next' = next /\ prev' = prev /\ head' = head /\ tail' = tail /\ current' = current
  BY DEF Choose, list
<1>2. Types' /\ Running' /\ Creates'
  BY <1>1 DEF Types, Running, Creates
<1>3. Links' = Links /\ Ready' \ {new'} = Ready \ {new}
  BY <1>1, ReadyQueueAssumption DEF Links, Ready, Creates
<1>4. Linked(s)' /\ QueueStep(Shown(s), Shown(s)')
  BY <1>1, <1>3, SameQueue
<1> QED
  BY <1>2, <1>4 DEF Follows

(* Neither is the entry given up.                                          *)
LEMMA GiveUpStep ==
  ASSUME Types, Running, Creates, NEW s \in Seq(Tasks), Linked(s), GiveUp
  PROVE  Follows(s)
<1>1. /\ at = "fill" /\ state' = state /\ gone' = gone /\ new' = NULL /\ at' = "wfi"
      /\ next' = next /\ prev' = prev /\ head' = head /\ tail' = tail /\ current' = current
  BY DEF GiveUp, list
<1>2. Types' /\ Running' /\ Creates'
  BY <1>1 DEF Types, Running, Creates
<1>3. Links' = Links /\ Ready' \ {new'} = Ready \ {new}
  BY <1>1, ReadyQueueAssumption DEF Links, Ready, Creates
<1>4. Linked(s)' /\ QueueStep(Shown(s), Shown(s)')
  BY <1>1, <1>3, SameQueue
<1> QED
  BY <1>2, <1>4 DEF Follows

(* An entry that is filled is in no list.                                  *)
LEMMA FillStep ==
  ASSUME Types, Running, Creates, NEW s \in Seq(Tasks), Linked(s), Fill
  PROVE  Follows(s)
<1>1. /\ at = "fill" /\ current = Idle /\ new \in Tasks /\ new # Idle /\ state[new] = "TERMINATED"
      /\ state' = [state EXCEPT ![new] = "READY"] /\ gone' = gone \ {new}
      /\ new' = new /\ at' = "prev"
      /\ next' = next /\ prev' = prev /\ head' = head /\ tail' = tail /\ current' = current
  BY DEF Fill, list, Creates
<1>2. \A x \in Tasks : state'[x] = IF x = new THEN "READY" ELSE state[x]
  BY <1>1 DEF Types
<1>3. Links' = Links /\ Ready' \ {new'} = Ready \ {new}
  BY <1>1, <1>2 DEF Links, Ready
<1>4. Types'
  BY <1>1 DEF Types, Entries
<1>5. Running'
  <2>1. ASSUME NEW x \in Tasks PROVE state'[x] = "RUNNING" <=> x = current'
    <3>1. state[x] = "RUNNING" <=> x = current
      BY DEF Running
    <3> QED
      BY <1>1, <1>2, <3>1
  <2>2. ASSUME NEW x \in Tasks PROVE (x \in gone' <=> state'[x] = "TERMINATED")
    <3>1. x \in gone <=> state[x] = "TERMINATED"
      BY DEF Running
    <3> QED
      BY <1>1, <1>2, <3>1
  <2>3. state'[Idle] # "TERMINATED"
    BY <1>2, ReadyQueueAssumption DEF Running
  <2> QED
    BY <2>1, <2>2, <2>3 DEF Running
<1>6. Creates'
  BY <1>1, <1>2 DEF Creates
<1>7. Linked(s)' /\ QueueStep(Shown(s), Shown(s)')
  BY <1>1, <1>3, SameQueue
<1> QED
  BY <1>4, <1>5, <1>6, <1>7 DEF Follows

(* What holds where a task is being linked.                                *)
LEMMA Creating ==
  ASSUME Types, Running, Creates, NEW s \in Seq(Tasks), Linked(s), at \in {"prev", "next"}
  PROVE  /\ new \in Tasks /\ Before(s) /\ Distinct(s)
         /\ Ready = (Ready \ {new}) \union {new}
         /\ \A i \in 1..Len(s) : s[i] # new /\ s[i] \in Tasks
<1>1. new \in Tasks /\ state[new] = "READY"
  BY DEF Creates
<1>2. Before(s) /\ Distinct(s)
  BY DEF Linked, After
<1>3. \A i \in 1..Len(s) : s[i] # new
  BY <1>1, <1>2 DEF Before, Holds
<1> QED
  BY <1>1, <1>2, <1>3 DEF Ready

(* task->next = NULL; task->prev = ready_queue_tail                        *)
LEMMA LinkPrevStep ==
  ASSUME Types, Running, Creates, NEW s \in Seq(Tasks), Linked(s), LinkPrev
  PROVE  Follows(s)
<1>1. /\ at = "prev" /\ at' = "next" /\ current = Idle
      /\ next' = [next EXCEPT ![new] = NULL] /\ prev' = [prev EXCEPT ![new] = tail]
      /\ head' = head /\ tail' = tail /\ gone' = gone
      /\ state' = state /\ current' = current /\ new' = new
  BY DEF LinkPrev
<1>2. /\ new \in Tasks /\ Before(s) /\ Distinct(s)
      /\ Ready = (Ready \ {new}) \union {new}
      /\ \A i \in 1..Len(s) : s[i] # new /\ s[i] \in Tasks
  BY <1>1, Creating
<1>3. Represents(Links', s)
  <2>1. \A i \in 1..Len(s) : prev'[s[i]] = prev[s[i]] /\ next'[s[i]] = next[s[i]]
    BY <1>1, <1>2 DEF Types
  <2>2. /\ Links'.head = Links.head /\ Links'.tail = Links.tail
        /\ Links'.prev = prev' /\ Links.prev = prev
        /\ Links'.next = next' /\ Links.next = next
    BY <1>1 DEF Links
  <2>3. Represents(Links, s)
    BY <1>2 DEF Before
  <2> HIDE DEF Links
  <2> QED
    BY <2>1, <2>2, <2>3, OthersFree
<1>4. prev'[new] = tail /\ next'[new] = NULL
  BY <1>1, <1>2 DEF Types
<1>5. Types'
  BY <1>1 DEF Types, Entries
<1>6. Running' /\ Creates'
  BY <1>1 DEF Running, Creates
<1>7. Linked(s)'
  <2>1. Holds(s, Ready' \ {new'})
    BY <1>1, <1>2 DEF Before, Ready
  <2>2. Before(s)'
    BY <1>1, <1>3, <1>4, <2>1 DEF Before
  <2> QED
    BY <1>2, <2>2 DEF Linked
<1>8. Shown(s) = s /\ Shown(s)' = s
  BY <1>1 DEF Shown
<1>9. QueueStep(Shown(s), Shown(s)')
  BY <1>8 DEF QueueStep
<1> QED
  BY <1>5, <1>6, <1>7, <1>9 DEF Follows

(* if (ready_queue_tail) ready_queue_tail->next = task                     *)
LEMMA LinkNextStep ==
  ASSUME Types, Running, Creates, NEW s \in Seq(Tasks), Linked(s), LinkNext
  PROVE  Follows(s)
<1> DEFINE q == Add(Links, new)
<1>1. /\ at = "next" /\ at' = "tail"
      /\ next' = IF tail = NULL THEN next ELSE [next EXCEPT ![tail] = new]
      /\ prev' = prev /\ head' = head /\ tail' = tail /\ gone' = gone
      /\ state' = state /\ current' = current /\ new' = new
  BY DEF LinkNext
<1>2. /\ new \in Tasks /\ Before(s) /\ Distinct(s)
      /\ Ready = (Ready \ {new}) \union {new}
      /\ \A i \in 1..Len(s) : s[i] # new /\ s[i] \in Tasks
  BY <1>1, Creating
<1>3. /\ Represents(Links, s) /\ Holds(s, Ready \ {new})
      /\ next[new] = NULL /\ prev[new] = tail
  BY <1>1, <1>2 DEF Before
<1>4. IsLinks(Links)
  BY DEF IsLinks, Links, Types
<1>5. IsLinks(q)
  BY <1>2, <1>3, <1>4, AddIs
<1>6. Represents(q, Append(s, new))
  BY <1>2, <1>3, <1>4, AddIs
<1>7. /\ Append(s, new) \in Seq(Tasks) /\ Append(s, new) # <<>>
      /\ Distinct(Append(s, new)) /\ Holds(Append(s, new), (Ready \ {new}) \union {new})
  BY <1>2, <1>3, AppendHolds
<1>8. PICK u \in Seq(Tasks) : u = Append(s, new)
  BY <1>7
<1>9. /\ q.next = IF tail = NULL THEN [next EXCEPT ![new] = NULL]
                  ELSE [next EXCEPT ![new] = NULL, ![tail] = new]
      /\ q.prev = [prev EXCEPT ![new] = tail]
      /\ q.head = IF head = NULL THEN new ELSE head
      /\ q.tail = new
  BY DEF Add, Links
<1> HIDE DEF q
<1>10. [next EXCEPT ![new] = NULL] = next
  BY <1>2, <1>3 DEF Types
<1>11. q.next = next' /\ q.prev = prev'
  <2>1. q.prev = prev
    BY <1>2, <1>3, <1>9 DEF Types
  <2>2. CASE tail = NULL
    BY <1>1, <1>9, <1>10, <2>1, <2>2
  <2>3. CASE tail # NULL
    <3>1. [next EXCEPT ![new] = NULL, ![tail] = new] = [[next EXCEPT ![new] = NULL] EXCEPT ![tail] = new]
      OBVIOUS
    <3> QED
      BY <1>1, <1>9, <1>10, <2>1, <2>3, <3>1
  <2> QED
    BY <2>2, <2>3
<1>12. /\ Finished'.next = next' /\ Finished'.prev = prev' /\ Finished'.tail = new
       /\ Finished'.head = IF head = NULL THEN new ELSE head
  BY <1>1 DEF Finished, Links
<1>13. Represents(Finished', u)
  <2> DEFINE r == Finished'
  <2>1. r.next = q.next /\ r.prev = q.prev /\ r.head = q.head /\ r.tail = q.tail
    BY <1>9, <1>11, <1>12
  <2> HIDE DEF r
  <2>2. Represents(r, u)
    BY <1>6, <1>8, <2>1, OthersFree
  <2> QED
    BY <2>2 DEF r
<1>14. Types'
  <2>1. next' \in [Tasks -> Entries]
    BY <1>5, <1>11 DEF IsLinks
  <2> QED
    BY <1>1, <2>1 DEF Types
<1>15. Running' /\ Creates'
  BY <1>1 DEF Running, Creates
<1>16. Linked(u)'
  <2>1. Distinct(u) /\ Holds(u, Ready')
    BY <1>1, <1>2, <1>7, <1>8 DEF Ready
  <2>2. tail = NULL => head = NULL
    <3>1. s # <<>> => Len(s) \in 1..Len(s) /\ Links.tail = s[Len(s)] /\ s[Len(s)] \in Tasks
      BY <1>2, <1>3 DEF Represents
    <3>2. tail = NULL => s = <<>>
      BY <3>1, ReadyQueueAssumption DEF Links
    <3>3. s = <<>> => Links.head = NULL
      BY <1>3 DEF Represents, Path
    <3> QED
      BY <3>2, <3>3 DEF Links
  <2>3. After(u)'
    BY <1>1, <1>3, <1>13, <2>1, <2>2 DEF After
  <2> QED
    BY <2>1, <2>3 DEF Linked
<1>17. QueueStep(Shown(s), Shown(u)')
  <2>1. Shown(s) = s
    BY <1>1 DEF Shown
  <2>2. CASE head = NULL
    <3>1. s = <<>>
      <4>1. s # <<>> => s[1] \in Tasks /\ Links.head = s[1]
        BY <1>3 DEF Represents, Path
      <4> QED
        BY <2>2, <4>1, ReadyQueueAssumption DEF Links
    <3>2. Shown(u)' = <<>>
      BY <1>1, <2>2 DEF Shown
    <3> QED
      BY <2>1, <3>1, <3>2 DEF QueueStep
  <2>3. CASE head # NULL
    <3>1. Shown(u)' = u
      BY <1>1, <2>3 DEF Shown
    <3>2. Shown(u)' = Append(s, new)
      BY <1>8, <3>1
    <3> QED
      BY <1>2, <2>1, <3>2 DEF QueueStep
  <2> QED
    BY <2>2, <2>3
<1> QED
  BY <1>14, <1>15, <1>16, <1>17 DEF Follows

(* ready_queue_tail = task                                                 *)
LEMMA SetTailStep ==
  ASSUME Types, Running, Creates, NEW s \in Seq(Tasks), Linked(s), SetTail
  PROVE  Follows(s)
<1>1. /\ at = "tail" /\ at' = "head" /\ tail' = new
      /\ next' = next /\ prev' = prev /\ head' = head /\ gone' = gone
      /\ state' = state /\ current' = current /\ new' = new
  BY DEF SetTail
<1>2. After(s) /\ Distinct(s)
  BY <1>1 DEF Linked, Before
<1>3. /\ Finished'.next = Finished.next /\ Finished'.prev = Finished.prev
      /\ Finished'.head = Finished.head /\ Finished'.tail = Finished.tail
  BY <1>1 DEF Finished, Links
<1>4. Types'
  BY <1>1 DEF Types, Creates, Entries
<1>5. Running' /\ Creates'
  BY <1>1 DEF Running, Creates
<1>6. Ready' = Ready
  BY <1>1 DEF Ready
<1>7. After(s)'
  <2>1. Represents(Finished, s) /\ Holds(s, Ready)
    BY <1>2 DEF After
  <2>2. Represents(Finished', s)
    <3> HIDE DEF Finished
    <3> QED
      BY <1>3, <2>1, OthersFree
  <2>3. Holds(s, Ready')
    BY <1>6, <2>1
  <2> QED
    BY <1>1, <2>2, <2>3 DEF After
<1>8. Linked(s)'
  BY <1>2, <1>7 DEF Linked
<1>9. Shown(s)' = Shown(s)
  BY <1>1 DEF Shown
<1>10. QueueStep(Shown(s), Shown(s)')
  BY <1>9 DEF QueueStep
<1> QED
  BY <1>4, <1>5, <1>8, <1>10 DEF Follows

(* if (!ready_queue_head) ready_queue_head = task                          *)
LEMMA SetHeadStep ==
  ASSUME Types, Running, Creates, NEW s \in Seq(Tasks), Linked(s), SetHead
  PROVE  Follows(s)
<1>1. /\ at = "head" /\ at' = "wfi" /\ head' = IF head = NULL THEN new ELSE head
      /\ next' = next /\ prev' = prev /\ tail' = tail /\ gone' = gone
      /\ state' = state /\ current' = current /\ new' = NULL
  BY DEF SetHead
<1>2. /\ new \in Tasks /\ Distinct(s) /\ tail = new
      /\ Represents(Finished, s) /\ Holds(s, Ready)
  BY <1>1 DEF Linked, Before, After, Creates
<1>3. /\ Links'.next = Finished.next /\ Links'.prev = Finished.prev
      /\ Links'.head = Finished.head /\ Links'.tail = Finished.tail
  BY <1>1, <1>2 DEF Finished, Links
<1>4. Types'
  BY <1>1, <1>2 DEF Types, Entries
<1>5. Running' /\ Creates'
  BY <1>1 DEF Running, Creates
<1>6. Linked(s)'
  <2>1. Represents(Links', s)
    <3> HIDE DEF Links, Finished
    <3> QED
      BY <1>2, <1>3, OthersFree
  <2>2. Ready' \ {new'} = Ready
    BY <1>1, ReadyQueueAssumption DEF Ready
  <2>3. Before(s)'
    BY <1>1, <1>2, <2>1, <2>2 DEF Before
  <2> QED
    BY <1>2, <2>3 DEF Linked
<1>7. QueueStep(Shown(s), Shown(s)')
  <2>1. Shown(s)' = s
    BY <1>1 DEF Shown
  <2>2. CASE head # NULL
    <3>1. Shown(s) = s
      BY <2>2 DEF Shown
    <3> QED
      BY <2>1, <3>1 DEF QueueStep
  <2>3. CASE head = NULL
    <3>1. Shown(s) = <<>>
      BY <1>1, <2>3 DEF Shown
    <3>2. s = Append(<<>>, new)
      <4>1. Finished.head = new /\ Finished.tail = new
        BY <2>3 DEF Finished, Links
      <4>2. s # <<>> /\ s[1] = new /\ s[Len(s)] = new
        BY <1>2, <4>1, ReadyQueueAssumption DEF Represents, Path
      <4>3. Len(s) = 1
        <5>1. 1 \in 1..Len(s) /\ Len(s) \in 1..Len(s) /\ s[1] = s[Len(s)]
          BY <4>2
        <5> QED
          BY <1>2, <5>1 DEF Distinct
      <4> QED
        BY <1>2, <4>2, <4>3
    <3>3. QueueStep(<<>>, Append(<<>>, new))
      BY <1>2 DEF QueueStep
    <3> QED
      BY <2>1, <3>1, <3>2, <3>3
  <2> QED
    BY <2>2, <2>3
<1> QED
  BY <1>4, <1>5, <1>6, <1>7 DEF Follows

-----------------------------------------------------------------------------
(* The theorems                                                            *)

(* The queue is empty at first.                                            *)
LEMMA InitIInv ==
  ASSUME Init
  PROVE  IInv /\ Linked(<<>>)
<1>1. Types
  BY ReadyQueueAssumption DEF Init, Types, Entries
<1>2. Running /\ Creates
  BY ReadyQueueAssumption DEF Init, Running, Creates
<1>3. Linked(<<>>)
  <2>1. Distinct(<<>>)
    BY DEF Distinct
  <2>2. Represents(Links, <<>>)
    BY DEF Represents, Path, Links, Init
  <2>3. Holds(<<>>, Ready \ {new})
    BY DEF Holds, Ready, Init
  <2> QED
    BY <2>1, <2>2, <2>3 DEF Linked, Before, Init
<1>4. <<>> \in Seq(Tasks)
  OBVIOUS
<1>5. torn = FALSE
  BY DEF Init
<1> QED
  BY <1>1, <1>2, <1>3, <1>4, <1>5 DEF IInv, Good

(* Every step follows from the queue before to one after.                  *)
LEMMA NextFollows ==
  ASSUME Types, Running, Creates, NEW s \in Seq(Tasks), Linked(s), [Next]_vars, ~torn'
  PROVE  Follows(s)
<1>1. CASE Tick
  <2>1. ~(current = Idle /\ InWindow)
    BY <1>1 DEF Tick
  <2>2. at \in {"wfi", "fill", "prev"} \/ (at \in {"next", "tail"} /\ tail = NULL)
    BY <2>1 DEF InWindow, Creates, Types
  <2> QED
    BY <1>1, <2>2, TickStep, AloneStep
<1>2. CASE Exit
  BY <1>2, ExitStep
<1>3. ASSUME NEW t \in Tasks, Choose(t) PROVE Follows(s)
  BY <1>3, ChooseStep
<1>9. CASE GiveUp
  BY <1>9, GiveUpStep
<1>10. CASE Fill
  BY <1>10, FillStep
<1>4. CASE LinkPrev
  BY <1>4, LinkPrevStep
<1>5. CASE LinkNext
  BY <1>5, LinkNextStep
<1>6. CASE SetTail
  BY <1>6, SetTailStep
<1>7. CASE SetHead
  BY <1>7, SetHeadStep
<1>8. CASE UNCHANGED vars
  <2>1. /\ next' = next /\ prev' = prev /\ head' = head /\ tail' = tail /\ gone' = gone
        /\ state' = state /\ current' = current /\ at' = at /\ new' = new
    BY <1>8 DEF vars, list
  <2>2. Links' = Links /\ Ready' = Ready /\ Finished' = Finished /\ Shown(s)' = Shown(s)
    BY <2>1 DEF Links, Ready, Finished, Shown
  <2>3. Types' /\ Running' /\ Creates'
    BY <2>1 DEF Types, Running, Creates
  <2>4. Before(s)' = Before(s) /\ After(s)' = After(s)
    BY <2>1, <2>2 DEF Before, After
  <2>5. Linked(s)'
    BY <2>4 DEF Linked
  <2> QED
    BY <2>2, <2>3, <2>5 DEF Follows, QueueStep
<1> QED
  BY <1>1, <1>2, <1>3, <1>4, <1>5, <1>6, <1>7, <1>8, <1>9, <1>10 DEF Next

(* A list that is torn stays so.                                           *)
LEMMA TornStays ==
  ASSUME torn \in BOOLEAN, [Next]_vars
  PROVE  torn' \in BOOLEAN /\ (torn => torn')
<1>1. CASE Tick
  BY <1>1 DEF Tick
<1>2. CASE ~Tick
  <2>1. torn' = torn
    BY <1>2 DEF Next, Exit, Choose, GiveUp, Fill, LinkPrev, LinkNext, SetTail, SetHead, vars
  <2> QED
    BY <2>1
<1> QED
  BY <1>1, <1>2

(* Hence every step keeps the invariant.                                   *)
LEMMA StepIInv ==
  ASSUME IInv, [Next]_vars
  PROVE  IInv'
<1>1. torn' \in BOOLEAN /\ (torn => torn')
  BY TornStays DEF IInv
<1>2. CASE ~torn'
  <2>1. Types /\ Running /\ Creates /\ \E s \in Seq(Tasks) : Linked(s)
    BY <1>1, <1>2 DEF IInv, Good
  <2>2. PICK s \in Seq(Tasks) : Linked(s)
    BY <2>1
  <2>3. Follows(s)
    BY <1>2, <2>1, <2>2, NextFollows
  <2>4. Good'
    BY <2>3 DEF Follows, Good
  <2> QED
    BY <1>1, <2>4 DEF IInv
<1> QED
  BY <1>1, <1>2 DEF IInv

(* What holds whatever the ticks have done to the list                     *)

Sound ==
  /\ Types /\ new \in Entries /\ gone \subseteq Tasks /\ torn \in BOOLEAN
  /\ \A t \in Tasks : state[t] = "RUNNING" => t = current
  /\ state[current] = "RUNNING" \/ current \in gone
  /\ Idle \notin gone
  /\ \A t \in Tasks : state[t] = "TERMINATED" => t \in gone
  /\ at # "wfi" => new \in Tasks /\ new # Idle
  /\ at = "fill" => new \in gone

(* schedule() leaves links, and whoever it dispatches is the one that runs. *)
LEMMA DispatchSound ==
  ASSUME NEW q, IsLinks(q), NEW st \in [Tasks -> {"READY", "RUNNING", "TERMINATED"}],
         current \in Tasks, Dispatch(q, st)
  PROVE  /\ IsLinks(Links') /\ current' \in Tasks
         /\ q.head = NULL => state' = st /\ current' = current
         /\ q.head # NULL => /\ q.head \in Tasks /\ current' = q.head
                             /\ state' = [st EXCEPT ![q.head] = "RUNNING"]
<1>1. CASE q.head = NULL
  BY <1>1 DEF Dispatch, SetLinks, IsLinks, Links
<1>2. CASE q.head # NULL
  <2> DEFINE r == Remove(q, q.head)
  <2>1. q.head \in Tasks
    BY <1>2 DEF IsLinks, Entries
  <2>2. q.prev[q.head] \in Entries /\ q.next[q.head] \in Entries
    BY <2>1 DEF IsLinks
  <2>3. r.next \in [Tasks -> Entries]
    BY <2>1, <2>2 DEF IsLinks, Remove, Entries
  <2>4. r.prev \in [Tasks -> Entries]
    BY <2>1, <2>2 DEF IsLinks, Remove, Entries
  <2>5. r.head \in Entries /\ r.tail \in Entries
    BY <2>1, <2>2 DEF IsLinks, Remove
  <2> HIDE DEF r
  <2>6. next' = r.next /\ prev' = r.prev /\ head' = r.head /\ tail' = r.tail
    BY <1>2 DEF Dispatch, SetLinks, r
  <2>7. IsLinks(Links')
    BY <2>3, <2>4, <2>5, <2>6 DEF IsLinks, Links
  <2> QED
    BY <1>2, <2>1, <2>7 DEF Dispatch
<1> QED
  BY <1>1, <1>2

(* A tick switches to some task, and the current one stays READY.          *)
LEMMA TickIs ==
  ASSUME Sound, Tick
  PROVE  /\ IsLinks(Links') /\ current' \in Tasks /\ torn' \in BOOLEAN
         /\ state' = [[state EXCEPT ![current] = "READY"] EXCEPT ![current'] = "RUNNING"]
         /\ current' = IF head = NULL THEN current ELSE head
         /\ at' = at /\ new' = new /\ gone' = gone
<1> DEFINE q == Add(Links, current)
           st == [state EXCEPT ![current] = "READY"]
<1>1. /\ current \in Tasks /\ st \in [Tasks -> {"READY", "RUNNING", "TERMINATED"}]
      /\ next \in [Tasks -> Entries] /\ prev \in [Tasks -> Entries]
      /\ head \in Entries /\ tail \in Entries
  BY DEF Sound, Types
<1>2. q.next \in [Tasks -> Entries] /\ q.prev \in [Tasks -> Entries]
  BY <1>1 DEF Add, Links, Entries
<1>3. q.head = (IF head = NULL THEN current ELSE head) /\ q.tail = current
  BY DEF Add, Links
<1>4. Dispatch(q, st) /\ at' = at /\ new' = new /\ gone' = gone /\ torn' \in BOOLEAN
  BY DEF Tick, Sound
<1> HIDE DEF q, st
<1>5. IsLinks(q) /\ q.head # NULL
  BY <1>1, <1>2, <1>3, ReadyQueueAssumption DEF IsLinks, Entries
<1>6. /\ IsLinks(Links') /\ current' \in Tasks /\ current' = q.head
      /\ state' = [st EXCEPT ![q.head] = "RUNNING"]
  BY <1>1, <1>4, <1>5, DispatchSound
<1>7. state' = [st EXCEPT ![current'] = "RUNNING"]
  BY <1>6
<1> QED
  BY <1>3, <1>4, <1>6, <1>7 DEF st

(* An exit switches to the head of the list, if there is one.              *)
LEMMA ExitIs ==
  ASSUME Sound, Exit
  PROVE  /\ IsLinks(Links') /\ current' \in Tasks /\ current # Idle /\ current \notin gone
         /\ head = NULL => /\ state' = [state EXCEPT ![current] = "TERMINATED"]
                           /\ current' = current
         /\ head # NULL => /\ current' = head
                           /\ state' = [[state EXCEPT ![current] = "TERMINATED"]
                                          EXCEPT ![head] = "RUNNING"]
         /\ at' = at /\ new' = new /\ gone' = gone \union {current} /\ torn' = torn
<1> DEFINE st == [state EXCEPT ![current] = "TERMINATED"]
<1>1. /\ current \in Tasks /\ st \in [Tasks -> {"READY", "RUNNING", "TERMINATED"}]
      /\ IsLinks(Links) /\ Links.head = head
  BY DEF Sound, Types, IsLinks, Links
<1>2. Dispatch(Links, st) /\ current # Idle /\ current \notin gone
  BY DEF Exit
<1>3. at' = at /\ new' = new /\ gone' = gone \union {current} /\ torn' = torn
  BY DEF Exit
<1> HIDE DEF st
<1>4. /\ IsLinks(Links') /\ current' \in Tasks
      /\ Links.head = NULL => state' = st /\ current' = current
      /\ Links.head # NULL => /\ Links.head \in Tasks /\ current' = Links.head
                              /\ state' = [st EXCEPT ![Links.head] = "RUNNING"]
  BY <1>1, <1>2, DispatchSound
<1> QED
  BY <1>1, <1>2, <1>3, <1>4 DEF st

(* The initial state is sound.                                             *)
LEMMA InitSound ==
  ASSUME Init
  PROVE  Sound
<1>1. Types
  BY ReadyQueueAssumption DEF Init, Types, Entries
<1> QED
  BY <1>1, ReadyQueueAssumption DEF Init, Sound, Entries

(* Every step is, also on a list that is torn.                             *)
LEMMA StepSound ==
  ASSUME Sound, [Next]_vars
  PROVE  Sound'
<1>1. /\ Types /\ new \in Entries /\ gone \subseteq Tasks /\ torn \in BOOLEAN
      /\ current \in Tasks /\ state \in [Tasks -> {"READY", "RUNNING", "TERMINATED"}]
  BY DEF Sound, Types
<1>2. ASSUME UNCHANGED <<state, current, gone, torn>>,
             IsLinks(Links'), at' \in {"wfi", "fill", "prev", "next", "tail", "head"},
             new' = IF at' = "wfi" THEN NULL ELSE new, at' # "wfi" => at # "wfi",
             at' = "fill" => at = "fill"
      PROVE  Sound'
  <2>1. Types'
    BY <1>1, <1>2 DEF Types, IsLinks, Links
  <2> QED
    BY <1>1, <1>2, <2>1 DEF Sound, Entries
<1>3. IsLinks(Links) /\ Links' = [next |-> next', prev |-> prev', head |-> head', tail |-> tail']
  BY <1>1 DEF Types, IsLinks, Links
<1>4. CASE Tick
  <2>1. /\ IsLinks(Links') /\ current' \in Tasks /\ torn' \in BOOLEAN
        /\ state' = [[state EXCEPT ![current] = "READY"] EXCEPT ![current'] = "RUNNING"]
        /\ at' = at /\ new' = new /\ gone' = gone
    BY <1>4, TickIs
  <2>2. /\ state' \in [Tasks -> {"READY", "RUNNING", "TERMINATED"}]
        /\ state'[current'] = "RUNNING"
        /\ \A t \in Tasks : t # current' => state'[t] = IF t = current THEN "READY" ELSE state[t]
    BY <1>1, <2>1
  <2>3. Types'
    BY <1>1, <2>1, <2>2 DEF Types, IsLinks, Links
  <2>4. \A t \in Tasks : state'[t] = "RUNNING" => t = current'
    BY <2>2 DEF Sound
  <2>5. \A t \in Tasks : state'[t] = "TERMINATED" => t \in gone'
    BY <2>1, <2>2 DEF Sound
  <2> QED
    BY <1>1, <2>1, <2>2, <2>3, <2>4, <2>5 DEF Sound
<1>5. CASE Exit
  <2>1. /\ IsLinks(Links') /\ current' \in Tasks /\ current # Idle
        /\ head = NULL => /\ state' = [state EXCEPT ![current] = "TERMINATED"]
                          /\ current' = current
        /\ head # NULL => /\ current' = head
                          /\ state' = [[state EXCEPT ![current] = "TERMINATED"]
                                         EXCEPT ![head] = "RUNNING"]
        /\ at' = at /\ new' = new /\ gone' = gone \union {current} /\ torn' = torn
    BY <1>5, ExitIs
  <2>2. CASE head = NULL
    <3>1. /\ state' \in [Tasks -> {"READY", "RUNNING", "TERMINATED"}]
          /\ \A t \in Tasks : state'[t] = IF t = current THEN "TERMINATED" ELSE state[t]
      BY <1>1, <2>1, <2>2
    <3>2. Types'
      BY <1>1, <2>1, <3>1 DEF Types, IsLinks, Links
    <3> QED
      BY <1>1, <2>1, <2>2, <3>1, <3>2 DEF Sound
  <2>3. CASE head # NULL
    <3>1. /\ state' \in [Tasks -> {"READY", "RUNNING", "TERMINATED"}]
          /\ state'[current'] = "RUNNING"
          /\ \A t \in Tasks : t # current' =>
               state'[t] = IF t = current THEN "TERMINATED" ELSE state[t]
      BY <1>1, <2>1, <2>3
    <3>2. Types'
      BY <1>1, <2>1, <3>1 DEF Types, IsLinks, Links
    <3>3. \A t \in Tasks : state'[t] = "RUNNING" => t = current'
      BY <3>1 DEF Sound
    <3>4. \A t \in Tasks : state'[t] = "TERMINATED" => t \in gone'
      BY <2>1, <3>1 DEF Sound
    <3> QED
      BY <1>1, <2>1, <3>1, <3>2, <3>3, <3>4 DEF Sound
  <2> QED
    BY <2>2, <2>3
<1>6. ASSUME NEW t \in Tasks, Choose(t) PROVE Sound'
  <2>1. state[t] = "TERMINATED" /\ current = Idle /\ state[Idle] = "RUNNING"
    BY <1>6 DEF Choose, Sound
  <2>2. Types'
    BY <1>1, <1>6 DEF Types, Choose, list
  <2> QED
    BY <1>1, <1>6, <2>1, <2>2 DEF Sound, Choose, Entries
<1>7. CASE GiveUp
  BY <1>2, <1>3, <1>7 DEF GiveUp, list, Links
<1>8. CASE Fill
  <2>1. /\ new \in Tasks /\ new # Idle /\ current = Idle /\ at' = "prev" /\ at = "fill"
        /\ state' = [state EXCEPT ![new] = "READY"] /\ gone' = gone \ {new}
        /\ next' = next /\ prev' = prev /\ head' = head /\ tail' = tail
        /\ current' = current /\ new' = new /\ torn' = torn
    BY <1>8 DEF Fill, Sound, list
  <2>2. /\ state' \in [Tasks -> {"READY", "RUNNING", "TERMINATED"}]
        /\ \A t \in Tasks : state'[t] = IF t = new THEN "READY" ELSE state[t]
    BY <1>1, <2>1
  <2>3. Types'
    BY <1>1, <2>1, <2>2 DEF Types
  <2> QED
    BY <1>1, <2>1, <2>2, <2>3 DEF Sound
<1>9. CASE LinkPrev
  <2>1. new \in Tasks
    BY <1>9 DEF Sound, LinkPrev
  <2>2. IsLinks(Links')
    BY <1>1, <1>3, <1>9, <2>1 DEF LinkPrev, IsLinks, Types, Entries
  <2> QED
    BY <1>2, <1>9, <2>2 DEF LinkPrev
<1>10. CASE LinkNext
  <2>1. new \in Tasks
    BY <1>10 DEF Sound, LinkNext
  <2>2. IsLinks(Links')
    BY <1>1, <1>3, <1>10, <2>1 DEF LinkNext, IsLinks, Types, Entries
  <2> QED
    BY <1>2, <1>10, <2>2 DEF LinkNext
<1>11. CASE SetTail
  <2>1. new \in Tasks
    BY <1>11 DEF Sound, SetTail
  <2>2. IsLinks(Links')
    BY <1>1, <1>3, <1>11, <2>1 DEF SetTail, IsLinks, Types, Entries
  <2> QED
    BY <1>2, <1>11, <2>2 DEF SetTail
<1>12. CASE SetHead
  <2>1. new \in Tasks
    BY <1>12 DEF Sound, SetHead
  <2>2. IsLinks(Links')
    BY <1>1, <1>3, <1>12, <2>1 DEF SetHead, IsLinks, Types, Entries
  <2> QED
    BY <1>2, <1>12, <2>2 DEF SetHead
<1>13. CASE UNCHANGED vars
  <2>1. /\ next' = next /\ prev' = prev /\ head' = head /\ tail' = tail /\ gone' = gone
        /\ state' = state /\ current' = current /\ at' = at /\ new' = new /\ torn' = torn
    BY <1>13 DEF vars, list
  <2> QED
    BY <2>1 DEF Sound, Types
<1> QED
  BY <1>4, <1>5, <1>6, <1>7, <1>8, <1>9, <1>10, <1>11, <1>12, <1>13 DEF Next

(* Until a tick comes in one of the windows, the task that a tick or an    *)
(* exit dispatches is a READY one, or the one that the tick has just put   *)
(* into an empty queue.                                                    *)
LEMMA HeadIsReady ==
  ASSUME IInv, [Next]_vars, Tick \/ Exit, ~torn'
  PROVE  /\ head = NULL \/ (head \in Tasks /\ state[head] = "READY")
         /\ current' \notin gone'
<1>1. ~torn /\ IInv'
  BY StepIInv, TornStays DEF IInv
<1>2. current' \notin gone'
  BY <1>1 DEF IInv, Good, Types, Running
<1>3. PICK s \in Seq(Tasks) : Linked(s)
  BY <1>1 DEF IInv, Good
<1>4. Types /\ Creates
  BY <1>1 DEF IInv, Good
<1>5. CASE head # NULL
  <2>1. at # "head"
    BY <1>1, <1>4 DEF Creates, Tick, Exit, InWindow
  <2>2. at = "tail" => tail = NULL
    BY <1>1, <1>4 DEF Creates, Tick, Exit, InWindow
  <2>3. at # "tail"
    <3>1. at = "tail" => (tail = NULL => head = NULL)
      BY <1>3 DEF Linked, Before, After
    <3> QED
      BY <1>5, <2>2, <3>1
  <2>4. Path(Links.head, Links.next, s) /\ Holds(s, Ready \ {new})
    BY <1>3, <2>1, <2>3 DEF Linked, Before, After, Represents
  <2>5. s # <<>> /\ head = s[1]
    BY <1>5, <2>4 DEF Path, Links
  <2>6. 1 \in 1..Len(s) /\ s[1] \in Tasks
    BY <2>5
  <2>7. s[1] \in Ready \ {new}
    BY <2>4, <2>6 DEF Holds
  <2> QED
    BY <1>2, <2>5, <2>6, <2>7 DEF Ready
<1> QED
  BY <1>2, <1>5

(* What is read from the head is the queue, or nothing while its first     *)
(* task waits for the head to be set.                                      *)
LEMMA ForwardIs ==
  ASSUME NEW s \in Seq(Tasks), Linked(s)
  PROVE  Forward = Shown(s)
<1>1. CASE at \in {"tail", "head"} /\ head = NULL
  <2>1. Path(head, next, <<>>) /\ Distinct(<<>>) /\ <<>> \in Seq(Tasks)
    BY <1>1 DEF Path, Distinct
  <2>2. Walk(head, next) = <<>>
    BY <2>1, WalkIs
  <2> QED
    BY <1>1, <2>2 DEF Forward, Shown
<1>2. CASE ~(at \in {"tail", "head"} /\ head = NULL)
  <2>1. Path(head, next, s)
    <3>1. Links.head = head /\ Links.next = next
      BY DEF Links
    <3>2. at \in {"tail", "head"} => Finished.head = head /\ Finished.next = next
      BY <1>2 DEF Finished, Links
    <3>3. Represents(Links, s) \/ (at \in {"tail", "head"} /\ Represents(Finished, s))
      BY DEF Linked, Before, After
    <3> QED
      BY <3>1, <3>2, <3>3 DEF Represents
  <2>2. Walk(head, next) = s
    BY <2>1, WalkIs DEF Linked
  <2> QED
    BY <1>2, <2>2 DEF Forward, Shown
<1> QED
  BY <1>1, <1>2

(* Until a tick comes in one of the windows of add_to_ready_queue(), the   *)
(* links read forwards and backwards give the same tasks, which are the    *)
(* READY ones, whatever was queued, dispatched, exited and created again,  *)
(* in the middle of a creation too.                                        *)
THEOREM ListCorrect == Spec => []ListExact
<1>1. IInv => ListExact
  <2> SUFFICES ASSUME IInv, ~torn, at \notin {"tail", "head"}
               PROVE  /\ Len(Forward) = Len(Backward)
                      /\ \A i \in 1..Len(Forward) : Forward[i] = Backward[Len(Forward) + 1 - i]
                      /\ \A i, j \in 1..Len(Forward) : Forward[i] = Forward[j] => i = j
                      /\ {Forward[i] : i \in 1..Len(Forward)}
                           = {t \in Tasks : state[t] = "READY"} \ {new}
    BY DEF ListExact, ListAlwaysExact
  <2>1. PICK s \in Seq(Tasks) : Linked(s)
    BY DEF IInv, Good
  <2>2. Forward = s
    BY <2>1, ForwardIs DEF Shown
  <2>3. Represents(Links, s) /\ Holds(s, Ready \ {new}) /\ Distinct(s)
    BY <2>1 DEF Linked, Before, After
  <2>4. Walk(Links.tail, Links.prev) = Backwards(s) /\ Len(Backwards(s)) = Len(s)
    BY <2>3, BackwardIs
  <2>5. Backward = Backwards(s)
    BY <2>4 DEF Backward, Links
  <2>6. ASSUME NEW i \in 1..Len(s) PROVE s[i] = Backwards(s)[Len(s) + 1 - i]
    <3>1. Len(s) + 1 - i \in 1..Len(s) /\ Len(s) + 1 - (Len(s) + 1 - i) = i
      OBVIOUS
    <3> QED
      BY <3>1 DEF Backwards
  <2>7. {s[i] : i \in 1..Len(s)} = {t \in Tasks : state[t] = "READY"} \ {new}
    <3>1. \A i \in 1..Len(s) : s[i] \in Tasks
      OBVIOUS
    <3> QED
      BY <2>3, <3>1 DEF Holds, Ready
  <2> QED
    BY <2>2, <2>3, <2>4, <2>5, <2>6, <2>7 DEF Distinct
<1>2. Init => IInv
  BY InitIInv
<1>3. IInv /\ [Next]_vars => IInv'
  BY StepIInv
<1> QED
  BY <1>1, <1>2, <1>3, PTL DEF Spec

(* Until then an exit finds a successor, the idle task at least, and no    *)
(* task that has exited gets the processor again.                          *)
THEOREM ExitFindsSuccessorCorrect == Spec => []ExitFindsSuccessor
<1>1. IInv => ExitFindsSuccessor
  BY DEF IInv, Good, Types, Running, ExitFindsSuccessor
<1>2. Init => IInv
  BY InitIInv
<1>3. IInv /\ [Next]_vars => IInv'
  BY StepIInv
<1> QED
  BY <1>1, <1>2, <1>3, PTL DEF Spec

(* Until then the queue read from the head is a TaskQueue: first in, first *)
(* out, no task lost, none twice, though a task is linked in over several  *)
(* steps with ticks and exits between them.                                *)
THEOREM ImplementsQueue == Spec => QueueSafety
<1> DEFINE Read == \A s \in Seq(Tasks) : Linked(s) => Forward = Shown(s)
<1>1. Read
  BY ForwardIs
<1>2. Init => Queue!Init
  <2> SUFFICES ASSUME Init PROVE Forward = <<>>
    BY DEF Queue!Init
  <2>1. Linked(<<>>) /\ <<>> \in Seq(Tasks)
    BY InitIInv
  <2>2. Forward = Shown(<<>>)
    BY <2>1, ForwardIs
  <2> QED
    BY <2>2 DEF Shown
<1>3. IInv /\ Read /\ Read' /\ [Next]_vars => [torn' \/ Queue!Next]_<<Forward, torn>>
  <2> SUFFICES ASSUME IInv, Read, Read', [Next]_vars, ~torn'
               PROVE  Queue!Next \/ UNCHANGED <<Forward, torn>>
    OBVIOUS
  <2>1. torn \in BOOLEAN /\ torn' \in BOOLEAN /\ (torn => torn')
    BY TornStays DEF IInv
  <2>2. Types /\ Running /\ Creates /\ \E s \in Seq(Tasks) : Linked(s)
    BY <2>1 DEF IInv, Good
  <2>3. PICK s \in Seq(Tasks) : Linked(s)
    BY <2>2
  <2>4. PICK u \in Seq(Tasks) : Linked(u)' /\ QueueStep(Shown(s), Shown(u)')
    BY <2>2, <2>3, NextFollows DEF Follows
  <2>5. Forward = Shown(s) /\ Forward' = Shown(u)'
    BY <2>3, <2>4
  <2>6. QueueStep(Forward, Forward')
    BY <2>4, <2>5
  <2>7. torn' = torn
    BY <2>1
  <2> QED
    BY <2>6, <2>7 DEF QueueStep, Queue!Next, Queue!Take, Queue!Put, Queue!PutTake, Queue!Queued
<1>4. Init => IInv
  BY InitIInv
<1>5. IInv /\ [Next]_vars => IInv'
  BY StepIInv
<1> HIDE DEF Read
<1> QED
  BY <1>1, <1>2, <1>3, <1>4, <1>5, PTL DEF Spec, QueueSafety
=============================================================================
