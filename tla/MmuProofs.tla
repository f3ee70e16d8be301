------------------------------ MODULE MmuProofs ------------------------------
(***************************************************************************)
(* The translation tables for any number of tables, pages and frames: the  *)
(* tables are trees apart from each other, the TLB agrees with the table   *)
(* in TTBR0_EL1, and the code keeps the promise of AddressSpaces.          *)
(***************************************************************************)
EXTENDS Mmu, FiniteSetTheorems, TLAPS

(* What the three kinds of descriptor are.                                 *)
LEMMA Kinds ==
  /\ \A t : <<"table", t>> # <<>> /\ <<"table", t>>[2] = t
  /\ \A f : <<"page", f>> # <<>> /\ <<"page", f>>[2] = f
  /\ \A t, f : <<"table", t>> # <<"page", f>>
  /\ \A t, u : <<"table", t>> = <<"table", u>> => t = u
  /\ \A t, u : <<"page", t>> = <<"page", u>> => t = u
  OBVIOUS

-----------------------------------------------------------------------------
(* Trees                                                                   *)

\* What makes the first n - 1 tables of T trees of three levels of tables above
\* the pages: table t is on level lev[t] of the tree under own[t].
Kept(T, n, lev, own) ==
  /\ T \in [Tables -> [Index -> Descriptors]]
  /\ n \in 2..(NumTables + 1)
  /\ lev \in [Tables -> 0..3] /\ own \in [Tables -> Tables]

\* A table not handed out is empty.
Fresh(T, n) == \A t \in Tables, i \in Index : t >= n => T[t][i] = <<>>

\* Above the last level a descriptor points at a table a level down.
Inner(T, n, lev, own) ==
  \A t \in Tables, i \in Index : T[t][i] # <<>> /\ lev[t] # 3 =>
    \E u \in Tables : /\ T[t][i] = <<"table", u>> /\ u < n
                      /\ lev[u] = lev[t] + 1 /\ own[u] = own[t]

\* On the last level it is a page.
Leaves(T, lev) ==
  \A t \in Tables, i \in Index : T[t][i] # <<>> /\ lev[t] = 3 =>
    \E f \in Frames \union VPages : T[t][i] = <<"page", f>>

\* No two descriptors point at one table.
OneParent(T) ==
  \A t, s, u \in Tables, i, j \in Index :
    T[t][i] = <<"table", u>> /\ T[s][j] = <<"table", u>> => t = s /\ i = j

\* A table below the first level has one that does.
Attached(T, n, lev) ==
  \A u \in Tables : u < n /\ lev[u] # 0 =>
    \E t \in Tables, i \in Index : T[t][i] = <<"table", u>>

Rooted(n, lev, own) == \A r \in Tables : r < n /\ lev[r] = 0 => own[r] = r

Forest(T, n, lev, own) ==
  /\ Kept(T, n, lev, own)
  /\ Fresh(T, n) /\ Inner(T, n, lev, own) /\ Leaves(T, lev)
  /\ OneParent(T) /\ Attached(T, n, lev) /\ Rooted(n, lev, own)

\* The new tables and descriptors of T2 are under root r.
Grows(T, n, T2, n2, lev, lev2, own, own2, r) ==
  /\ n2 \in n..(NumTables + 1)
  /\ \A t \in Tables : t < n => lev2[t] = lev[t] /\ own2[t] = own[t]
  /\ \A t \in Tables : n <= t /\ t < n2 => lev2[t] # 0 /\ own2[t] = r
  /\ \A t \in Tables, i \in Index : T[t][i] # <<>> => T2[t][i] = T[t][i]
  /\ \A t \in Tables, i \in Index : T[t][i] = <<>> /\ T2[t][i] # <<>> =>
       \E u \in Tables : u >= n /\ T2[t][i] = <<"table", u>>
  /\ \A t \in Tables : t < n /\ own[t] # r => T2[t] = T[t]

(* One step of get_or_create_table() on level k of the tree of r, when     *)
(* the step above has reached a table: the forest stays one and the table  *)
(* reached is the one the descriptor points at, a level down.              *)
LEMMA GetOrCreateGrows ==
  ASSUME NEW T, NEW n, NEW at, NEW lev, NEW own, NEW r, NEW i \in Index, NEW m,
         m = GetOrCreate([tables |-> T, next |-> n, at |-> at], i),
         Forest(T, n, lev, own), at \in Tables, at < n, lev[at] # 3, own[at] = r
  PROVE  \E lev2, own2 :
           /\ m = [tables |-> m.tables, next |-> m.next, at |-> m.at]
           /\ Forest(m.tables, m.next, lev2, own2)
           /\ Grows(T, n, m.tables, m.next, lev, lev2, own, own2, r)
           /\ \/ m.at = 0
              \/ /\ m.at \in Tables /\ m.at < m.next
                 /\ lev2[m.at] = lev[at] + 1 /\ own2[m.at] = r
                 /\ m.tables[at][i] = <<"table", m.at>>
<1>0. /\ n \in n..(NumTables + 1)
      /\ \A t \in Tables : ~ (n <= t /\ t < n)
  <2>1. NumTables \in Nat /\ n \in 2..(NumTables + 1) /\ \A t \in Tables : t \in Nat
    BY MmuAssumption DEF Forest, Kept, Tables
  <2> QED
    BY <2>1
<1>1. CASE T[at][i] # <<>>
  <2>1. PICK u \in Tables : /\ T[at][i] = <<"table", u>> /\ u < n
                            /\ lev[u] = lev[at] + 1 /\ own[u] = own[at]
    BY <1>1 DEF Forest, Inner
  <2>2. m = [tables |-> T, next |-> n, at |-> u]
    <3>1. at # 0
      BY DEF Tables
    <3>2. T[at][i][2] = u
      BY <2>1
    <3> QED
      BY <1>1, <3>1, <3>2 DEF GetOrCreate
  <2>3. Grows(T, n, T, n, lev, lev, own, own, r)
    BY <1>0 DEF Grows
  <2> QED
    BY <2>1, <2>2, <2>3
<1>2. CASE T[at][i] = <<>> /\ n > NumTables
  <2>1. m = [tables |-> T, next |-> n, at |-> 0]
    <3>1. at # 0
      BY DEF Tables
    <3> QED
      BY <1>2, <3>1 DEF GetOrCreate
  <2>2. Grows(T, n, T, n, lev, lev, own, own, r)
    BY <1>0 DEF Grows
  <2> QED
    BY <2>1, <2>2
<1>3. CASE T[at][i] = <<>> /\ ~ (n > NumTables)
  <2> DEFINE T2 == [T EXCEPT ![at][i] = <<"table", n>>]
             lev2 == [lev EXCEPT ![n] = lev[at] + 1]
             own2 == [own EXCEPT ![n] = r]
  <2>1. m = [tables |-> T2, next |-> n + 1, at |-> n]
    <3>1. at # 0
      BY DEF Tables
    <3> QED
      BY <1>3, <3>1 DEF GetOrCreate
  <2>2. /\ n \in Tables /\ n \in Nat /\ n # at /\ at \in Nat
        /\ NumTables \in Nat /\ \A t \in Tables : t \in Nat
    BY <1>3, MmuAssumption DEF Forest, Kept, Tables
  <2>3. /\ T2 \in [Tables -> [Index -> Descriptors]]
        /\ \A t \in Tables, j \in Index :
             T2[t][j] = IF t = at /\ j = i THEN <<"table", n>> ELSE T[t][j]
    <3>1. <<"table", n>> \in Descriptors
      BY <2>2 DEF Descriptors
    <3>2. T \in [Tables -> [Index -> Descriptors]]
      BY DEF Forest, Kept
    <3> QED
      BY <3>1, <3>2
  <2>4. /\ lev2 \in [Tables -> 0..3] /\ own2 \in [Tables -> Tables]
        /\ \A t \in Tables : lev2[t] = IF t = n THEN lev[at] + 1 ELSE lev[t]
        /\ \A t \in Tables : own2[t] = IF t = n THEN r ELSE own[t]
    BY <2>2, MmuAssumption DEF Forest, Kept
  <2>5. lev[at] \in 0..3 /\ lev[at] # 3
    BY DEF Forest, Kept
  <2> HIDE DEF T2, lev2, own2
  <2>6. Forest(T2, n + 1, lev2, own2)
    <3>1. n + 1 \in 2..(NumTables + 1)
      BY <1>3, <2>2, MmuAssumption DEF Forest, Kept
    <3>2. \A t \in Tables, j \in Index : t >= n + 1 => T2[t][j] = <<>>
      BY <2>2, <2>3 DEF Forest, Fresh
    <3>3. ASSUME NEW t \in Tables, NEW j \in Index, T2[t][j] # <<>>, lev2[t] # 3
          PROVE  \E u \in Tables : /\ T2[t][j] = <<"table", u>> /\ u < n + 1
                                   /\ lev2[u] = lev2[t] + 1 /\ own2[u] = own2[t]
      <4>1. CASE t = at /\ j = i
        BY <4>1, <2>2, <2>3, <2>4
      <4>2. CASE ~ (t = at /\ j = i)
        <5>1. T[t][j] # <<>> /\ T2[t][j] = T[t][j]
          BY <4>2, <3>3, <2>3
        <5>2. t # n
          BY <5>1, <2>2 DEF Forest, Fresh
        <5>3. PICK u \in Tables : /\ T[t][j] = <<"table", u>> /\ u < n
                                  /\ lev[u] = lev[t] + 1 /\ own[u] = own[t]
          BY <5>1, <5>2, <3>3, <2>4 DEF Forest, Inner
        <5>4. u < n + 1 /\ u # n
          BY <5>3, <2>2
        <5> QED
          BY <5>1, <5>2, <5>3, <5>4, <2>4
      <4> QED
        BY <4>1, <4>2
    <3>4. ASSUME NEW t \in Tables, NEW j \in Index, T2[t][j] # <<>>, lev2[t] = 3
          PROVE  \E f \in Frames \union VPages : T2[t][j] = <<"page", f>>
      <4>1. ~ (t = at /\ j = i)
        BY <3>4, <2>2, <2>4, <2>5
      <4>2. T[t][j] # <<>> /\ T2[t][j] = T[t][j]
        BY <4>1, <3>4, <2>3
      <4>3. t # n
        BY <4>2, <2>2 DEF Forest, Fresh
      <4> QED
        BY <4>2, <4>3, <3>4, <2>4 DEF Forest, Leaves
    <3>5. ASSUME NEW t \in Tables, NEW s \in Tables, NEW u \in Tables,
                 NEW j \in Index, NEW k \in Index,
                 T2[t][j] = <<"table", u>>, T2[s][k] = <<"table", u>>
          PROVE  t = s /\ j = k
      <4>1. ASSUME NEW x \in Tables, NEW y \in Index, T[x][y] = <<"table", u>>
            PROVE  u # n
        <5>1. T[x][y] # <<>>
          BY <4>1
        <5>2. lev[x] # 3
          <6>1. SUFFICES ASSUME lev[x] = 3 PROVE FALSE
            OBVIOUS
          <6>2. PICK f : T[x][y] = <<"page", f>>
            BY <5>1, <6>1 DEF Forest, Leaves
          <6> QED
            BY <4>1, <6>2
        <5>3. PICK w \in Tables : T[x][y] = <<"table", w>> /\ w < n
          BY <5>1, <5>2 DEF Forest, Inner
        <5>4. w = u
          BY <4>1, <5>3
        <5> QED
          BY <5>3, <5>4, <2>2
      <4>2. CASE t = at /\ j = i
        BY <4>1, <4>2, <3>5, <2>3
      <4>3. CASE s = at /\ k = i
        BY <4>1, <4>3, <3>5, <2>3
      <4>4. CASE ~ (t = at /\ j = i) /\ ~ (s = at /\ k = i)
        <5>1. T[t][j] = <<"table", u>> /\ T[s][k] = <<"table", u>>
          BY <4>4, <3>5, <2>3
        <5> QED
          BY <5>1 DEF Forest, OneParent
      <4> QED
        BY <4>2, <4>3, <4>4
    <3>6. ASSUME NEW u \in Tables, u < n + 1, lev2[u] # 0
          PROVE  \E t \in Tables, j \in Index : T2[t][j] = <<"table", u>>
      <4>1. CASE u = n
        BY <4>1, <2>3
      <4>2. CASE u # n
        <5>1. PICK t \in Tables, j \in Index : T[t][j] = <<"table", u>>
          <6>1. u < n /\ lev[u] # 0
            BY <4>2, <3>6, <2>2, <2>4
          <6> QED
            BY <6>1 DEF Forest, Attached
        <5>2. T2[t][j] = T[t][j]
          BY <5>1, <1>3, <2>3
        <5> QED
          BY <5>1, <5>2
      <4> QED
        BY <4>1, <4>2
    <3>7. \A x \in Tables : x < n + 1 /\ lev2[x] = 0 => own2[x] = x
      BY <2>2, <2>4, <2>5 DEF Forest, Rooted
    <3>8. Kept(T2, n + 1, lev2, own2) /\ Fresh(T2, n + 1)
      BY <2>3, <2>4, <3>1, <3>2 DEF Kept, Fresh
    <3>9. Inner(T2, n + 1, lev2, own2)
      BY <3>3 DEF Inner
    <3>10. Leaves(T2, lev2)
      BY <3>4 DEF Leaves
    <3>11. OneParent(T2)
      BY <3>5 DEF OneParent
    <3>12. Attached(T2, n + 1, lev2)
      BY <3>6 DEF Attached
    <3>13. Rooted(n + 1, lev2, own2)
      BY <3>7 DEF Rooted
    <3> QED
      BY <3>8, <3>9, <3>10, <3>11, <3>12, <3>13 DEF Forest
  <2>7. Grows(T, n, T2, n + 1, lev, lev2, own, own2, r)
    <3>1. n + 1 \in n..(NumTables + 1)
      BY <1>3, <2>2
    <3>2. \A t \in Tables : t < n => lev2[t] = lev[t] /\ own2[t] = own[t]
      BY <2>2, <2>4
    <3>3. \A t \in Tables : n <= t /\ t < n + 1 => lev2[t] # 0 /\ own2[t] = r
      BY <2>2, <2>4, <2>5
    <3>4. \A t \in Tables, j \in Index : T[t][j] # <<>> => T2[t][j] = T[t][j]
      BY <1>3, <2>3
    <3>5. ASSUME NEW t \in Tables, NEW j \in Index, T[t][j] = <<>>, T2[t][j] # <<>>
          PROVE  \E u \in Tables : u >= n /\ T2[t][j] = <<"table", u>>
      <4>1. t = at /\ j = i
        BY <3>5, <2>3
      <4>2. T2[t][j] = <<"table", n>> /\ n >= n
        BY <4>1, <2>2, <2>3
      <4> QED
        BY <4>2, <2>2
    <3>6. ASSUME NEW t \in Tables, t < n, own[t] # r
          PROVE  T2[t] = T[t]
      BY <3>6 DEF T2, Forest, Kept
    <3> QED
      BY <3>1, <3>2, <3>3, <3>4, <3>5, <3>6 DEF Grows
  <2>8. lev2[n] = lev[at] + 1 /\ own2[n] = r /\ T2[at][i] = <<"table", n>>
    BY <2>2, <2>3, <2>4
  <2>9. n < n + 1
    BY <2>2
  <2> QED
    BY <2>1, <2>2, <2>6, <2>7, <2>8, <2>9
<1> QED
  BY <1>1, <1>2, <1>3

(* Growth under one root adds up.                                          *)
LEMMA GrowsAgain ==
  ASSUME NEW T, NEW n, NEW lev, NEW own, NEW T1, NEW n1, NEW lev1, NEW own1,
         NEW T2, NEW n2, NEW lev2, NEW own2, NEW r,
         n \in Nat,
         Grows(T, n, T1, n1, lev, lev1, own, own1, r),
         Grows(T1, n1, T2, n2, lev1, lev2, own1, own2, r)
  PROVE  Grows(T, n, T2, n2, lev, lev2, own, own2, r)
<1>1. n1 \in n..(NumTables + 1) /\ n2 \in n1..(NumTables + 1) /\ NumTables \in Nat
  BY MmuAssumption DEF Grows
<1>2. n2 \in n..(NumTables + 1) /\ \A t \in Tables : t \in Nat
  BY <1>1 DEF Tables
<1>3. \A t \in Tables : t < n => t < n1 /\ lev2[t] = lev[t] /\ own2[t] = own[t]
  BY <1>1, <1>2 DEF Grows
<1>4. \A t \in Tables : n <= t /\ t < n2 => lev2[t] # 0 /\ own2[t] = r
  BY <1>1, <1>2 DEF Grows
<1>5. ASSUME NEW t \in Tables, NEW i \in Index, T[t][i] # <<>>
      PROVE  T2[t][i] = T[t][i]
  <2>1. T1[t][i] = T[t][i]
    BY <1>5 DEF Grows
  <2> QED
    BY <1>5, <2>1 DEF Grows
<1>6. ASSUME NEW t \in Tables, t < n, own[t] # r
      PROVE  T2[t] = T[t]
  BY <1>3, <1>6 DEF Grows
<1>7. ASSUME NEW t \in Tables, NEW i \in Index, T[t][i] = <<>>, T2[t][i] # <<>>
      PROVE  \E u \in Tables : u >= n /\ T2[t][i] = <<"table", u>>
  <2>1. CASE T1[t][i] = <<>>
    <3>1. PICK u \in Tables : u >= n1 /\ T2[t][i] = <<"table", u>>
      BY <1>7, <2>1 DEF Grows
    <3> QED
      BY <1>1, <1>2, <3>1
  <2>2. CASE T1[t][i] # <<>>
    <3>1. PICK u \in Tables : u >= n /\ T1[t][i] = <<"table", u>>
      BY <1>7, <2>2 DEF Grows
    <3>2. T2[t][i] = T1[t][i]
      BY <2>2 DEF Grows
    <3> QED
      BY <3>1, <3>2
  <2> QED
    BY <2>1, <2>2
<1> QED
  BY <1>2, <1>3, <1>4, <1>5, <1>6, <1>7 DEF Grows

\* The way from root r to table t in T for page v.
Way(T, r, v, t) ==
  \E a, b \in Tables : /\ T[r][v[1]] = <<"table", a>> /\ T[a][v[2]] = <<"table", b>>
                       /\ T[b][v[3]] = <<"table", t>>

(* Three steps of get_or_create_table() from a root, as map_page() and     *)
(* mmu_map_user_page() take them: a forest still, grown under that root    *)
(* only, and a last-level table on the way of the page unless the space    *)
(* ran out.                                                                *)
LEMMA DescentGrows ==
  ASSUME NEW T, NEW n, NEW lev, NEW own, Forest(T, n, lev, own),
         NEW r \in Tables, r < n, lev[r] = 0, NEW v \in VPages, NEW m,
         m = GetOrCreate(GetOrCreate(GetOrCreate(
               [tables |-> T, next |-> n, at |-> r], v[1]), v[2]), v[3])
  PROVE  \E lev2, own2 :
           /\ Forest(m.tables, m.next, lev2, own2)
           /\ Grows(T, n, m.tables, m.next, lev, lev2, own, own2, r)
           /\ \/ m.at = 0
              \/ /\ m.at \in Tables /\ m.at < m.next
                 /\ lev2[m.at] = 3 /\ own2[m.at] = r /\ Way(m.tables, r, v, m.at)
<1>1. v[1] \in Index /\ v[2] \in Index /\ v[3] \in Index
  BY MmuAssumption
<1>2. own[r] = r /\ n \in Nat
  BY MmuAssumption DEF Forest, Rooted, Kept
<1> DEFINE m1 == GetOrCreate([tables |-> T, next |-> n, at |-> r], v[1])
           m2 == GetOrCreate(m1, v[2])
<1>3. m = GetOrCreate(m2, v[3])
  OBVIOUS
<1>4. PICK lev1, own1 :
        /\ m1 = [tables |-> m1.tables, next |-> m1.next, at |-> m1.at]
        /\ Forest(m1.tables, m1.next, lev1, own1)
        /\ Grows(T, n, m1.tables, m1.next, lev, lev1, own, own1, r)
        /\ \/ m1.at = 0
           \/ /\ m1.at \in Tables /\ m1.at < m1.next
              /\ lev1[m1.at] = 1 /\ own1[m1.at] = r
              /\ m1.tables[r][v[1]] = <<"table", m1.at>>
  <2>1. lev[r] # 3 /\ lev[r] + 1 = 1
    OBVIOUS
  <2> HIDE DEF m1
  <2>2. m1 = GetOrCreate([tables |-> T, next |-> n, at |-> r], v[1])
    BY DEF m1
  <2> QED
    BY <1>1, <1>2, <2>1, <2>2, GetOrCreateGrows
<1>5. m2 = GetOrCreate([tables |-> m1.tables, next |-> m1.next, at |-> m1.at], v[2])
  BY <1>4
<1> HIDE DEF m1
<1>6. \A k : m1.at = 0 => GetOrCreate(m1, k) = m1
  BY DEF GetOrCreate
<1>7. PICK lev2, own2 :
        /\ m2 = [tables |-> m2.tables, next |-> m2.next, at |-> m2.at]
        /\ Forest(m2.tables, m2.next, lev2, own2)
        /\ Grows(T, n, m2.tables, m2.next, lev, lev2, own, own2, r)
        /\ \/ m2.at = 0
           \/ /\ m2.at \in Tables /\ m2.at < m2.next
              /\ lev2[m2.at] = 2 /\ own2[m2.at] = r
              /\ \E a \in Tables : /\ m2.tables[r][v[1]] = <<"table", a>>
                                   /\ m2.tables[a][v[2]] = <<"table", m2.at>>
  <2>1. CASE m1.at = 0
    BY <1>4, <1>6, <2>1
  <2>2. CASE m1.at # 0
    <3>1. m1.at \in Tables /\ lev1[m1.at] # 3 /\ lev1[m1.at] + 1 = 2
      BY <1>4, <2>2
    <3> HIDE DEF m2
    <3>2. PICK lev2, own2 :
            /\ m2 = [tables |-> m2.tables, next |-> m2.next, at |-> m2.at]
            /\ Forest(m2.tables, m2.next, lev2, own2)
            /\ Grows(m1.tables, m1.next, m2.tables, m2.next, lev1, lev2, own1, own2, r)
            /\ \/ m2.at = 0
               \/ /\ m2.at \in Tables /\ m2.at < m2.next
                  /\ lev2[m2.at] = lev1[m1.at] + 1 /\ own2[m2.at] = r
                  /\ m2.tables[m1.at][v[2]] = <<"table", m2.at>>
      BY <1>1, <1>4, <1>5, <2>2, <3>1, GetOrCreateGrows
    <3>3. Grows(T, n, m2.tables, m2.next, lev, lev2, own, own2, r)
      BY <1>2, <1>4, <3>2, GrowsAgain
    <3>4. m2.tables[r][v[1]] = <<"table", m1.at>>
      BY <1>1, <1>4, <2>2, <3>2 DEF Grows
    <3> QED
      BY <3>1, <3>2, <3>3, <3>4
  <2> QED
    BY <2>1, <2>2
<1> HIDE DEF m2
<1>8. CASE m2.at = 0
  <2>1. m = m2
    BY <1>3, <1>8 DEF GetOrCreate
  <2> QED
    BY <1>7, <1>8, <2>1
<1>9. CASE m2.at # 0
  <2>1. m2.at \in Tables /\ lev2[m2.at] # 3 /\ lev2[m2.at] + 1 = 3
    BY <1>7, <1>9
  <2>2. m = GetOrCreate([tables |-> m2.tables, next |-> m2.next, at |-> m2.at], v[3])
    BY <1>3, <1>7
  <2>3. PICK lev3, own3 :
          /\ Forest(m.tables, m.next, lev3, own3)
          /\ Grows(m2.tables, m2.next, m.tables, m.next, lev2, lev3, own2, own3, r)
          /\ \/ m.at = 0
             \/ /\ m.at \in Tables /\ m.at < m.next
                /\ lev3[m.at] = lev2[m2.at] + 1 /\ own3[m.at] = r
                /\ m.tables[m2.at][v[3]] = <<"table", m.at>>
    <3>1. /\ Forest(m2.tables, m2.next, lev2, own2)
          /\ m2.at < m2.next /\ own2[m2.at] = r
      BY <1>7, <1>9
    <3> QED
      BY <1>1, <2>1, <2>2, <3>1, GetOrCreateGrows
  <2>4. Grows(T, n, m.tables, m.next, lev, lev3, own, own3, r)
    BY <1>2, <1>7, <2>3, GrowsAgain
  <2>5. PICK a \in Tables : /\ m2.tables[r][v[1]] = <<"table", a>>
                            /\ m2.tables[a][v[2]] = <<"table", m2.at>>
    BY <1>7, <1>9
  <2>6. /\ m.tables[r][v[1]] = <<"table", a>>
        /\ m.tables[a][v[2]] = <<"table", m2.at>>
    <3>1. m2.tables[r][v[1]] # <<>> /\ m2.tables[a][v[2]] # <<>>
      BY <2>5, Kinds
    <3>2. /\ m.tables[r][v[1]] = m2.tables[r][v[1]]
          /\ m.tables[a][v[2]] = m2.tables[a][v[2]]
      BY <1>1, <2>3, <3>1 DEF Grows
    <3> QED
      BY <2>5, <3>2
  <2>7. m.at # 0 => Way(m.tables, r, v, m.at)
    BY <2>1, <2>3, <2>6 DEF Way
  <2> QED
    BY <2>1, <2>3, <2>4, <2>7
<1> QED
  BY <1>8, <1>9

(* Writing a descriptor of a page, or none, on the last level keeps the    *)
(* forest.                                                                 *)
LEMMA LeafKeepsForest ==
  ASSUME NEW T, NEW n, NEW lev, NEW own, Forest(T, n, lev, own),
         NEW t \in Tables, t < n, lev[t] = 3, NEW i \in Index,
         NEW d, d = <<>> \/ \E f \in Frames \union VPages : d = <<"page", f>>
  PROVE  Forest([T EXCEPT ![t][i] = d], n, lev, own)
<1> DEFINE T2 == [T EXCEPT ![t][i] = d]
<1>1. d \in Descriptors
  BY DEF Descriptors
<1>2. /\ T2 \in [Tables -> [Index -> Descriptors]]
      /\ \A s \in Tables, j \in Index :
           T2[s][j] = IF s = t /\ j = i THEN d ELSE T[s][j]
  <2>1. T \in [Tables -> [Index -> Descriptors]]
    BY DEF Forest, Kept
  <2> QED
    BY <1>1, <2>1
<1>3. \A u : d # <<"table", u>>
  BY Kinds
<1> HIDE DEF T2
<1>4. \A s, u \in Tables, j \in Index :
        T2[s][j] = <<"table", u>> => T[s][j] = <<"table", u>>
  BY <1>2, <1>3
<1>5. Kept(T2, n, lev, own)
  BY <1>2 DEF Forest, Kept
<1>6. Fresh(T2, n)
  <2>1. n \in Nat /\ \A s \in Tables : s \in Nat
    BY MmuAssumption DEF Forest, Kept, Tables
  <2>2. \A s \in Tables : s >= n => s # t
    BY <2>1
  <2> QED
    BY <1>2, <2>2 DEF Forest, Fresh
<1>7. Inner(T2, n, lev, own)
  BY <1>2 DEF Forest, Inner
<1>8. Leaves(T2, lev)
  BY <1>2 DEF Forest, Leaves
<1>9. OneParent(T2)
  BY <1>4 DEF Forest, OneParent
<1>10. Attached(T2, n, lev)
  <2> SUFFICES ASSUME NEW u \in Tables, u < n, lev[u] # 0
               PROVE  \E s \in Tables, j \in Index : T2[s][j] = <<"table", u>>
    BY DEF Attached
  <2>1. PICK s \in Tables, j \in Index : T[s][j] = <<"table", u>>
    BY DEF Forest, Attached
  <2>2. s # t
    <3>1. ASSUME s = t PROVE FALSE
      <4>1. T[s][j] # <<>>
        BY <2>1, Kinds
      <4>2. PICK f : T[s][j] = <<"page", f>>
        BY <3>1, <4>1 DEF Forest, Leaves
      <4> QED
        BY <2>1, <4>2, Kinds
    <3> QED
      BY <3>1
  <2> QED
    BY <1>2, <2>1, <2>2
<1> QED
  BY <1>5, <1>6, <1>7, <1>8, <1>9, <1>10 DEF Forest, T2

(* A table handed out as a root of its own keeps the forest.               *)
LEMMA RootKeepsForest ==
  ASSUME NEW T, NEW n, NEW lev, NEW own, Forest(T, n, lev, own), ~ (n > NumTables)
  PROVE  Forest(T, n + 1, [lev EXCEPT ![n] = 0], [own EXCEPT ![n] = n])
<1> DEFINE lev2 == [lev EXCEPT ![n] = 0]
           own2 == [own EXCEPT ![n] = n]
<1>1. /\ n \in Tables /\ n \in Nat /\ NumTables \in Nat
      /\ \A t \in Tables : t \in Nat
  BY MmuAssumption DEF Forest, Kept, Tables
<1>2. Kept(T, n + 1, lev2, own2)
  BY <1>1, MmuAssumption DEF Forest, Kept
<1>3. /\ \A t \in Tables : lev2[t] = IF t = n THEN 0 ELSE lev[t]
      /\ \A t \in Tables : own2[t] = IF t = n THEN n ELSE own[t]
  BY <1>1 DEF Forest, Kept
<1> HIDE DEF lev2, own2
<1>4. \A j \in Index : T[n][j] = <<>>
  BY <1>1 DEF Forest, Fresh
<1>5. Fresh(T, n + 1)
  <2>1. \A t \in Tables : t >= n + 1 => t >= n
    BY <1>1
  <2> QED
    BY <2>1 DEF Forest, Fresh
<1>6. Inner(T, n + 1, lev2, own2)
  <2> SUFFICES ASSUME NEW t \in Tables, NEW j \in Index, T[t][j] # <<>>, lev2[t] # 3
               PROVE  \E u \in Tables : /\ T[t][j] = <<"table", u>> /\ u < n + 1
                                        /\ lev2[u] = lev2[t] + 1 /\ own2[u] = own2[t]
    BY DEF Inner
  <2>1. t # n /\ lev[t] # 3
    BY <1>3, <1>4
  <2>2. PICK u \in Tables : /\ T[t][j] = <<"table", u>> /\ u < n
                            /\ lev[u] = lev[t] + 1 /\ own[u] = own[t]
    BY <2>1 DEF Forest, Inner
  <2>3. u # n /\ u < n + 1
    BY <1>1, <2>2
  <2> QED
    BY <1>3, <2>1, <2>2, <2>3
<1>7. Leaves(T, lev2)
  BY <1>3, <1>4 DEF Forest, Leaves
<1>8. Attached(T, n + 1, lev2)
  <2>1. \A u \in Tables : u < n + 1 /\ lev2[u] # 0 => u < n /\ lev[u] # 0
    BY <1>1, <1>3
  <2> QED
    BY <2>1 DEF Forest, Attached
<1>9. Rooted(n + 1, lev2, own2)
  BY <1>1, <1>3 DEF Forest, Rooted
<1> QED
  BY <1>2, <1>5, <1>6, <1>7, <1>8, <1>9 DEF Forest, lev2, own2

-----------------------------------------------------------------------------
(* Walks                                                                   *)

\* One step of a walk in the tables T, the first three of them, all four, and
\* the walk of the hardware from root c.
StepIn(T, e, i) == IF e = <<>> THEN <<>> ELSE T[e[2]][i]

Third(T, r, v) ==
  StepIn(T, StepIn(T, StepIn(T, <<"table", r>>, v[1]), v[2]), v[3])

WalkIn(T, r, v) == StepIn(T, Third(T, r, v), v[4])

HardwareIn(T, c, v) ==
  IF c = 0 THEN <<>>
  ELSE LET root == <<"table", c>>
           top  == IF FirstLevel = 0 THEN StepIn(T, root, v[1]) ELSE root
           e    == StepIn(T, StepIn(T, StepIn(T, top, v[2]), v[3]), v[4])
       IN  IF e = <<>> THEN <<>> ELSE <<"page", e[2]>>

(* They are the walks of the model, before and after a step.               *)
LEMMA WalksAre ==
  ASSUME NEW r, NEW v
  PROVE  /\ Walk(r, v) = WalkIn(entries, r, v)
         /\ Walk(r, v)' = WalkIn(entries', r, v)
         /\ HardwareWalk(v) = HardwareIn(entries, current_user_pgd, v)
         /\ HardwareWalk(v)' = HardwareIn(entries', current_user_pgd', v)
         /\ Step(Step(Step(<<"table", r>>, v[1]), v[2]), v[3]) = Third(entries, r, v)
<1>1. \A e, i : Step(e, i) = StepIn(entries, e, i)
  BY DEF Step, StepIn
<1>2. Step(Step(Step(<<"table", r>>, v[1]), v[2]), v[3]) = Third(entries, r, v)
  BY <1>1 DEF Third
<1>3. Walk(r, v) = WalkIn(entries, r, v)
  BY <1>1, <1>2 DEF Walk, WalkIn
<1>4. Walk(r, v)' = WalkIn(entries', r, v)
  BY DEF Walk, WalkIn, Third, Step, StepIn
<1>5. HardwareWalk(v) = HardwareIn(entries, current_user_pgd, v)
  BY <1>1 DEF HardwareWalk, HardwareIn
<1>6. HardwareWalk(v)' = HardwareIn(entries', current_user_pgd', v)
  BY DEF HardwareWalk, HardwareIn, Step, StepIn
<1> QED
  BY <1>2, <1>3, <1>4, <1>5, <1>6

\* A descriptor a walk from root r can have read above level k.
Reads(n, lev, own, r, e, k) ==
  e # <<>> => \E t \in Tables : /\ e = <<"table", t>> /\ t < n
                                /\ lev[t] = k /\ own[t] = r

(* A walk goes down the levels of the tree it started in and ends at a     *)
(* page.                                                                   *)
LEMMA StepReads ==
  ASSUME NEW T, NEW n, NEW lev, NEW own, Forest(T, n, lev, own),
         NEW r, NEW e, NEW k \in 0..3, Reads(n, lev, own, r, e, k), NEW i \in Index
  PROVE  /\ k # 3 => Reads(n, lev, own, r, StepIn(T, e, i), k + 1)
         /\ k = 3 => \/ StepIn(T, e, i) = <<>>
                     \/ \E f \in Frames \union VPages : StepIn(T, e, i) = <<"page", f>>
<1>1. CASE e = <<>>
  BY <1>1 DEF StepIn, Reads
<1>2. CASE e # <<>>
  <2>1. PICK t \in Tables : /\ e = <<"table", t>> /\ t < n
                            /\ lev[t] = k /\ own[t] = r
    BY <1>2 DEF Reads
  <2>2. StepIn(T, e, i) = T[t][i]
    BY <1>2, <2>1 DEF StepIn
  <2>3. k = 3 => \/ StepIn(T, e, i) = <<>>
                 \/ \E f \in Frames \union VPages : StepIn(T, e, i) = <<"page", f>>
    BY <2>1, <2>2 DEF Forest, Leaves
  <2>4. k # 3 => Reads(n, lev, own, r, StepIn(T, e, i), k + 1)
    BY <2>1, <2>2 DEF Forest, Inner, Reads
  <2> QED
    BY <2>3, <2>4
<1> QED
  BY <1>1, <1>2

(* What the first steps of a walk from root r can read.                    *)
LEMMA WalkReads ==
  ASSUME NEW T, NEW n, NEW lev, NEW own, Forest(T, n, lev, own),
         NEW r \in Tables, r < n, lev[r] = 0, NEW v \in VPages
  PROVE  LET e1 == StepIn(T, <<"table", r>>, v[1])
             e2 == StepIn(T, e1, v[2])
         IN  /\ Reads(n, lev, own, r, <<"table", r>>, 0)
             /\ Reads(n, lev, own, r, e1, 1) /\ Reads(n, lev, own, r, e2, 2)
             /\ Reads(n, lev, own, r, Third(T, r, v), 3)
             /\ \/ WalkIn(T, r, v) = <<>>
                \/ \E f \in Frames \union VPages : WalkIn(T, r, v) = <<"page", f>>
<1> DEFINE e0 == <<"table", r>>
           e1 == StepIn(T, e0, v[1])
           e2 == StepIn(T, e1, v[2])
           e3 == StepIn(T, e2, v[3])
<1>1. v[1] \in Index /\ v[2] \in Index /\ v[3] \in Index /\ v[4] \in Index
  BY MmuAssumption
<1>2. e3 = Third(T, r, v) /\ StepIn(T, e3, v[4]) = WalkIn(T, r, v)
  BY DEF Third, WalkIn
<1>3. Reads(n, lev, own, r, e0, 0)
  BY DEF Forest, Rooted, Reads
<1> HIDE DEF e0
<1>4. Reads(n, lev, own, r, e1, 1)
  <2>1. 0 \in 0..3 /\ 0 # 3 /\ 0 + 1 = 1
    OBVIOUS
  <2> QED
    BY <1>1, <1>3, <2>1, StepReads
<1> HIDE DEF e1
<1>5. Reads(n, lev, own, r, e2, 2)
  <2>1. 1 \in 0..3 /\ 1 # 3 /\ 1 + 1 = 2
    OBVIOUS
  <2> QED
    BY <1>1, <1>4, <2>1, StepReads
<1> HIDE DEF e2
<1>6. Reads(n, lev, own, r, e3, 3)
  <2>1. 2 \in 0..3 /\ 2 # 3 /\ 2 + 1 = 3
    OBVIOUS
  <2> QED
    BY <1>1, <1>5, <2>1, StepReads
<1> HIDE DEF e3
<1>7. \/ StepIn(T, e3, v[4]) = <<>>
      \/ \E f \in Frames \union VPages : StepIn(T, e3, v[4]) = <<"page", f>>
  BY <1>1, <1>6, StepReads
<1> QED
  BY <1>2, <1>3, <1>4, <1>5, <1>6, <1>7 DEF e0, e1, e2

(* A change of tables that are not of root r's tree changes no walk from   *)
(* r, neither of the software nor of the hardware.                         *)
LEMMA WalkElsewhere ==
  ASSUME NEW T, NEW n, NEW lev, NEW own, Forest(T, n, lev, own),
         NEW T2, NEW r \in Tables, r < n, lev[r] = 0,
         \A t \in Tables : t < n /\ own[t] = r => T2[t] = T[t],
         NEW v \in VPages
  PROVE  /\ WalkIn(T2, r, v) = WalkIn(T, r, v)
         /\ HardwareIn(T2, r, v) = HardwareIn(T, r, v)
<1>1. v[1] \in Index /\ v[2] \in Index /\ v[3] \in Index /\ v[4] \in Index
  BY MmuAssumption
<1>2. ASSUME NEW e, NEW k, Reads(n, lev, own, r, e, k), NEW i
      PROVE  StepIn(T2, e, i) = StepIn(T, e, i)
  <2>1. CASE e = <<>>
    BY <2>1 DEF StepIn
  <2>2. CASE e # <<>>
    <3>1. PICK t \in Tables : e = <<"table", t>> /\ t < n /\ own[t] = r
      BY <1>2, <2>2 DEF Reads
    <3>2. T2[t] = T[t]
      BY <3>1
    <3> QED
      BY <2>2, <3>1, <3>2 DEF StepIn
  <2> QED
    BY <2>1, <2>2
<1> DEFINE e0 == <<"table", r>>
           e1 == StepIn(T, e0, v[1])
           e2 == StepIn(T, e1, v[2])
           e3 == Third(T, r, v)
<1>3. /\ Reads(n, lev, own, r, e0, 0) /\ Reads(n, lev, own, r, e1, 1)
      /\ Reads(n, lev, own, r, e2, 2) /\ Reads(n, lev, own, r, e3, 3)
  BY WalkReads
<1>4. e3 = StepIn(T, e2, v[3])
  BY DEF Third
<1> HIDE DEF e3
<1>5. Third(T2, r, v) = e3
  <2>1. StepIn(T2, e0, v[1]) = e1
    BY <1>2, <1>3
  <2> HIDE DEF e0, e1
  <2>2. StepIn(T2, e1, v[2]) = e2
    BY <1>2, <1>3 DEF e2
  <2> HIDE DEF e2
  <2>3. StepIn(T2, e2, v[3]) = e3
    BY <1>2, <1>3, <1>4
  <2>4. Third(T2, r, v) = StepIn(T2, StepIn(T2, StepIn(T2, e0, v[1]), v[2]), v[3])
    BY DEF Third, e0
  <2> QED
    BY <2>1, <2>2, <2>3, <2>4
<1>6. WalkIn(T2, r, v) = WalkIn(T, r, v)
  BY <1>2, <1>3, <1>5 DEF WalkIn, e3
<1>7. HardwareIn(T2, r, v) = HardwareIn(T, r, v)
  <2>1. r # 0
    BY DEF Tables
  <2>2. CASE FirstLevel = 0
    <3>1. \A U : HardwareIn(U, r, v) = IF WalkIn(U, r, v) = <<>> THEN <<>>
                                       ELSE <<"page", WalkIn(U, r, v)[2]>>
      BY <2>1, <2>2 DEF HardwareIn, WalkIn, Third
    <3> QED
      BY <1>6, <3>1
  <2>3. CASE FirstLevel # 0
    <3> DEFINE h1 == StepIn(T, e0, v[2])
               h2 == StepIn(T, h1, v[3])
               h3 == StepIn(T, h2, v[4])
               Word(e) == IF e = <<>> THEN <<>> ELSE <<"page", e[2]>>
    <3>1. \A U : HardwareIn(U, r, v) =
                   Word(StepIn(U, StepIn(U, StepIn(U, e0, v[2]), v[3]), v[4]))
      BY <2>1, <2>3 DEF HardwareIn
    <3> HIDE DEF Word
    <3>2. Reads(n, lev, own, r, e0, 0) /\ StepIn(T2, e0, v[2]) = h1
      BY <1>2, <1>3
    <3>3. Reads(n, lev, own, r, h1, 1)
      <4>1. 0 \in 0..3 /\ 0 # 3 /\ 0 + 1 = 1
        OBVIOUS
      <4> QED
        BY <1>1, <3>2, <4>1, StepReads
    <3>4. StepIn(T2, h1, v[3]) = h2
      BY <1>2, <3>3
    <3>5. Reads(n, lev, own, r, h2, 2)
      <4>1. 1 \in 0..3 /\ 1 # 3 /\ 1 + 1 = 2
        OBVIOUS
      <4> QED
        BY <1>1, <3>3, <4>1, StepReads
    <3>6. StepIn(T2, h2, v[4]) = h3
      BY <1>2, <3>5
    <3> QED
      BY <3>1, <3>2, <3>4, <3>6
  <2> QED
    BY <2>2, <2>3
<1> QED
  BY <1>6, <1>7

(* New tables change no walk from their own root either: where a walk      *)
(* found nothing it finds nothing still, in a new table.                   *)
LEMMA GrowthKeepsWalks ==
  ASSUME NEW T, NEW n, NEW lev, NEW own, Forest(T, n, lev, own),
         NEW T2, NEW n2, NEW lev2, NEW own2, Forest(T2, n2, lev2, own2),
         NEW r \in Tables, r < n, lev[r] = 0,
         Grows(T, n, T2, n2, lev, lev2, own, own2, r),
         NEW v \in VPages
  PROVE  WalkIn(T2, r, v) = WalkIn(T, r, v)
<1> DEFINE Close(e, f) == \/ f = e
                          \/ e = <<>> /\ \E u \in Tables : u >= n /\ f = <<"table", u>>
<1>1. v[1] \in Index /\ v[2] \in Index /\ v[3] \in Index /\ v[4] \in Index
  BY MmuAssumption
<1>2. ASSUME NEW e, NEW f, Close(e, f), NEW i \in Index,
             e # <<>> => \E t \in Tables : e = <<"table", t>>
      PROVE  Close(StepIn(T, e, i), StepIn(T2, f, i))
  <2>1. ASSUME NEW t \in Tables
        PROVE  Close(T[t][i], T2[t][i])
    BY DEF Grows
  <2>2. CASE f = <<>>
    <3>1. e = <<>>
      BY <1>2, <2>2, Kinds
    <3> QED
      BY <2>2, <3>1 DEF StepIn
  <2>3. CASE f = e /\ f # <<>>
    <3>1. PICK t \in Tables : e = <<"table", t>>
      BY <1>2, <2>3
    <3>2. StepIn(T, e, i) = T[t][i] /\ StepIn(T2, f, i) = T2[t][i]
      BY <2>3, <3>1 DEF StepIn
    <3> QED
      BY <2>1, <3>2
  <2>4. CASE f # e
    <3>1. PICK u \in Tables : e = <<>> /\ u >= n /\ f = <<"table", u>>
      BY <1>2, <2>4
    <3>2. StepIn(T, e, i) = <<>> /\ StepIn(T2, f, i) = T2[u][i]
      BY <2>4, <3>1 DEF StepIn
    <3>3. T[u][i] = <<>>
      BY <3>1 DEF Forest, Fresh
    <3> QED
      BY <2>1, <3>2, <3>3
  <2> QED
    BY <2>2, <2>3, <2>4
<1>3. ASSUME NEW e, NEW k, Reads(n, lev, own, r, e, k)
      PROVE  e # <<>> => \E t \in Tables : e = <<"table", t>>
  BY <1>3 DEF Reads
<1> DEFINE e0 == <<"table", r>>
           e1 == StepIn(T, e0, v[1])   f1 == StepIn(T2, e0, v[1])
           e2 == StepIn(T, e1, v[2])   f2 == StepIn(T2, f1, v[2])
           e3 == StepIn(T, e2, v[3])   f3 == StepIn(T2, f2, v[3])
<1>4. /\ Reads(n, lev, own, r, e0, 0) /\ Reads(n, lev, own, r, e1, 1)
      /\ Reads(n, lev, own, r, e2, 2) /\ Reads(n, lev, own, r, e3, 3)
  BY WalkReads DEF Third
<1>5. Close(e0, e0)
  OBVIOUS
<1>6. WalkIn(T, r, v) = StepIn(T, e3, v[4]) /\ WalkIn(T2, r, v) = StepIn(T2, f3, v[4])
  BY DEF WalkIn, Third
<1> HIDE DEF e0, Close
<1>7. Close(e1, f1)
  BY <1>1, <1>2, <1>3, <1>4, <1>5
<1> HIDE DEF e1, f1
<1>8. Close(e2, f2)
  BY <1>1, <1>2, <1>3, <1>4, <1>7
<1> HIDE DEF e2, f2
<1>9. Close(e3, f3)
  BY <1>1, <1>2, <1>3, <1>4, <1>8
<1> HIDE DEF e3, f3
<1>10. Close(WalkIn(T, r, v), WalkIn(T2, r, v))
  BY <1>1, <1>2, <1>3, <1>4, <1>6, <1>9
<1>11. \A u \in Tables : WalkIn(T2, r, v) # <<"table", u>>
  <2>1. r < n2 /\ lev2[r] = 0
    BY MmuAssumption DEF Grows, Forest, Kept, Tables
  <2>2. \/ WalkIn(T2, r, v) = <<>>
        \/ \E f \in Frames \union VPages : WalkIn(T2, r, v) = <<"page", f>>
    BY <2>1, WalkReads
  <2> QED
    BY <2>2, Kinds
<1> QED
  BY <1>10, <1>11 DEF Close

(* A walk reaches its last table on the way of the page, and no other page *)
(* of any root goes that way to the same descriptor.                       *)
LEMMA ThirdIsWay ==
  ASSUME NEW T, NEW n, NEW lev, NEW own, Forest(T, n, lev, own),
         NEW r \in Tables, r < n, lev[r] = 0, NEW v \in VPages, NEW t \in Tables
  PROVE  Third(T, r, v) = <<"table", t>> <=> Way(T, r, v, t)
<1> DEFINE e1 == StepIn(T, <<"table", r>>, v[1])
           e2 == StepIn(T, e1, v[2])
<1>1. e1 = T[r][v[1]]
  BY Kinds DEF StepIn
<1>2. Third(T, r, v) = StepIn(T, e2, v[3])
  BY DEF Third
<1>3. Reads(n, lev, own, r, e1, 1) /\ Reads(n, lev, own, r, e2, 2)
  BY WalkReads
<1> HIDE DEF e1
<1>4. ASSUME Third(T, r, v) = <<"table", t>>
      PROVE  Way(T, r, v, t)
  <2>1. e2 # <<>>
    BY <1>2, <1>4, Kinds DEF StepIn
  <2>2. PICK b \in Tables : e2 = <<"table", b>>
    BY <1>3, <2>1 DEF Reads
  <2>3. e1 # <<>>
    BY <2>1 DEF StepIn
  <2>4. PICK a \in Tables : e1 = <<"table", a>>
    BY <1>3, <2>3 DEF Reads
  <2>5. e2 = T[a][v[2]]
    BY <2>3, <2>4 DEF StepIn
  <2> HIDE DEF e2
  <2>6. Third(T, r, v) = T[b][v[3]]
    BY <1>2, <2>1, <2>2 DEF StepIn
  <2> QED
    BY <1>1, <1>4, <2>2, <2>4, <2>5, <2>6 DEF Way
<1>5. ASSUME Way(T, r, v, t)
      PROVE  Third(T, r, v) = <<"table", t>>
  <2>1. PICK a, b \in Tables : /\ T[r][v[1]] = <<"table", a>>
                               /\ T[a][v[2]] = <<"table", b>>
                               /\ T[b][v[3]] = <<"table", t>>
    BY <1>5 DEF Way
  <2>2. e2 = <<"table", b>>
    <3>1. e1 = <<"table", a>> /\ e1 # <<>> /\ e1[2] = a
      BY <1>1, <2>1, Kinds
    <3>2. StepIn(T, e1, v[2]) = T[a][v[2]]
      BY <3>1 DEF StepIn
    <3> QED
      BY <2>1, <3>2
  <2> QED
    <3> HIDE DEF e2
    <3>1. e2 # <<>> /\ e2[2] = b
      BY <2>2, Kinds
    <3>2. StepIn(T, e2, v[3]) = T[b][v[3]]
      BY <3>1 DEF StepIn
    <3> QED
      BY <1>2, <2>1, <3>2
<1> QED
  BY <1>4, <1>5

(* The last table of a walk tells the root and the first three indices.    *)
LEMMA OneWay ==
  ASSUME NEW T, NEW n, NEW lev, NEW own, Forest(T, n, lev, own),
         NEW r \in Tables, NEW s \in Tables, r < n, s < n, lev[r] = 0, lev[s] = 0,
         NEW v \in VPages, NEW w \in VPages, NEW t \in Tables,
         Way(T, r, v, t), Way(T, s, w, t), v[4] = w[4]
  PROVE  r = s /\ v = w
<1>1. /\ v[1] \in Index /\ v[2] \in Index /\ v[3] \in Index /\ v[4] \in Index
      /\ w[1] \in Index /\ w[2] \in Index /\ w[3] \in Index /\ w[4] \in Index
      /\ v = <<v[1], v[2], v[3], v[4]>> /\ w = <<w[1], w[2], w[3], w[4]>>
  BY MmuAssumption
<1>2. PICK a, b \in Tables : /\ T[r][v[1]] = <<"table", a>>
                             /\ T[a][v[2]] = <<"table", b>>
                             /\ T[b][v[3]] = <<"table", t>>
  BY DEF Way
<1>3. PICK c, d \in Tables : /\ T[s][w[1]] = <<"table", c>>
                             /\ T[c][w[2]] = <<"table", d>>
                             /\ T[d][w[3]] = <<"table", t>>
  BY DEF Way
<1>4. b = d /\ v[3] = w[3]
  BY <1>1, <1>2, <1>3 DEF Forest, OneParent
<1>5. a = c /\ v[2] = w[2]
  BY <1>1, <1>2, <1>3, <1>4 DEF Forest, OneParent
<1>6. r = s /\ v[1] = w[1]
  BY <1>1, <1>2, <1>3, <1>5 DEF Forest, OneParent
<1> QED
  BY <1>1, <1>4, <1>5, <1>6

(* Writing the last descriptor on the way of one page changes the walk of  *)
(* that page from that root only.                                          *)
LEMMA LeafKeepsWalks ==
  ASSUME NEW T, NEW n, NEW lev, NEW own, Forest(T, n, lev, own),
         NEW r \in Tables, NEW s \in Tables, r < n, s < n, lev[r] = 0, lev[s] = 0,
         NEW v \in VPages, NEW w \in VPages, NEW t \in Tables, lev[t] = 3,
         Way(T, r, v, t), ~ (s = r /\ w = v), NEW d
  PROVE  WalkIn([T EXCEPT ![t][v[4]] = d], s, w) = WalkIn(T, s, w)
<1> DEFINE T2 == [T EXCEPT ![t][v[4]] = d]
<1>1. /\ v[1] \in Index /\ v[2] \in Index /\ v[3] \in Index /\ v[4] \in Index
      /\ w[1] \in Index /\ w[2] \in Index /\ w[3] \in Index /\ w[4] \in Index
  BY MmuAssumption
<1>2. /\ \A u \in Tables : u # t => T2[u] = T[u]
      /\ \A u \in Tables, j \in Index : ~ (u = t /\ j = v[4]) => T2[u][j] = T[u][j]
  <2>1. T \in [Tables -> [Index -> Descriptors]]
    BY DEF Forest, Kept
  <2> QED
    BY <1>1, <2>1
<1> HIDE DEF T2
<1>3. ASSUME NEW e, NEW k, k # 3, Reads(n, lev, own, s, e, k), NEW i
      PROVE  StepIn(T2, e, i) = StepIn(T, e, i)
  <2>1. CASE e = <<>>
    BY <2>1 DEF StepIn
  <2>2. CASE e # <<>>
    <3>1. PICK u \in Tables : e = <<"table", u>> /\ lev[u] = k
      BY <1>3, <2>2 DEF Reads
    <3>2. T2[u] = T[u]
      BY <1>2, <1>3, <3>1
    <3> QED
      BY <2>2, <3>1, <3>2 DEF StepIn
  <2> QED
    BY <2>1, <2>2
<1> DEFINE e0 == <<"table", s>>
           e1 == StepIn(T, e0, w[1])
           e2 == StepIn(T, e1, w[2])
           e3 == Third(T, s, w)
<1>4. /\ Reads(n, lev, own, s, e0, 0) /\ Reads(n, lev, own, s, e1, 1)
      /\ Reads(n, lev, own, s, e2, 2) /\ Reads(n, lev, own, s, e3, 3)
  BY WalkReads
<1>5. e3 = StepIn(T, e2, w[3])
  BY DEF Third
<1>6. Third(T2, s, w) = e3
  <2>0. 0 # 3 /\ 1 # 3 /\ 2 # 3
    OBVIOUS
  <2> HIDE DEF e3
  <2>1. StepIn(T2, e0, w[1]) = e1
    BY <1>3, <1>4, <2>0
  <2>4. Third(T2, s, w) = StepIn(T2, StepIn(T2, StepIn(T2, e0, w[1]), w[2]), w[3])
    BY DEF Third
  <2> HIDE DEF e0, e1
  <2>2. StepIn(T2, e1, w[2]) = e2
    BY <1>3, <1>4, <2>0 DEF e2
  <2> HIDE DEF e2
  <2>3. StepIn(T2, e2, w[3]) = e3
    BY <1>3, <1>4, <1>5, <2>0
  <2> QED
    BY <2>1, <2>2, <2>3, <2>4
<1>7. StepIn(T2, e3, w[4]) = StepIn(T, e3, w[4])
  <2>1. CASE e3 = <<>>
    BY <2>1 DEF StepIn
  <2>2. CASE e3 # <<>>
    <3> HIDE DEF e3
    <3>1. PICK u \in Tables : e3 = <<"table", u>>
      BY <1>4, <2>2 DEF Reads
    <3>2. StepIn(T2, e3, w[4]) = T2[u][w[4]] /\ StepIn(T, e3, w[4]) = T[u][w[4]]
      BY <2>2, <3>1 DEF StepIn
    <3>3. ~ (u = t /\ w[4] = v[4])
      <4>1. SUFFICES ASSUME u = t, w[4] = v[4] PROVE FALSE
        OBVIOUS
      <4>2. Way(T, s, w, t)
        BY <3>1, <4>1, ThirdIsWay DEF e3
      <4> QED
        BY <4>1, <4>2, OneWay
    <3> QED
      BY <1>1, <1>2, <3>2, <3>3
  <2> QED
    BY <2>1, <2>2
<1> QED
  BY <1>6, <1>7 DEF WalkIn, T2

-----------------------------------------------------------------------------
(* The invariant                                                           *)

\* The tables handed out form trees, one to a root.
Sound ==
  \E lev, own : /\ Forest(entries, next_page_table, lev, own)
                /\ roots = {t \in Tables : t < next_page_table /\ lev[t] = 0}

\* What is cached is a translation of a user's page, and none is before the MMU
\* is on.
Cached ==
  /\ \A x \in tlb : \E v \in UserPages : \E d : x = <<v, d>> /\ d # <<>>
  /\ ~on => tlb = {}

\* A root that has been in TTBR0_EL1 is no longer written to by the code.
Installed ==
  /\ installed \subseteq roots \ {kernel_pgd}
  /\ current_user_pgd \in {0} \union installed

IInv ==
  /\ TypeOK /\ Sound /\ Cached /\ Installed
  /\ current_user_pgd # 0 => Coherent

\* The walks of a step that touches root r's tree, at page v only.
OthersKept(r, v) ==
  /\ \A s \in roots, w \in VPages :
       ~ (s = r /\ w = v) => Walk(s, w)' = Walk(s, w)
  /\ \A s \in roots, w \in VPages :
       s # r => HardwareIn(entries', s, w) = HardwareIn(entries, s, w)

(* map_page() and mmu_map_user_page() keep the trees and touch one page of *)
(* one address space, whether or not the space of tables runs out.         *)
LEMMA MapKeepsTrees ==
  ASSUME Sound, NEW r \in roots, NEW v \in VPages, NEW f \in Frames \union VPages,
         MapIn(r, v, f), roots' = roots
  PROVE  Sound' /\ OthersKept(r, v)
<1>1. PICK lev, own : /\ Forest(entries, next_page_table, lev, own)
                      /\ roots = {t \in Tables : t < next_page_table /\ lev[t] = 0}
  BY DEF Sound
<1> DEFINE n == next_page_table
           m == GetOrCreate(GetOrCreate(GetOrCreate(
                  [tables |-> entries, next |-> n, at |-> r], v[1]), v[2]), v[3])
<1>2. r \in Tables /\ r < n /\ lev[r] = 0 /\ own[r] = r
  BY <1>1 DEF Forest, Rooted
<1>3. /\ next_page_table' = m.next
      /\ entries' = IF m.at = 0 THEN m.tables
                    ELSE [m.tables EXCEPT ![m.at][v[4]] = <<"page", f>>]
  BY DEF MapIn, Built
<1>4. PICK lev2, own2 :
        /\ Forest(m.tables, m.next, lev2, own2)
        /\ Grows(entries, n, m.tables, m.next, lev, lev2, own, own2, r)
        /\ \/ m.at = 0
           \/ /\ m.at \in Tables /\ m.at < m.next
              /\ lev2[m.at] = 3 /\ own2[m.at] = r /\ Way(m.tables, r, v, m.at)
  <2> HIDE DEF m
  <2>1. m = GetOrCreate(GetOrCreate(GetOrCreate(
              [tables |-> entries, next |-> n, at |-> r], v[1]), v[2]), v[3])
    BY DEF m
  <2> QED
    BY <1>1, <1>2, <2>1, DescentGrows
<1> HIDE DEF m
<1>5. v[4] \in Index
  BY MmuAssumption
<1>6. Forest(entries', next_page_table', lev2, own2)
  BY <1>3, <1>4, <1>5, LeafKeepsForest
<1>7. n \in Nat /\ m.next \in Nat /\ n <= m.next /\ \A t \in Tables : t \in Nat
  <2>1. NumTables \in Nat /\ n \in 2..(NumTables + 1)
    BY <1>1, MmuAssumption DEF Forest, Kept
  <2>2. m.next \in n..(NumTables + 1)
    BY <1>4 DEF Grows
  <2> HIDE DEF n
  <2> QED
    BY <2>1, <2>2 DEF Tables
<1>8. roots' = {t \in Tables : t < next_page_table' /\ lev2[t] = 0}
  <2>1. \A t \in Tables : (t < n /\ lev[t] = 0) <=> (t < m.next /\ lev2[t] = 0)
    BY <1>4, <1>7 DEF Grows
  <2> QED
    BY <1>1, <1>3, <2>1
<1>9. Sound'
  BY <1>6, <1>8 DEF Sound
<1>10. ASSUME NEW s \in roots, s # r, NEW w \in VPages
       PROVE  /\ WalkIn(entries', s, w) = WalkIn(entries, s, w)
              /\ HardwareIn(entries', s, w) = HardwareIn(entries, s, w)
  <2>1. s \in Tables /\ s < n /\ lev[s] = 0
    BY <1>1
  <2>2. ASSUME NEW t \in Tables, t < n, own[t] = s
        PROVE  entries'[t] = entries[t]
    <3>1. m.tables[t] = entries[t]
      BY <1>4, <1>10, <2>2 DEF Grows
    <3>2. m.at # 0 => t # m.at
      BY <1>4, <1>10, <2>2 DEF Grows
    <3>3. m.at # 0 => [m.tables EXCEPT ![m.at][v[4]] = <<"page", f>>][t] = m.tables[t]
      BY <1>4, <3>2 DEF Forest, Kept
    <3> QED
      BY <1>3, <3>1, <3>3
  <2> QED
    BY <1>1, <2>1, <2>2, WalkElsewhere
<1>11. ASSUME NEW w \in VPages, w # v
       PROVE  WalkIn(entries', r, w) = WalkIn(entries, r, w)
  <2>1. WalkIn(m.tables, r, w) = WalkIn(entries, r, w)
    BY <1>1, <1>2, <1>4, GrowthKeepsWalks
  <2>2. r < m.next /\ lev2[r] = 0
    BY <1>2, <1>4, <1>7 DEF Grows
  <2>3. CASE m.at = 0
    BY <1>3, <2>1, <2>3
  <2>4. CASE m.at # 0
    <3>1. /\ m.at \in Tables /\ lev2[m.at] = 3 /\ Way(m.tables, r, v, m.at)
          /\ Forest(m.tables, m.next, lev2, own2)
      BY <1>4, <2>4
    <3>2. \A d : WalkIn([m.tables EXCEPT ![m.at][v[4]] = d], r, w) = WalkIn(m.tables, r, w)
      <4> TAKE d
      <4>1. ~ (r = r /\ w = v) /\ r \in Tables
        BY <1>2, <1>11
      <4> QED
        BY <2>2, <3>1, <4>1, LeafKeepsWalks
    <3> QED
      BY <1>3, <2>1, <2>4, <3>2
  <2> QED
    BY <2>3, <2>4
<1>12. OthersKept(r, v)
  <2>1. \A s, w : Walk(s, w) = WalkIn(entries, s, w) /\ Walk(s, w)' = WalkIn(entries', s, w)
    BY WalksAre
  <2>2. \A s \in roots, w \in VPages :
          ~ (s = r /\ w = v) => WalkIn(entries', s, w) = WalkIn(entries, s, w)
    BY <1>10, <1>11
  <2>3. \A s \in roots, w \in VPages :
          s # r => HardwareIn(entries', s, w) = HardwareIn(entries, s, w)
    BY <1>10
  <2> QED
    BY <2>1, <2>2, <2>3 DEF OthersKept
<1> QED
  BY <1>9, <1>12

(* unmap_page() too, in the kernel's space.                                *)
LEMMA UnmapKeepsTrees ==
  ASSUME Sound, kernel_pgd \in roots, NEW v \in KernelPages, Unmap(v)
  PROVE  Sound' /\ OthersKept(kernel_pgd, v)
<1>1. PICK lev, own : /\ Forest(entries, next_page_table, lev, own)
                      /\ roots = {t \in Tables : t < next_page_table /\ lev[t] = 0}
  BY DEF Sound
<1> DEFINE n == next_page_table
           r == kernel_pgd
           e == Third(entries, r, v)
<1>2. r \in Tables /\ r < n /\ lev[r] = 0 /\ own[r] = r /\ v \in VPages
  BY <1>1 DEF Forest, Rooted, VPages
<1>3. /\ e # <<>>
      /\ entries' = [entries EXCEPT ![e[2]][v[4]] = <<>>]
      /\ UNCHANGED <<next_page_table, roots>>
  BY WalksAre DEF Unmap
<1> HIDE DEF r
<1>4. PICK t \in Tables : e = <<"table", t>> /\ t < n /\ lev[t] = 3 /\ own[t] = r
  <2>1. Reads(n, lev, own, r, e, 3)
    BY <1>1, <1>2, WalkReads
  <2> QED
    BY <1>3, <2>1 DEF Reads
<1>5. Way(entries, r, v, t)
  BY <1>1, <1>2, <1>4, ThirdIsWay
<1>6. v[4] \in Index
  BY <1>2, MmuAssumption
<1>7. entries' = [entries EXCEPT ![t][v[4]] = <<>>]
  BY <1>3, <1>4
<1>8. Sound'
  <2>1. Forest(entries', n, lev, own)
    BY <1>1, <1>4, <1>6, <1>7, LeafKeepsForest
  <2> QED
    BY <1>1, <1>3, <2>1 DEF Sound
<1>9. ASSUME NEW s \in roots, NEW w \in VPages, ~ (s = r /\ w = v)
      PROVE  WalkIn(entries', s, w) = WalkIn(entries, s, w)
  <2>1. s \in Tables /\ s < n /\ lev[s] = 0
    BY <1>1
  <2> QED
    <3> HIDE DEF e, n
    <3>1. Forest(entries, n, lev, own)
      BY <1>1 DEF n
    <3>2. WalkIn([entries EXCEPT ![t][v[4]] = <<>>], s, w) = WalkIn(entries, s, w)
      <4>1. \A d : WalkIn([entries EXCEPT ![t][v[4]] = d], s, w) = WalkIn(entries, s, w)
        <5> TAKE d
        <5> QED
          <6>1. r \in Tables /\ r < n /\ lev[r] = 0 /\ lev[t] = 3 /\ v \in VPages
            BY <1>2, <1>4
          <6> QED
            BY <1>5, <1>9, <2>1, <3>1, <6>1, LeafKeepsWalks
      <4> QED
        BY <4>1
    <3> QED
      BY <1>7, <3>2
<1>10. ASSUME NEW s \in roots, NEW w \in VPages, s # r
       PROVE  HardwareIn(entries', s, w) = HardwareIn(entries, s, w)
  <2>1. s \in Tables /\ s < n /\ lev[s] = 0
    BY <1>1
  <2>2. \A u \in Tables : u < n /\ own[u] = s => entries'[u] = entries[u]
    BY <1>1, <1>4, <1>7, <1>10 DEF Forest, Kept
  <2> QED
    BY <1>1, <2>1, <2>2, WalkElsewhere
<1>11. OthersKept(r, v)
  <2>1. \A s, w : Walk(s, w) = WalkIn(entries, s, w) /\ Walk(s, w)' = WalkIn(entries', s, w)
    BY WalksAre
  <2>2. \A s \in roots, w \in VPages :
          ~ (s = r /\ w = v) => WalkIn(entries', s, w) = WalkIn(entries, s, w)
    BY <1>9
  <2>3. \A s \in roots, w \in VPages :
          s # r => HardwareIn(entries', s, w) = HardwareIn(entries, s, w)
    BY <1>10
  <2> QED
    BY <2>1, <2>2, <2>3 DEF OthersKept
<1> QED
  BY <1>8, <1>11 DEF r

(* mmu_create_user_table() adds a tree of an empty root and changes no     *)
(* walk; nothing is found from the new root.                               *)
LEMMA CreateKeepsTrees ==
  ASSUME Sound, CreateUserTable
  PROVE  /\ Sound'
         /\ \A s, w : Walk(s, w)' = Walk(s, w)
         /\ \/ roots' = roots
            \/ /\ roots' = roots \union {next_page_table}
               /\ next_page_table \in Tables \ roots
               /\ \A w \in VPages : Walk(next_page_table, w) = <<>>
<1>1. PICK lev, own : /\ Forest(entries, next_page_table, lev, own)
                      /\ roots = {t \in Tables : t < next_page_table /\ lev[t] = 0}
  BY DEF Sound
<1> DEFINE n == next_page_table
<1>2. UNCHANGED entries
  BY DEF CreateUserTable
<1>3. \A s, w : Walk(s, w)' = Walk(s, w)
  BY <1>2, WalksAre
<1>4. CASE n > NumTables
  <2>1. UNCHANGED <<next_page_table, roots>>
    BY <1>4 DEF CreateUserTable
  <2> QED
    BY <1>1, <1>2, <1>3, <2>1 DEF Sound
<1>5. CASE ~ (n > NumTables)
  <2> DEFINE lev2 == [lev EXCEPT ![n] = 0]
             own2 == [own EXCEPT ![n] = n]
  <2>1. next_page_table' = n + 1 /\ roots' = roots \union {n}
    BY <1>5 DEF CreateUserTable
  <2>2. Forest(entries', next_page_table', lev2, own2)
    BY <1>1, <1>2, <1>5, <2>1, RootKeepsForest
  <2>3. n \in Nat /\ n \in Tables /\ \A t \in Tables : t \in Nat
    BY <1>1, <1>5, MmuAssumption DEF Forest, Kept, Tables
  <2>4. \A t \in Tables : lev2[t] = IF t = n THEN 0 ELSE lev[t]
    BY <1>1, <2>3 DEF Forest, Kept
  <2> HIDE DEF lev2, own2
  <2>5. n \notin roots
    BY <1>1, <2>3
  <2>6. roots' = {t \in Tables : t < next_page_table' /\ lev2[t] = 0}
    <3>1. \A t \in Tables : t < n + 1 <=> (t < n \/ t = n)
      BY <2>3
    <3> HIDE DEF n
    <3>2. roots = {t \in Tables : t < n /\ lev[t] = 0}
      BY <1>1 DEF n
    <3> QED
      BY <2>1, <2>3, <2>4, <3>1, <3>2
  <2>7. Sound'
    BY <2>2, <2>6 DEF Sound
  <2>8. \A w \in VPages : Walk(n, w) = <<>>
    <3> TAKE w \in VPages
    <3>1. w[1] \in Index
      BY MmuAssumption
    <3>2. entries[n][w[1]] = <<>>
      BY <1>1, <2>3, <3>1 DEF Forest, Fresh
    <3>3. StepIn(entries, <<"table", n>>, w[1]) = <<>>
      BY <3>2, Kinds DEF StepIn
    <3>4. Third(entries, n, w) = <<>>
      BY <3>3 DEF Third, StepIn
    <3>5. WalkIn(entries, n, w) = <<>>
      BY <3>4 DEF WalkIn, StepIn
    <3> QED
      BY <3>5, WalksAre
  <2> QED
    BY <1>3, <2>1, <2>3, <2>5, <2>7, <2>8
<1> QED
  BY <1>4, <1>5

(* What the trees say of the types.                                        *)
LEMMA SoundTypes ==
  /\ Sound => /\ entries \in [Tables -> [Index -> Descriptors]]
              /\ next_page_table \in 2..(NumTables + 1) /\ roots \subseteq Tables
  /\ Sound' => /\ entries' \in [Tables -> [Index -> Descriptors]]
               /\ next_page_table' \in 2..(NumTables + 1) /\ roots' \subseteq Tables
  BY DEF Sound, Forest, Kept, Tables, Descriptors

(* A step that keeps the trees, caches nothing and leaves TTBR0_EL1 and    *)
(* what the hardware finds from it, or clears it, keeps the invariant.     *)
LEMMA QuietStep ==
  ASSUME IInv, Sound', roots \subseteq roots', installed' = installed,
         current_user_pgd' \in {0, current_user_pgd},
         tlb' \subseteq tlb, on' \in BOOLEAN, hung' \in BOOLEAN, on => on',
         current_user_pgd # 0 => \A v \in UserPages : HardwareWalk(v)' = HardwareWalk(v)
  PROVE  IInv'
<1>1. /\ kernel_pgd \in roots /\ current_user_pgd \in {0} \union (roots \ {kernel_pgd})
      /\ installed \subseteq roots /\ \A x \in tlb : x[1] \in UserPages
  BY DEF IInv, TypeOK
<1>2. Installed'
  BY <1>1 DEF IInv, Installed, kernel_pgd
<1>3. Cached'
  BY DEF IInv, Cached
<1>4. TypeOK'
  BY <1>1, <1>2, SoundTypes DEF TypeOK, Installed, kernel_pgd, Descriptors, Tables
<1>5. ASSUME current_user_pgd' # 0, NEW x \in tlb'
      PROVE  x[2] = HardwareWalk(x[1])'
  <2>1. Coherent /\ x[1] \in UserPages /\ x \in tlb /\ current_user_pgd # 0
    BY <1>1, <1>5 DEF IInv
  <2>2. HardwareWalk(x[1])' = HardwareWalk(x[1])
    BY <2>1
  <2> QED
    BY <2>1, <2>2 DEF Coherent
<1>6. current_user_pgd' # 0 => Coherent'
  BY <1>5 DEF Coherent
<1> QED
  BY <1>2, <1>3, <1>4, <1>6 DEF IInv

(* The walks of the hardware from the table in TTBR0_EL1, in a step that   *)
(* touches a tree that has not been there.                                 *)
LEMMA InstalledWalks ==
  ASSUME Installed, NEW r \in roots \ installed, NEW w, OthersKept(r, w),
         current_user_pgd' = current_user_pgd, current_user_pgd # 0
  PROVE  \A v \in UserPages : HardwareWalk(v)' = HardwareWalk(v)
<1> SUFFICES ASSUME NEW v \in UserPages
             PROVE  HardwareWalk(v)' = HardwareWalk(v)
  OBVIOUS
<1> DEFINE c == current_user_pgd
<1>1. c \in roots /\ c # r /\ v \in VPages
  BY DEF Installed, VPages
<1>2. HardwareIn(entries', c, v) = HardwareIn(entries, c, v)
  BY <1>1 DEF OthersKept
<1>3. /\ HardwareWalk(v) = HardwareIn(entries, c, v)
      /\ HardwareWalk(v)' = HardwareIn(entries', c', v)
  BY WalksAre
<1> QED
  BY <1>2, <1>3

(* mmu_init() leaves one empty tree.                                       *)
LEMMA InitIInv == Init => IInv
<1> SUFFICES ASSUME Init PROVE IInv
  OBVIOUS
<1> DEFINE lev == [t \in Tables |-> 0]
           own == [t \in Tables |-> t]
<1>1. NumTables \in Nat \ {0} /\ 1 \in Tables /\ \A t \in Tables : t \in Nat /\ t >= 1
  BY MmuAssumption DEF Tables
<1>2. /\ entries = [t \in Tables |-> Empty] /\ next_page_table = 2 /\ roots = {1}
      /\ \A t \in Tables, i \in Index : entries[t][i] = <<>>
  BY DEF Init, Empty, kernel_pgd
<1>3. Forest(entries, 2, lev, own)
  <2>1. entries \in [Tables -> [Index -> Descriptors]]
    BY <1>2 DEF Empty, Descriptors
  <2>2. Kept(entries, 2, lev, own)
    BY <1>1, <2>1 DEF Kept
  <2>3. Fresh(entries, 2) /\ Inner(entries, 2, lev, own) /\ Leaves(entries, lev)
    BY <1>2 DEF Fresh, Inner, Leaves
  <2>4. OneParent(entries)
    BY <1>2, Kinds DEF OneParent
  <2>5. Attached(entries, 2, lev) /\ Rooted(2, lev, own)
    BY DEF Attached, Rooted
  <2> QED
    BY <2>2, <2>3, <2>4, <2>5 DEF Forest
<1>4. roots = {t \in Tables : t < 2 /\ lev[t] = 0}
  <2>1. \A t \in Tables : t < 2 <=> t = 1
    BY <1>1
  <2> QED
    BY <1>1, <1>2, <2>1
<1> HIDE DEF lev, own
<1>5. Sound
  BY <1>2, <1>3, <1>4 DEF Sound
<1>6. TypeOK
  BY <1>1, <1>5, SoundTypes DEF TypeOK, Init, kernel_pgd
<1> QED
  BY <1>5, <1>6 DEF IInv, Cached, Installed, Coherent, Init, kernel_pgd

(* Every step of the code and of the hardware keeps the invariant.         *)
LEMMA NextIInv == IInv /\ [Next]_vars => IInv'
<1> SUFFICES ASSUME IInv, [Next]_vars PROVE IInv'
  OBVIOUS
<1>0. /\ TypeOK /\ Sound /\ Installed /\ Cached
      /\ kernel_pgd \in roots \ installed
      /\ on \in BOOLEAN /\ hung \in BOOLEAN
  BY DEF IInv, TypeOK, Installed
<1>1. ASSUME NEW v \in KernelPages, MapKernel(v) PROVE IInv'
  <2>1. /\ MapIn(kernel_pgd, v, v) /\ v \in VPages
        /\ UNCHANGED <<roots, on, current_user_pgd, tlb, installed>>
    BY <1>1 DEF MapKernel, VPages
  <2>2. Sound' /\ OthersKept(kernel_pgd, v)
    BY <1>0, <2>1, MapKeepsTrees
  <2>3. hung' \in BOOLEAN
    BY <2>1 DEF MapIn
  <2> QED
    BY <1>0, <2>1, <2>2, <2>3, InstalledWalks, QuietStep
<1>2. ASSUME NEW v \in KernelPages, Unmap(v) PROVE IInv'
  <2>1. /\ UNCHANGED <<roots, on, current_user_pgd, installed, hung>>
        /\ tlb' \subseteq tlb
    BY <1>2 DEF Unmap
  <2>2. Sound' /\ OthersKept(kernel_pgd, v)
    BY <1>0, <1>2, UnmapKeepsTrees
  <2> QED
    BY <1>0, <2>1, <2>2, InstalledWalks, QuietStep
<1>3. CASE Enable
  <2>1. /\ UNCHANGED <<entries, next_page_table, roots, tlb, installed, hung>>
        /\ on' = TRUE /\ current_user_pgd' = 0
    BY <1>3 DEF Enable, space
  <2>2. Sound' /\ Installed' /\ Cached'
    BY <1>0, <2>1 DEF Sound, Installed, Cached
  <2>3. TypeOK'
    BY <1>0, <2>1 DEF TypeOK
  <2> QED
    BY <2>1, <2>2, <2>3 DEF IInv
<1>4. CASE CreateUserTable
  <2>1. UNCHANGED <<entries, on, current_user_pgd, tlb, installed>>
    BY <1>4 DEF CreateUserTable
  <2>2. Sound' /\ roots \subseteq roots'
    BY <1>0, <1>4, CreateKeepsTrees
  <2>3. \A v : HardwareWalk(v)' = HardwareWalk(v)
    BY <2>1 DEF HardwareWalk, Step
  <2>4. hung' \in BOOLEAN
    BY <1>0, <1>4 DEF CreateUserTable
  <2> QED
    BY <1>0, <2>1, <2>2, <2>3, <2>4, QuietStep
<1>5. ASSUME NEW r \in Tables, NEW v \in UserPages, NEW f \in Frames, MapUser(r, v, f)
      PROVE  IInv'
  <2>1. /\ MapIn(r, v, f) /\ v \in VPages /\ r \in roots \ installed
        /\ UNCHANGED <<roots, on, current_user_pgd, tlb, installed>>
    BY <1>5 DEF MapUser, VPages
  <2>2. Sound' /\ OthersKept(r, v)
    BY <1>0, <2>1, MapKeepsTrees
  <2>3. hung' \in BOOLEAN
    BY <2>1 DEF MapIn
  <2> QED
    BY <1>0, <2>1, <2>2, <2>3, InstalledWalks, QuietStep
<1>6. ASSUME NEW r \in Tables \union {0}, SwitchUserTable(r) PROVE IInv'
  <2>1. /\ UNCHANGED <<entries, next_page_table, roots, on, hung>> /\ on
        /\ r \in (roots \ {kernel_pgd}) \union {0} /\ current_user_pgd' = r
        /\ installed' = installed \union ({r} \ {0}) /\ tlb' = {}
    BY <1>6 DEF SwitchUserTable, space
  <2>2. Sound' /\ Cached'
    BY <1>0, <2>1 DEF Sound, Cached
  <2>3. Installed'
    BY <1>0, <2>1 DEF Installed, kernel_pgd
  <2>4. TypeOK'
    BY <1>0, <2>1 DEF TypeOK, kernel_pgd
  <2> QED
    BY <2>1, <2>2, <2>3, <2>4 DEF IInv, Coherent
<1>7. ASSUME NEW r \in Tables, Destroy(r) PROVE IInv'
  <2>1. /\ UNCHANGED <<entries, next_page_table, roots, on, tlb, installed, hung>>
        /\ current_user_pgd' = 0
    BY <1>7 DEF Destroy, space
  <2>2. Sound' /\ Installed' /\ Cached'
    BY <1>0, <2>1 DEF Sound, Installed, Cached
  <2>3. TypeOK'
    BY <1>0, <2>1 DEF TypeOK
  <2> QED
    BY <2>1, <2>2, <2>3 DEF IInv
<1>8. ASSUME NEW v \in UserPages, FillTlb(v) PROVE IInv'
  <2> DEFINE d == HardwareWalk(v)
  <2>1. /\ UNCHANGED <<entries, next_page_table, roots, on, current_user_pgd, installed, hung>>
        /\ on /\ d # <<>> /\ tlb' = tlb \union {<<v, d>>}
    BY <1>8 DEF FillTlb, space
  <2>2. \A w : HardwareWalk(w)' = HardwareWalk(w)
    <3>1. entries' = entries /\ current_user_pgd' = current_user_pgd
      BY <2>1
    <3> HIDE DEF d
    <3> QED
      BY <3>1 DEF HardwareWalk, Step
  <2> HIDE DEF d
  <2>3. Sound' /\ Installed' /\ Cached'
    <3>1. Sound' /\ Installed'
      BY <1>0, <2>1 DEF Sound, Installed
    <3>2. Cached'
      BY <1>0, <2>1 DEF Cached
    <3> QED
      BY <3>1, <3>2
  <2>4. TypeOK'
    <3>1. \A x \in tlb' : x[1] \in UserPages
      BY <1>0, <2>1 DEF TypeOK
    <3> QED
      BY <1>0, <2>1, <3>1 DEF TypeOK
  <2>5. current_user_pgd' # 0 => Coherent'
    BY <2>1, <2>2 DEF IInv, Coherent, d
  <2> QED
    BY <2>3, <2>4, <2>5 DEF IInv
<1>9. CASE UNCHANGED vars
  <2>1. UNCHANGED <<entries, next_page_table, roots, on, current_user_pgd, tlb, installed, hung>>
    BY <1>9 DEF vars, space
  <2>2. \A w : HardwareWalk(w)' = HardwareWalk(w)
    BY <2>1 DEF HardwareWalk, Step
  <2>3. Sound'
    BY <1>0, <2>1 DEF Sound
  <2> QED
    BY <1>0, <2>1, <2>2, <2>3, QuietStep
<1> QED
  BY <1>1, <1>2, <1>3, <1>4, <1>5, <1>6, <1>7, <1>8, <1>9 DEF Next

(* The invariant holds in every reachable state.                           *)
LEMMA IInvCorrect == Spec => []IInv
  BY InitIInv, NextIInv, PTL DEF Spec

-----------------------------------------------------------------------------
(* What it says of the code                                                *)

(* Tables, roots and TLB have their types: the bump allocator stays within *)
(* its space and TTBR0_EL1 holds a user's root or none.                    *)
THEOREM TypeCorrect == Spec => []TypeOK
<1>1. IInv => TypeOK
  BY DEF IInv
<1> QED
  BY <1>1, IInvCorrect, PTL

(* However get_or_create_table() is called, the tables form disjoint       *)
(* trees: no two address spaces share a table and none has two parents.    *)
THEOREM TreesCorrect == Spec => []Trees
<1>1. IInv => Trees
  <2> SUFFICES ASSUME IInv, NEW t \in Tables
               PROVE  Cardinality(PointersTo(t)) =
                        IF t < next_page_table /\ t \notin roots THEN 1 ELSE 0
    BY DEF Trees
  <2> DEFINE n == next_page_table
  <2>1. PICK lev, own : /\ Forest(entries, n, lev, own)
                        /\ roots = {r \in Tables : r < n /\ lev[r] = 0}
    BY DEF IInv, Sound
  <2>2. CASE t < n /\ t \notin roots
    <3>1. PICK s \in Tables, i \in Index : entries[s][i] = <<"table", t>>
      BY <2>1, <2>2 DEF Forest, Attached
    <3>2. \A x \in Tables \X Index :
            entries[x[1]][x[2]] = <<"table", t>> <=> x = <<s, i>>
      BY <2>1, <3>1 DEF Forest, OneParent
    <3>3. PointersTo(t) = {<<s, i>>}
      BY <3>2 DEF PointersTo
    <3> QED
      BY <2>2, <3>3, FS_Singleton
  <2>3. CASE ~ (t < n /\ t \notin roots)
    <3>1. ASSUME NEW s \in Tables, NEW i \in Index, entries[s][i] = <<"table", t>>
          PROVE  FALSE
      <4>1. entries[s][i] # <<>> /\ \A f : entries[s][i] # <<"page", f>>
        BY <3>1, Kinds
      <4>2. lev[s] # 3
        BY <2>1, <4>1 DEF Forest, Leaves
      <4>3. PICK u \in Tables : /\ entries[s][i] = <<"table", u>> /\ u < n
                                /\ lev[u] = lev[s] + 1
        BY <2>1, <4>1, <4>2 DEF Forest, Inner
      <4>4. u = t
        BY <3>1, <4>3, Kinds
      <4>5. lev[s] \in 0..3
        BY <2>1 DEF Forest, Kept
      <4> QED
        BY <2>1, <2>3, <4>3, <4>4, <4>5
    <3>2. PointersTo(t) = {}
      BY <3>1 DEF PointersTo
    <3> QED
      BY <2>3, <3>2, FS_EmptySet
  <2> QED
    BY <2>2, <2>3
<1> QED
  BY <1>1, IInvCorrect, PTL

(* Translations cached under the one ASID never outlive the table they     *)
(* came from, but for the time mmu_destroy_user_table() leaves them.       *)
THEOREM TlbCorrect == Spec => TlbCoherent
<1>1. IInv /\ IInv' /\ [Next]_vars =>
        [\/ Coherent'
         \/ current_user_pgd' = 0 /\ (~Coherent \/ \E r \in Tables : Destroy(r))]_vars
  <2> SUFFICES ASSUME IInv, IInv', Next, ~ Coherent', Coherent,
                      ~ \E r \in Tables : Destroy(r)
               PROVE  FALSE
    BY DEF IInv
  <2>1. current_user_pgd' = 0
    BY DEF IInv
  <2>2. tlb' # {}
    BY DEF Coherent
  <2>3. ~ \E r \in Tables \union {0} : SwitchUserTable(r)
    BY <2>2 DEF SwitchUserTable
  <2>4. ~ Enable
    <3>1. Enable => tlb = {} /\ tlb' = tlb
      BY DEF Enable, IInv, Cached
    <3> QED
      BY <2>2, <3>1
  <2>5. UNCHANGED current_user_pgd
    BY <2>3, <2>4 DEF Next, MapKernel, Unmap, CreateUserTable, MapUser, FillTlb
  <2>6. tlb = {}
    <3>1. \A v : HardwareWalk(v) = <<>>
      BY <2>1, <2>5 DEF HardwareWalk
    <3>2. ASSUME NEW x \in tlb PROVE FALSE
      <4>1. PICK v, d : x = <<v, d>> /\ d # <<>>
        BY <3>2 DEF IInv, Cached
      <4>2. x[2] = HardwareWalk(x[1]) /\ x[2] = d
        BY <3>2, <4>1 DEF Coherent
      <4> QED
        BY <3>1, <4>1, <4>2
    <3> QED
      BY <3>2
  <2>7. ~ \E v \in UserPages : FillTlb(v)
    BY <2>1, <2>5 DEF FillTlb, HardwareWalk
  <2>8. tlb' \subseteq tlb
    BY <2>3, <2>4, <2>7 DEF Next, MapKernel, Unmap, CreateUserTable, MapUser
  <2> QED
    BY <2>2, <2>6, <2>8
<1> QED
  BY <1>1, IInvCorrect, PTL DEF Spec, TlbCoherent

-----------------------------------------------------------------------------
(* The tables implement AddressSpaces                                      *)

\* The address spaces as the software walk reads them, mapped as in Mmu.
Space == [r \in roots |-> [v \in VPages |-> Walk(r, v)]]

(* A step that leaves all walks but one alone sets that page or nothing.   *)
LEMMA OnePageSet ==
  ASSUME roots' = roots, NEW r \in roots, r \in Tables, NEW v \in VPages,
         \A s \in roots, w \in VPages :
           ~ (s = r /\ w = v) => Walk(s, w)' = Walk(s, w)
  PROVE  Map!Set(r, v)
<1>1. DOMAIN Space = roots /\ DOMAIN Space' = roots
  BY DEF Space
<1>2. ASSUME NEW s \in roots, NEW w \in VPages, <<s, w>> # <<r, v>>
      PROVE  Space'[s][w] = Space[s][w]
  <2>1. Walk(s, w)' = Walk(s, w)
    BY <1>2
  <2>2. Space[s][w] = Walk(s, w)
    BY DEF Space
  <2>3. Space'[s][w] = Walk(s, w)'
    BY DEF Space
  <2> QED
    BY <2>1, <2>2, <2>3
<1> QED
  BY <1>1, <1>2 DEF Map!Set, Space

(* The code keeps the promise of AddressSpaces: each call makes an empty   *)
(* address space, changes one page of one, or changes none.                *)
THEOREM ImplementsAddressSpaces == Spec => MapSafety
<1>1. Init => Map!Init
  <2> SUFFICES ASSUME Init PROVE Map!Init
    OBVIOUS
  <2>1. \A r \in roots, v \in VPages : Walk(r, v) = <<>>
    <3> SUFFICES ASSUME NEW r \in roots, NEW v \in VPages PROVE Walk(r, v) = <<>>
      OBVIOUS
    <3>1. v[1] \in Index /\ r \in Tables
      BY MmuAssumption DEF Init, kernel_pgd, Tables
    <3>2. entries[r][v[1]] = <<>>
      BY <3>1 DEF Init, Empty
    <3>3. StepIn(entries, <<"table", r>>, v[1]) = <<>>
      BY <3>2, Kinds DEF StepIn
    <3>4. Third(entries, r, v) = <<>>
      BY <3>3 DEF Third, StepIn
    <3>5. WalkIn(entries, r, v) = <<>>
      BY <3>4 DEF WalkIn, StepIn
    <3> QED
      BY <3>5, WalksAre
  <2>2. roots \in SUBSET Tables
    BY MmuAssumption DEF Init, kernel_pgd, Tables
  <2>3. Space \in [roots -> [VPages -> {<<>>}]]
    BY <2>1 DEF Space
  <2> QED
    BY <2>2, <2>3 DEF Map!Init, Map!Spaces, Space
<1>2. IInv /\ [Next]_vars => [Map!Next]_Space
  <2> SUFFICES ASSUME IInv, [Next]_vars PROVE Map!Next \/ Space' = Space
    BY DEF Space
  <2>0. /\ Sound /\ kernel_pgd \in roots /\ roots \subseteq Tables
    BY DEF IInv, TypeOK
  <2>1. ASSUME NEW r \in roots, NEW v \in VPages, OthersKept(r, v), roots' = roots
        PROVE  Map!Next
    <3>1. Map!Set(r, v)
      BY <2>0, <2>1, OnePageSet DEF OthersKept
    <3> QED
      BY <2>0, <3>1 DEF Map!Next
  <2>2. ASSUME UNCHANGED <<entries, roots>>
        PROVE  Space' = Space
    BY <2>2 DEF Space, Walk, Step
  <2>3. ASSUME NEW v \in KernelPages, MapKernel(v) PROVE Map!Next
    <3>1. MapIn(kernel_pgd, v, v) /\ v \in VPages /\ UNCHANGED roots
      BY <2>3 DEF MapKernel, VPages
    <3> QED
      BY <2>0, <2>1, <3>1, MapKeepsTrees
  <2>4. ASSUME NEW v \in KernelPages, Unmap(v) PROVE Map!Next
    <3>1. v \in VPages /\ UNCHANGED roots
      BY <2>4 DEF Unmap, VPages
    <3> QED
      BY <2>0, <2>1, <2>4, <3>1, UnmapKeepsTrees
  <2>5. ASSUME NEW r \in Tables, NEW v \in UserPages, NEW f \in Frames, MapUser(r, v, f)
        PROVE  Map!Next
    <3>1. MapIn(r, v, f) /\ v \in VPages /\ r \in roots /\ UNCHANGED roots
      BY <2>5 DEF MapUser, VPages
    <3> QED
      BY <2>0, <2>1, <3>1, MapKeepsTrees
  <2>6. CASE CreateUserTable
    <3> DEFINE n == next_page_table
    <3>1. \A s, w : Walk(s, w)' = Walk(s, w)
      BY <2>0, <2>6, CreateKeepsTrees
    <3>2. CASE roots' = roots
      BY <3>1, <3>2 DEF Space
    <3>3. CASE /\ roots' = roots \union {n} /\ n \in Tables \ roots
               /\ \A w \in VPages : Walk(n, w) = <<>>
      <4>1. DOMAIN Space = roots
        BY DEF Space
      <4>2. Space' = [t \in roots \union {n} |-> [w \in VPages |-> Walk(t, w)]]
        BY <3>1, <3>3 DEF Space
      <4> HIDE DEF n
      <4>3. \A t \in roots \union {n} :
              [w \in VPages |-> Walk(t, w)] =
                IF t = n THEN [w \in VPages |-> <<>>] ELSE Space[t]
        BY <3>3 DEF Space
      <4>4. Space' = [t \in DOMAIN Space \union {n} |->
                        IF t = n THEN [w \in VPages |-> <<>>] ELSE Space[t]]
        BY <4>1, <4>2, <4>3
      <4>5. Map!New(n)
        BY <3>3, <4>1, <4>4 DEF Map!New, Space
      <4> QED
        BY <3>3, <4>5 DEF Map!Next
    <3> QED
      BY <2>0, <2>6, <3>2, <3>3, CreateKeepsTrees
  <2>7. ASSUME NEW r \in Tables \union {0}, SwitchUserTable(r) PROVE Space' = Space
    BY <2>2, <2>7 DEF SwitchUserTable, space
  <2>8. CASE Enable
    BY <2>2, <2>8 DEF Enable, space
  <2>9. ASSUME NEW r \in Tables, Destroy(r) PROVE Space' = Space
    BY <2>2, <2>9 DEF Destroy, space
  <2>10. ASSUME NEW v \in UserPages, FillTlb(v) PROVE Space' = Space
    BY <2>2, <2>10 DEF FillTlb, space
  <2>11. CASE UNCHANGED vars
    BY <2>2, <2>11 DEF vars, space
  <2> QED
    BY <2>3, <2>4, <2>5, <2>6, <2>7, <2>8, <2>9, <2>10, <2>11 DEF Next
<1> QED
  BY <1>1, <1>2, IInvCorrect, PTL DEF Spec, MapSafety, Map!Spec, Space
=============================================================================
