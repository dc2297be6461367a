-------------------------- MODULE TimerHeapProofs ---------------------------
(***************************************************************************)
(* Proofs about TimerHeap, for heaps of every size: the order of the heap, *)
(* and that its two sifts permute it.                                      *)
(***************************************************************************)
EXTENDS TimerHeap, DataLemmas

-----------------------------------------------------------------------------
(* R is what the hole passes on its way from n to the place of e: e        *)
(* exceeds the elements at the positions above n in R and stops where it   *)
(* does not, and R is a path to one top.                                   *)
Top(R, j) == j = 1 \/ j \div 2 \notin R

RisePath(h, e, n, R) ==
  /\ R \subseteq 1 .. n /\ n \in R
  /\ \A j \in R : j # n => ~Le(e, h[j])
  /\ \A j \in R : j # 1 /\ ~Le(e, h[j \div 2]) => j \div 2 \in R
  /\ \A j \in R, k \in R : Top(R, j) /\ Top(R, k) => j = k
  /\ \A j \in R, k \in R :
       ~Top(R, j) /\ ~Top(R, k) /\ j \div 2 = k \div 2 => j = k

Risen(h, R, e) ==
  [j \in 1 .. Len(h) |-> IF j \notin R THEN h[j]
                        ELSE IF Top(R, j) THEN e ELSE h[j \div 2]]

(* f is the recursive function of SiftUp.                                  *)
Rises(h, e, i, f) ==
  \A j \in 1 .. i :
    f[j] = IF j = 1 \/ Le(e, h[j \div 2]) THEN {j}
           ELSE {j} \cup f[j \div 2]

(* The recursive function of SiftUp exists: its value at j depends on the  *)
(* one at j \div 2 only.                                                   *)
LEMMA SiftUpRise ==
  ASSUME NEW h, NEW i \in Nat, NEW e
  PROVE  \E f : Rises(h, e, i, f) /\ SiftUp(h, i, e) = Risen(h, f[i], e)
<1> DEFINE B(f, j) == IF j = 1 \/ Le(e, h[j \div 2]) THEN {j}
                      ELSE {j} \cup f[j \div 2]
           G == {n \in Nat : \E f : f = [j \in 1 .. n |-> B(f, j)]}
           rise[j \in 1 .. i] ==
             IF j = 1 \/ Le(e, h[j \div 2]) THEN {j} ELSE {j} \cup rise[j \div 2]
<1>1. 0 \in G
  <2>1. [j \in 1 .. 0 |-> {}] = [j \in 1 .. 0 |-> B([k \in 1 .. 0 |-> {}], j)]
    OBVIOUS
  <2> QED BY <2>1
<1>2. ASSUME NEW n \in Nat, n \in G
      PROVE  n + 1 \in G
  <2>1. PICK f : f = [j \in 1 .. n |-> B(f, j)]
    BY <1>2
  <2> DEFINE g == [j \in 1 .. n + 1 |-> B(f, j)]
  <2>2. \A j \in 1 .. n : g[j] = f[j]
    <3> HIDE DEF B
    <3>1. \A j \in 1 .. n : f[j] = B(f, j)
      BY <2>1
    <3> QED BY <3>1
  <2>3. ASSUME NEW j \in 1 .. n + 1
        PROVE  B(g, j) = B(f, j)
    <3>1. j # 1 => j \div 2 \in 1 .. n
      OBVIOUS
    <3> HIDE DEF g
    <3> QED BY <2>2, <3>1
  <2>4. g = [j \in 1 .. n + 1 |-> B(g, j)]
    <3> HIDE DEF B
    <3> QED BY <2>3
  <2> HIDE DEF g, B
  <2> QED BY <2>4
<1>3. i \in G
  <2> HIDE DEF G
  <2> QED BY <1>1, <1>2, NatSetInduction
<1>4. rise = [j \in 1 .. i |-> B(rise, j)]
  BY <1>3, Zenon
<1>5. SiftUp(h, i, e) =
        [j \in 1 .. Len(h) |->
           IF j \notin rise[i] THEN h[j]
           ELSE IF j = 1 \/ j \div 2 \notin rise[i] THEN e
                ELSE h[j \div 2]]
  BY Zenon DEF SiftUp
<1> HIDE DEF rise
<1>6. SiftUp(h, i, e) = Risen(h, rise[i], e)
  BY <1>5, Zenon DEF Risen, Top
<1>7. Rises(h, e, i, rise)
  <2>1. \A j \in 1 .. i : rise[j] = B(rise, j)
    <3> HIDE DEF B
    <3> QED BY <1>4
  <2> QED BY <2>1 DEF Rises
<1> QED BY <1>6, <1>7

LEMMA RiseIsPath ==
  ASSUME NEW h, NEW i \in Nat \ {0}, NEW e, NEW f, Rises(h, e, i, f)
  PROVE  RisePath(h, e, i, f[i])
<1> DEFINE G == {n \in Nat : n \in 1 .. i => RisePath(h, e, n, f[n])}
<1>1. ASSUME NEW n \in Nat, \A m \in Nat : m < n => m \in G
      PROVE  n \in G
  <2> SUFFICES ASSUME n \in 1 .. i
               PROVE  RisePath(h, e, n, f[n])
    OBVIOUS
  <2>1. f[n] = IF n = 1 \/ Le(e, h[n \div 2]) THEN {n} ELSE {n} \cup f[n \div 2]
    BY DEF Rises
  <2>2. n # 1 => n \div 2 \in 1 .. i /\ n \div 2 < n
    OBVIOUS
  <2>3. n \div 2 # n
    OBVIOUS
  <2>4. CASE n = 1 \/ Le(e, h[n \div 2])
    BY <2>1, <2>3, <2>4 DEF RisePath, Top
  <2>5. CASE n # 1 /\ ~Le(e, h[n \div 2])
    <3>1. PICK m \in 1 .. i : m = n \div 2 /\ m < n
      BY <2>2, <2>5
    <3>2. PICK R : R = f[m]
      OBVIOUS
    <3>3. RisePath(h, e, m, R)
      <4>1. m \in Nat /\ m \in G
        <5> HIDE DEF G
        <5> QED BY <1>1, <3>1
      <4> HIDE DEF RisePath
      <4> QED BY <3>1, <3>2, <4>1
    <3>4. f[n] = {n} \cup R
      BY <2>1, <2>5, <3>1, <3>2
    <3>5. R \subseteq 1 .. m /\ m \in R /\ n \notin R
      BY <3>1, <3>3 DEF RisePath
    <3>6. \A j \in R : Top(f[n], j) <=> Top(R, j)
      <4>1. \A j \in R : j # 1 => j \div 2 # n
        BY <3>1, <3>5
      <4> QED BY <3>4, <4>1 DEF Top
    <3>7. ~Top(f[n], n)
      BY <2>5, <3>1, <3>4, <3>5 DEF Top
    <3>8. \A k \in R : k # 1 => k \div 2 # m
      BY <3>1, <3>5
    <3>9. f[n] \subseteq 1 .. n /\ n \in f[n]
      BY <3>1, <3>4, <3>5
    <3>10. \A j \in f[n] : j # n => ~Le(e, h[j])
      BY <2>5, <3>1, <3>3, <3>4 DEF RisePath
    <3>11. \A j \in f[n] : j # 1 /\ ~Le(e, h[j \div 2]) => j \div 2 \in f[n]
      BY <3>1, <3>3, <3>4, <3>5 DEF RisePath
    <3>12. \A j \in f[n], k \in f[n] : Top(f[n], j) /\ Top(f[n], k) => j = k
      BY <3>3, <3>4, <3>6, <3>7 DEF RisePath
    <3>13. ASSUME NEW j \in f[n], NEW k \in f[n], ~Top(f[n], j), ~Top(f[n], k),
                  j \div 2 = k \div 2
           PROVE  j = k
      <4>1. CASE j \in R /\ k \in R
        BY <3>3, <3>6, <3>13, <4>1 DEF RisePath
      <4>2. CASE j = n /\ k \in R
        BY <3>1, <3>6, <3>8, <3>13, <4>2 DEF Top
      <4>3. CASE k = n /\ j \in R
        BY <3>1, <3>6, <3>8, <3>13, <4>3 DEF Top
      <4> QED BY <3>4, <3>13, <4>1, <4>2, <4>3
    <3> QED BY <3>9, <3>10, <3>11, <3>12, <3>13 DEF RisePath
  <2> QED BY <2>4, <2>5
<1>2. i \in G
  <2> HIDE DEF G
  <2> QED BY <1>1, NatSetStrongInduction
<1> QED BY <1>2

(* What sift_up does to the Vec.                                           *)
LEMMA SiftUpPath ==
  ASSUME NEW h, NEW i \in Nat \ {0}, NEW e
  PROVE  \E R : RisePath(h, e, i, R) /\ SiftUp(h, i, e) = Risen(h, R, e)
<1>1. PICK f : Rises(h, e, i, f) /\ SiftUp(h, i, e) = Risen(h, f[i], e)
  BY SiftUpRise
<1>2. RisePath(h, e, i, f[i])
  BY <1>1, RiseIsPath
<1> QED BY <1>1, <1>2

-----------------------------------------------------------------------------
(* In order at j: not due before its parent.                               *)
OrderedAt(h, j) == h[j \div 2].wake_time <= h[j].wake_time

(* sift_up from a leaf repairs a heap that is in order elsewhere: an event *)
(* that moved down is still not due before the ones above it, and e stops  *)
(* below one that is not due after it.                                     *)
LEMMA SiftUpOrders ==
  ASSUME NEW h \in Seq(Events), NEW e \in Events, NEW i \in 1 .. Len(h),
         2 * i > Len(h),
         \A j \in 2 .. Len(h) : j # i => OrderedAt(h, j)
  PROVE  /\ SiftUp(h, i, e) \in Seq(Events)
         /\ Len(SiftUp(h, i, e)) = Len(h)
         /\ \A j \in 2 .. Len(h) : OrderedAt(SiftUp(h, i, e), j)
<1>1. PICK R : RisePath(h, e, i, R) /\ SiftUp(h, i, e) = Risen(h, R, e)
  <2>1. i \in Nat \ {0}
    OBVIOUS
  <2> QED BY <2>1, SiftUpPath
<1> DEFINE g == Risen(h, R, e)
<1>2. R \subseteq 1 .. Len(h) /\ i \in R
  BY <1>1 DEF RisePath
<1>3. \A j \in 1 .. Len(h) :
        g[j] = IF j \notin R THEN h[j]
               ELSE IF Top(R, j) THEN e ELSE h[j \div 2]
  BY DEF Risen
<1>4. \A j \in 1 .. Len(h) : h[j] \in Events
  OBVIOUS
<1>5. \A j \in 2 .. Len(h) : j \div 2 \in 1 .. Len(h) /\ j \div 2 # i
  OBVIOUS
<1>6. g \in Seq(Events) /\ Len(g) = Len(h)
  <2>1. ASSUME NEW j \in 1 .. Len(h)
        PROVE  g[j] \in Events
    <3> HIDE DEF g
    <3>1. CASE j \notin R \/ Top(R, j)
      BY <1>3, <1>4, <3>1
    <3>2. CASE j \in R /\ ~Top(R, j)
      <4>1. j \in 2 .. Len(h)
        BY SMT, <3>2 DEF Top
      <4>2. g[j] = h[j \div 2]
        BY <1>3, <3>2
      <4> QED BY <1>4, <1>5, <4>1, <4>2
    <3> QED BY <3>1, <3>2
  <2>2. g = [j \in 1 .. Len(h) |-> g[j]]
    BY Zenon DEF Risen
  <2>3. Len(h) \in Nat
    OBVIOUS
  <2> HIDE DEF g
  <2> QED BY <2>1, <2>2, <2>3, IsASeq
<1>7. ASSUME NEW j \in 2 .. Len(h)
      PROVE  OrderedAt(g, j)
  <2> DEFINE p == j \div 2
             w(x) == x.wake_time
  <2>1. p \in 1 .. Len(h) /\ p # i /\ j \in 1 .. Len(h) /\ j # 1
    BY <1>5
  <2>2. p # 1 => p \in 2 .. Len(h) /\ p \div 2 \in 1 .. Len(h)
    BY <2>1
  <2>3. p # 1 => h[p \div 2].wake_time <= h[p].wake_time
    <3> HIDE DEF p
    <3> QED BY <2>1, <2>2 DEF OrderedAt
  <2>4. j # i => h[p].wake_time <= h[j].wake_time
    BY DEF OrderedAt
  <2>5. p \in R => e.wake_time < h[p].wake_time
    <3>1. e.wake_time \in Nat /\ h[p].wake_time \in Nat
      <4> HIDE DEF p
      <4> QED BY <1>4, <2>1 DEF Events
    <3> HIDE DEF p
    <3> QED BY <1>1, <2>1, <3>1 DEF RisePath, Le
  <2>6. /\ e.wake_time \in Nat /\ h[j].wake_time \in Nat
        /\ h[p].wake_time \in Nat
        /\ p # 1 => h[p \div 2].wake_time \in Nat
    <3> HIDE DEF p
    <3> QED BY <1>4, <2>1, <2>2 DEF Events
  <2>7. p \in R => g[p].wake_time <= h[p].wake_time
    <3> HIDE DEF p, g
    <3> QED BY <1>3, <2>1, <2>3, <2>5, <2>6 DEF Top
  <2>8. p \in R => g[p].wake_time \in Nat
    <3> HIDE DEF p, g
    <3> QED BY <1>3, <2>1, <2>6 DEF Top
  <2>9. CASE j \notin R
    <3>1. g[j] = h[j] /\ j # i
      BY <1>2, <1>3, <2>1, <2>9
    <3>2. p \notin R => g[p] = h[p]
      BY <1>3, <2>1
    <3> HIDE DEF p, g
    <3>3. g[p].wake_time <= g[j].wake_time
      BY <2>4, <2>6, <2>7, <2>8, <3>1, <3>2
    <3> QED BY <3>3 DEF OrderedAt, p
  <2>10. CASE j \in R /\ p \notin R
    <3>1. g[j] = e /\ g[p] = h[p]
      <4>1. Top(R, j)
        BY <2>10 DEF Top
      <4> HIDE DEF g
      <4> QED BY <1>3, <2>1, <2>10, <4>1
    <3>2. Le(e, h[p])
      BY <1>1, <2>1, <2>10 DEF RisePath
    <3> HIDE DEF p, g
    <3>3. g[p].wake_time <= g[j].wake_time
      BY <3>1, <3>2 DEF Le
    <3> QED BY <3>3 DEF OrderedAt, p
  <2>11. CASE j \in R /\ p \in R
    <3>1. g[j] = h[p]
      <4>1. ~Top(R, j)
        BY <2>1, <2>11 DEF Top
      <4> HIDE DEF g
      <4> QED BY <1>3, <2>1, <2>11, <4>1
    <3> HIDE DEF p, g
    <3>3. g[p].wake_time <= g[j].wake_time
      BY <2>7, <2>11, <3>1
    <3> QED BY <3>3 DEF OrderedAt, p
  <2> QED BY <2>9, <2>10, <2>11
<1> QED BY <1>1, <1>6, <1>7

-----------------------------------------------------------------------------
(* g is h with its elements in other places.                               *)
Permutes(h, g) ==
  \E perm \in Injection(1 .. Len(h), 1 .. Len(h)) :
    \A j \in 1 .. Len(h) : g[j] = h[perm[j]]

LEMMA SiftUpPermutes ==
  ASSUME NEW h \in Seq(Events), NEW i \in 1 .. Len(h)
  PROVE  Permutes(h, SiftUp(h, i, h[i]))
<1> DEFINE e == h[i]
<1>1. PICK R : RisePath(h, e, i, R) /\ SiftUp(h, i, e) = Risen(h, R, e)
  <2>1. i \in Nat \ {0}
    OBVIOUS
  <2> QED BY <2>1, SiftUpPath
<1> DEFINE f(j) == IF j \notin R THEN j ELSE IF Top(R, j) THEN i ELSE j \div 2
           perm == [j \in 1 .. Len(h) |-> f(j)]
<1>2. R \subseteq 1 .. i /\ i \in R /\ R \subseteq 1 .. Len(h)
  BY <1>1 DEF RisePath
<1>3. \A j \in 1 .. Len(h) : f(j) \in 1 .. Len(h)
  BY <1>2 DEF Top
<1>4. \A j \in R : f(j) \in R
  BY <1>2 DEF Top
<1>5. \A j \in R : ~Top(R, j) => f(j) # i
  <2>1. \A j \in R : j \div 2 # i
    BY <1>2
  <2> QED BY <2>1
<1>6. ASSUME NEW j \in 1 .. Len(h), NEW k \in 1 .. Len(h), f(j) = f(k)
      PROVE  j = k
  <2>1. CASE j \notin R \/ k \notin R
    <3>1. j \notin R => f(j) = j
      OBVIOUS
    <3>2. k \notin R => f(k) = k
      OBVIOUS
    <3> HIDE DEF f
    <3> QED BY <1>4, <1>6, <2>1, <3>1, <3>2
  <2>2. CASE j \in R /\ k \in R
    <3>1. Top(R, j) <=> Top(R, k)
      <4>1. /\ Top(R, j) => f(j) = i
            /\ Top(R, k) => f(k) = i
        BY <2>2
      <4> HIDE DEF f
      <4> QED BY <1>5, <1>6, <2>2, <4>1
    <3>2. ~Top(R, j) /\ ~Top(R, k) => j \div 2 = k \div 2
      BY <1>6, <2>2
    <3> QED BY <1>1, <2>2, <3>1, <3>2 DEF RisePath
  <2> QED BY <2>1, <2>2
<1>7. perm \in Injection(1 .. Len(h), 1 .. Len(h))
  <2> HIDE DEF f
  <2> QED BY <1>3, <1>6 DEF Injection, IsInjective
<1>8. \A j \in 1 .. Len(h) : Risen(h, R, e)[j] = h[perm[j]]
  BY DEF Risen
<1> HIDE DEF perm, e
<1> QED BY <1>1, <1>7, <1>8 DEF Permutes, e

-----------------------------------------------------------------------------
(* The positions that the root passes on its way down: f is the recursive  *)
(* function of SiftDownToBottom.                                           *)
Sinks(h, f) ==
  \A j \in 1 .. Len(h) :
    f[j] = IF 2 * j > Len(h) THEN {j} ELSE {j} \cup f[GreaterChild(h, j)]

Sunk(h, S) ==
  [j \in 1 .. Len(h) |->
     IF j \notin S THEN h[j]
     ELSE IF 2 * j > Len(h) THEN h[1] ELSE h[GreaterChild(h, j)]]

LEMMA GreaterChildType ==
  ASSUME NEW h \in Seq(Events), NEW j \in 1 .. Len(h), 2 * j <= Len(h)
  PROVE  /\ GreaterChild(h, j) \in 2 .. Len(h)
         /\ j < GreaterChild(h, j)
         /\ GreaterChild(h, j) \div 2 = j
<1>1. \/ GreaterChild(h, j) = 2 * j
      \/ GreaterChild(h, j) = 2 * j + 1 /\ 2 * j < Len(h)
  BY DEF GreaterChild
<1> QED BY <1>1

(* That function exists: its value at j depends on one at a greater        *)
(* position only.                                                          *)
LEMMA SiftDownSink ==
  ASSUME NEW h \in Seq(Events)
  PROVE  \E f :
           /\ Sinks(h, f)
           /\ SiftDownToBottom(h) =
                SiftUp(Sunk(h, f[1]), CHOOSE j \in f[1] : 2 * j > Len(h), h[1])
<1> DEFINE N == Len(h)
           B(f, j) == IF 2 * j > Len(h) THEN {j}
                      ELSE {j} \cup f[GreaterChild(h, j)]
           P(n, f) == f = [j \in 1 .. N |-> IF j > N - n THEN B(f, j) ELSE {}]
           G == {n \in Nat : \E f : P(n, f)}
           sink[j \in 1 .. Len(h)] ==
             IF 2 * j > Len(h) THEN {j} ELSE {j} \cup sink[GreaterChild(h, j)]
<1>0. N \in Nat
  OBVIOUS
<1>1. 0 \in G
  <2> DEFINE g == [j \in 1 .. N |-> {}]
  <2>1. \A j \in 1 .. N : ~(j > N - 0)
    BY <1>0
  <2>2. P(0, g)
    <3> HIDE DEF B, N
    <3> QED BY <2>1
  <2> HIDE DEF g, P
  <2> QED BY <2>2
<1>2. ASSUME NEW n \in Nat, n \in G
      PROVE  n + 1 \in G
  <2>1. PICK f : P(n, f)
    BY <1>2
  <2> DEFINE g == [j \in 1 .. N |-> IF j > N - (n + 1) THEN B(f, j) ELSE {}]
  <2>2. \A j \in 1 .. N : j > N - n => g[j] = f[j]
    <3>1. \A j \in 1 .. N : f[j] = IF j > N - n THEN B(f, j) ELSE {}
      <4> HIDE DEF B, N
      <4> QED BY <2>1
    <3> HIDE DEF B, N
    <3> QED BY <1>0, <3>1
  <2>3. ASSUME NEW j \in 1 .. N, j > N - (n + 1)
        PROVE  B(g, j) = B(f, j)
    <3>1. CASE 2 * j > Len(h)
      <4> HIDE DEF g
      <4> QED BY <3>1
    <3>2. CASE 2 * j <= Len(h)
      <4>1. GreaterChild(h, j) \in 1 .. N /\ GreaterChild(h, j) > N - n
        BY <1>0, <2>3, <3>2, GreaterChildType
      <4>2. g[GreaterChild(h, j)] = f[GreaterChild(h, j)]
        <5> HIDE DEF g
        <5> QED BY <2>2, <4>1
      <4> HIDE DEF g
      <4> QED BY <4>2
    <3> QED BY <3>1, <3>2
  <2>4. P(n + 1, g)
    <3> HIDE DEF B, N
    <3> QED BY <2>3
  <2> HIDE DEF g, P
  <2> QED BY <2>4
<1>3. N \in G
  <2> HIDE DEF G
  <2> QED BY <1>0, <1>1, <1>2, NatSetInduction
<1>4. \E f : f = [j \in 1 .. Len(h) |-> B(f, j)]
  <2>1. PICK f : P(N, f)
    BY <1>3
  <2>2. \A j \in 1 .. N : j > N - N
    BY <1>0
  <2>3. f = [j \in 1 .. N |-> B(f, j)]
    <3> HIDE DEF B, N
    <3> QED BY <2>1, <2>2
  <2> QED BY <2>3, Zenon
<1>5. sink = [j \in 1 .. Len(h) |-> B(sink, j)]
  BY <1>4, Zenon
<1>6. SiftDownToBottom(h) =
        SiftUp(Sunk(h, sink[1]), CHOOSE j \in sink[1] : 2 * j > Len(h), h[1])
  BY Zenon DEF SiftDownToBottom, Sunk
<1>7. Sinks(h, sink)
  <2>1. \A j \in 1 .. Len(h) : sink[j] = B(sink, j)
    <3> HIDE DEF B
    <3> QED BY <1>5
  <2> QED BY <2>1 DEF Sinks
<1> HIDE DEF sink
<1> QED BY <1>6, <1>7

(* S is a path along the greater children from m to one leaf.              *)
SinkPath(h, m, S) ==
  /\ S \subseteq m .. Len(h) /\ m \in S
  /\ \A j \in S : 2 * j <= Len(h) => GreaterChild(h, j) \in S
  /\ \A j \in S : j # m => j \div 2 \in S /\ j = GreaterChild(h, j \div 2)
  /\ \A j \in S, k \in S : 2 * j > Len(h) /\ 2 * k > Len(h) => j = k
  /\ \E j \in S : 2 * j > Len(h)

LEMMA SinkIsPath ==
  ASSUME NEW h \in Seq(Events), NEW f, Sinks(h, f)
  PROVE  \A m \in 1 .. Len(h) : SinkPath(h, m, f[m])
<1> DEFINE N == Len(h)
           G == {n \in Nat : n \in 0 .. N - 1 => SinkPath(h, N - n, f[N - n])}
<1>0. N \in Nat
  OBVIOUS
<1>1. ASSUME NEW n \in Nat, \A k \in Nat : k < n => k \in G
      PROVE  n \in G
  <2> SUFFICES ASSUME n \in 0 .. N - 1
               PROVE  SinkPath(h, N - n, f[N - n])
    OBVIOUS
  <2>1. PICK m \in 1 .. Len(h) : m = N - n
    BY <1>0
  <2>2. f[m] = IF 2 * m > Len(h) THEN {m} ELSE {m} \cup f[GreaterChild(h, m)]
    BY DEF Sinks
  <2>3. CASE 2 * m > Len(h)
    <3>1. f[m] = {m}
      BY <2>2, <2>3
    <3>2. SinkPath(h, m, f[m])
      BY <2>3, <3>1 DEF SinkPath
    <3> QED BY <2>1, <3>2
  <2>4. CASE ~(2 * m > Len(h))
    <3>1. PICK c \in 2 .. Len(h) : c = GreaterChild(h, m) /\ m < c /\ c \div 2 = m
      BY <2>4, GreaterChildType
    <3>2. PICK S : S = f[c]
      OBVIOUS
    <3>3. SinkPath(h, c, S)
      <4>1. N - c \in Nat /\ N - c < n /\ N - c \in 0 .. N - 1 /\ N - (N - c) = c
        BY <1>0, <2>1, <3>1
      <4>2. N - c \in G
        <5> HIDE DEF G
        <5> QED BY <1>1, <4>1
      <4> HIDE DEF SinkPath, N
      <4> QED BY <3>2, <4>1, <4>2
    <3>4. f[m] = {m} \cup S
      BY <2>2, <2>4, <3>1, <3>2
    <3>5. S \subseteq c .. Len(h) /\ c \in S /\ m \notin S
      BY <3>1, <3>3 DEF SinkPath
    <3>6. f[m] \subseteq m .. Len(h) /\ m \in f[m]
      BY <3>1, <3>4, <3>5
    <3>7. \A j \in f[m] : 2 * j <= Len(h) => GreaterChild(h, j) \in f[m]
      BY <3>1, <3>3, <3>4, <3>5 DEF SinkPath
    <3>8. \A j \in f[m] : j # m => j \div 2 \in f[m] /\ j = GreaterChild(h, j \div 2)
      BY <3>1, <3>3, <3>4, <3>5 DEF SinkPath
    <3>9. \A j \in f[m], k \in f[m] : 2 * j > Len(h) /\ 2 * k > Len(h) => j = k
      BY <2>4, <3>3, <3>4 DEF SinkPath
    <3>10. \E j \in f[m] : 2 * j > Len(h)
      BY <3>3, <3>4 DEF SinkPath
    <3>11. SinkPath(h, m, f[m])
      BY <3>6, <3>7, <3>8, <3>9, <3>10 DEF SinkPath
    <3> QED BY <2>1, <3>11
  <2> QED BY <2>3, <2>4
<1>2. \A n \in Nat : n \in G
  <2> HIDE DEF G
  <2> QED BY <1>1, NatSetStrongInduction
<1>3. ASSUME NEW m \in 1 .. Len(h)
      PROVE  SinkPath(h, m, f[m])
  <2>1. N - m \in Nat /\ N - m \in 0 .. N - 1 /\ N - (N - m) = m
    BY <1>0
  <2>2. N - m \in G
    BY <1>2, <2>1
  <2> HIDE DEF SinkPath, N
  <2> QED BY <2>1, <2>2
<1> QED BY <1>3

(* What sift_down_to_bottom does to the Vec before it rises again: the     *)
(* root is at the leaf, and the rest is in order if the old rest was.      *)
LEMMA SunkIsOrdered ==
  ASSUME NEW h \in Seq(Events), h # <<>>, NEW S, SinkPath(h, 1, S),
         \A j \in 2 .. Len(h) : j \div 2 # 1 => OrderedAt(h, j)
  PROVE  /\ Sunk(h, S) \in Seq(Events)
         /\ Len(Sunk(h, S)) = Len(h)
         /\ \A j \in 2 .. Len(h) :
              ~(j \in S /\ 2 * j > Len(h)) => OrderedAt(Sunk(h, S), j)
<1> DEFINE g == Sunk(h, S)
<1>1. \A j \in 1 .. Len(h) :
        g[j] = IF j \notin S THEN h[j]
               ELSE IF 2 * j > Len(h) THEN h[1] ELSE h[GreaterChild(h, j)]
  BY DEF Sunk
<1>2. \A j \in 1 .. Len(h) : h[j] \in Events
  OBVIOUS
<1>3. \A j \in 1 .. Len(h) :
        2 * j <= Len(h) => /\ GreaterChild(h, j) \in 2 .. Len(h)
                           /\ GreaterChild(h, j) \div 2 = j
  BY GreaterChildType
<1>4. g \in Seq(Events) /\ Len(g) = Len(h)
  <2>1. 1 \in 1 .. Len(h)
    OBVIOUS
  <2>2. \A j \in 1 .. Len(h) : g[j] \in Events
    <3> HIDE DEF g
    <3> QED BY <1>1, <1>2, <1>3, <2>1
  <2>3. g = [j \in 1 .. Len(h) |-> g[j]]
    BY Zenon DEF Sunk
  <2>4. Len(h) \in Nat
    OBVIOUS
  <2> HIDE DEF g
  <2> QED BY <2>2, <2>3, <2>4, IsASeq
<1>5. ASSUME NEW j \in 2 .. Len(h), ~(j \in S /\ 2 * j > Len(h))
      PROVE  OrderedAt(g, j)
  <2>1. PICK p \in 1 .. Len(h) : p = j \div 2 /\ 2 * p <= Len(h)
                                 /\ (j = 2 * p \/ j = 2 * p + 1)
    OBVIOUS
  <2>2. g[p] = IF p \notin S THEN h[p] ELSE h[GreaterChild(h, p)]
    <3> HIDE DEF g
    <3> QED BY <1>1, <2>1
  <2>3. g[j] = IF j \notin S THEN h[j] ELSE h[GreaterChild(h, j)]
    <3> HIDE DEF g
    <3> QED BY <1>1, <1>5
  <2>4. j \in S => p \in S /\ j = GreaterChild(h, p)
    BY <2>1 DEF SinkPath
  <2>5. p # 1 => h[p].wake_time <= h[j].wake_time
    BY <2>1 DEF OrderedAt
  <2>6. CASE p \notin S
    <3>1. p # 1
      BY <2>6 DEF SinkPath
    <3>2. g[p].wake_time <= g[j].wake_time
      <4> HIDE DEF g
      <4> QED BY <2>2, <2>3, <2>4, <2>5, <2>6, <3>1
    <3> QED BY <2>1, <3>2 DEF OrderedAt
  <2>7. CASE p \in S /\ j \notin S
    <3>1. h[GreaterChild(h, p)].wake_time <= h[j].wake_time
      <4>1. /\ h[2 * p].wake_time \in Nat
            /\ 2 * p + 1 <= Len(h) => h[2 * p + 1].wake_time \in Nat
        BY <1>2, <2>1 DEF Events
      <4> QED BY <2>1, <4>1 DEF GreaterChild, Le
    <3>2. g[p].wake_time <= g[j].wake_time
      <4> HIDE DEF g
      <4> QED BY <2>2, <2>3, <2>7, <3>1
    <3> QED BY <2>1, <3>2 DEF OrderedAt
  <2>8. CASE j \in S
    <3>1. PICK d \in 2 .. Len(h) : d = GreaterChild(h, j) /\ d \div 2 = j
      BY <1>3, <1>5, <2>8
    <3>2. h[j].wake_time <= h[d].wake_time
      BY <3>1 DEF OrderedAt
    <3>3. g[p].wake_time <= g[j].wake_time
      <4> HIDE DEF g
      <4> QED BY <2>2, <2>3, <2>4, <2>8, <3>1, <3>2
    <3> QED BY <2>1, <3>3 DEF OrderedAt
  <2> QED BY <2>6, <2>7, <2>8
<1> QED BY <1>4, <1>5

LEMMA SunkPermutes ==
  ASSUME NEW h \in Seq(Events), h # <<>>, NEW S, SinkPath(h, 1, S)
  PROVE  Permutes(h, Sunk(h, S))
<1> DEFINE f(j) == IF j \notin S THEN j
                   ELSE IF 2 * j > Len(h) THEN 1 ELSE GreaterChild(h, j)
           perm == [j \in 1 .. Len(h) |-> f(j)]
<1>1. \A j \in 1 .. Len(h) :
        2 * j <= Len(h) => /\ GreaterChild(h, j) \in 2 .. Len(h)
                           /\ GreaterChild(h, j) \div 2 = j
  BY GreaterChildType
<1>2. S \subseteq 1 .. Len(h) /\ 1 \in S
  BY DEF SinkPath
<1>3. \A j \in 1 .. Len(h) : f(j) \in 1 .. Len(h)
  BY <1>1, <1>2
<1>4. \A j \in S : f(j) \in S
  <2>1. \A j \in S : 2 * j <= Len(h) => GreaterChild(h, j) \in S
    BY DEF SinkPath
  <2>2. \A j \in S : 2 * j > Len(h) \/ 2 * j <= Len(h)
    BY <1>2
  <2> QED BY <1>2, <2>1, <2>2
<1>5. ASSUME NEW j \in 1 .. Len(h), NEW k \in 1 .. Len(h), f(j) = f(k)
      PROVE  j = k
  <2>1. CASE j \notin S \/ k \notin S
    <3>1. j \notin S => f(j) = j
      OBVIOUS
    <3>2. k \notin S => f(k) = k
      OBVIOUS
    <3> HIDE DEF f
    <3> QED BY <1>4, <1>5, <2>1, <3>1, <3>2
  <2>2. CASE j \in S /\ k \in S
    <3>1. 2 * j > Len(h) <=> 2 * k > Len(h)
      BY <1>1, <1>5, <2>2
    <3>2. CASE 2 * j > Len(h)
      BY <2>2, <3>1, <3>2 DEF SinkPath
    <3>3. CASE 2 * j <= Len(h)
      BY <1>1, <1>5, <2>2, <3>1, <3>3
    <3> QED BY <3>2, <3>3
  <2> QED BY <2>1, <2>2
<1>6. perm \in Injection(1 .. Len(h), 1 .. Len(h))
  <2> HIDE DEF f
  <2> QED BY <1>3, <1>5 DEF Injection, IsInjective
<1>7. \A j \in 1 .. Len(h) : Sunk(h, S)[j] = h[perm[j]]
  BY DEF Sunk
<1> HIDE DEF perm
<1> QED BY <1>6, <1>7 DEF Permutes

-----------------------------------------------------------------------------
(* How often an event is in the heap.                                      *)
HeapCount(h, x) == Cardinality({j \in 1 .. Len(h) : h[j] = x})

LEMMA HeapCountType ==
  ASSUME NEW h \in Seq(Events), NEW x
  PROVE  /\ IsFiniteSet({j \in 1 .. Len(h) : h[j] = x})
         /\ HeapCount(h, x) \in Nat
         /\ HeapCount(h, x) > 0 <=> \E j \in 1 .. Len(h) : h[j] = x
<1> DEFINE I == {j \in 1 .. Len(h) : h[j] = x}
<1>1. IsFiniteSet(1 .. Len(h))
  BY FS_Interval
<1>2. IsFiniteSet(I)
  BY <1>1, FS_Subset
<1>3. Cardinality(I) \in Nat
  BY <1>2, FS_CardinalityType
<1>4. Cardinality(I) = 0 <=> I = {}
  BY <1>2, FS_EmptySet
<1>5. I = {} <=> ~\E j \in 1 .. Len(h) : h[j] = x
  OBVIOUS
<1>6. HeapCount(h, x) = Cardinality(I)
  BY DEF HeapCount
<1> HIDE DEF I
<1>7. HeapCount(h, x) \in Nat /\ (HeapCount(h, x) > 0 <=> I # {})
  BY <1>3, <1>4, <1>6
<1> QED BY <1>2, <1>5, <1>7 DEF I

(* A permutation of the heap loses and duplicates nothing.                 *)
LEMMA PermutesCount ==
  ASSUME NEW h \in Seq(Events), NEW g \in Seq(Events), Len(g) = Len(h),
         Permutes(h, g), NEW x
  PROVE  HeapCount(g, x) = HeapCount(h, x)
<1> DEFINE D == 1 .. Len(h)
           I == {j \in D : g[j] = x}
           J == {j \in D : h[j] = x}
<1>1. PICK perm \in Injection(D, D) : \A j \in D : g[j] = h[perm[j]]
  BY DEF Permutes
<1>2. IsFiniteSet(D)
  BY FS_Interval
<1>3. perm \in Surjection(D, D)
  <2> HIDE DEF D
  <2> QED BY <1>1, <1>2, FS_Injection
<1> DEFINE q == [j \in I |-> perm[j]]
<1>4. \A j \in D : perm[j] \in D
  BY <1>1 DEF Injection
<1>5. \A j \in D, k \in D : perm[j] = perm[k] => j = k
  BY <1>1 DEF Injection, IsInjective
<1>6. \A k \in D : \E j \in D : perm[j] = k
  BY <1>3 DEF Surjection
<1>7. q \in Bijection(I, J)
  <2>1. q \in Injection(I, J)
    BY <1>1, <1>4, <1>5 DEF Injection, IsInjective
  <2>2. \A k \in J : \E j \in I : q[j] = k
    BY <1>1, <1>6
  <2> QED BY <2>1, <2>2 DEF Bijection, Surjection, Injection
<1>8. IsFiniteSet(I)
  BY <1>2, FS_Subset
<1>9. Cardinality(J) = Cardinality(I)
  <2> HIDE DEF I, J, q
  <2> QED BY <1>7, <1>8, FS_Bijection DEF ExistsBijection
<1> QED BY <1>9 DEF HeapCount

-----------------------------------------------------------------------------
(* push and pop.                                                           *)

(* No event is due before the one above it.                                *)
Ordered(h) == \A j \in 2 .. Len(h) : OrderedAt(h, j)

LEMMA SiftDownCorrect ==
  ASSUME NEW h \in Seq(Events), h # <<>>,
         \A j \in 2 .. Len(h) : j \div 2 # 1 => OrderedAt(h, j)
  PROVE  /\ SiftDownToBottom(h) \in Seq(Events)
         /\ Len(SiftDownToBottom(h)) = Len(h)
         /\ Ordered(SiftDownToBottom(h))
         /\ \A x : HeapCount(SiftDownToBottom(h), x) = HeapCount(h, x)
<1>1. PICK f :
        /\ Sinks(h, f)
        /\ SiftDownToBottom(h) =
             SiftUp(Sunk(h, f[1]), CHOOSE j \in f[1] : 2 * j > Len(h), h[1])
  BY SiftDownSink
<1>2. 1 \in 1 .. Len(h) /\ h[1] \in Events
  OBVIOUS
<1>3. PICK S : S = f[1]
  OBVIOUS
<1>4. SinkPath(h, 1, S)
  BY <1>1, <1>2, <1>3, SinkIsPath
<1>5. PICK g : g = Sunk(h, S)
  OBVIOUS
<1>6. PICK i \in S : 2 * i > Len(h) /\ i = CHOOSE j \in f[1] : 2 * j > Len(h)
  <2>1. \E j \in f[1] : 2 * j > Len(h)
    BY <1>3, <1>4 DEF SinkPath
  <2> QED BY <1>3, <2>1
<1>7. /\ g \in Seq(Events)
      /\ Len(g) = Len(h)
      /\ \A j \in 2 .. Len(h) : ~(j \in S /\ 2 * j > Len(h)) => OrderedAt(g, j)
  BY <1>4, <1>5, SunkIsOrdered
<1>8. i \in 1 .. Len(h) /\ g[i] = h[1]
  BY <1>4, <1>5, <1>6 DEF SinkPath, Sunk
<1>9. \A j \in 2 .. Len(g) : j # i => OrderedAt(g, j)
  <2>1. \A j \in S : 2 * j > Len(h) => j = i
    BY <1>4, <1>6 DEF SinkPath
  <2> QED BY <1>7, <2>1
<1>10. PICK r : r = SiftUp(g, i, g[i])
  OBVIOUS
<1>11. r = SiftDownToBottom(h)
  BY <1>1, <1>3, <1>5, <1>6, <1>8, <1>10, Zenon
<1>12. r \in Seq(Events) /\ Len(r) = Len(g) /\ Ordered(r)
  BY <1>2, <1>6, <1>7, <1>8, <1>9, <1>10, SiftUpOrders DEF Ordered
<1>13. Permutes(h, g) /\ Permutes(g, r)
  BY <1>4, <1>5, <1>7, <1>8, <1>10, SunkPermutes, SiftUpPermutes
<1>14. \A x : HeapCount(r, x) = HeapCount(h, x)
  <2>1. ASSUME NEW x
        PROVE  HeapCount(g, x) = HeapCount(h, x) /\ HeapCount(r, x) = HeapCount(g, x)
    BY <1>7, <1>12, <1>13, PermutesCount
  <2> QED BY <2>1
<1> QED BY <1>7, <1>11, <1>12, <1>14

LEMMA AppendCount ==
  ASSUME NEW h \in Seq(Events), NEW e \in Events, NEW x
  PROVE  HeapCount(Append(h, e), x) = HeapCount(h, x) + (IF x = e THEN 1 ELSE 0)
<1> DEFINE I == {j \in 1 .. Len(h) : h[j] = x}
           J == {j \in 1 .. Len(h) + 1 : Append(h, e)[j] = x}
<1>1. IsFiniteSet(I) /\ Cardinality(I) \in Nat
  BY HeapCountType DEF HeapCount
<1>2. Len(h) + 1 \notin I
  OBVIOUS
<1>3. Cardinality(I \cup {Len(h) + 1}) = Cardinality(I) + 1
  <2> HIDE DEF I
  <2> QED BY <1>1, <1>2, FS_AddElement
<1>4. J = IF x = e THEN I \cup {Len(h) + 1} ELSE I
  OBVIOUS
<1>5. Cardinality(J) = Cardinality(I) + (IF x = e THEN 1 ELSE 0)
  <2> HIDE DEF I, J
  <2> QED BY <1>1, <1>3, <1>4
<1>6. Len(Append(h, e)) = Len(h) + 1
  OBVIOUS
<1> QED BY <1>5, <1>6 DEF HeapCount

LEMMA PushCorrect ==
  ASSUME NEW h \in Seq(Events), NEW e \in Events, Ordered(h)
  PROVE  /\ HeapPush(h, e) \in Seq(Events)
         /\ Ordered(HeapPush(h, e))
         /\ \A x : HeapCount(HeapPush(h, e), x) =
                     HeapCount(h, x) + (IF x = e THEN 1 ELSE 0)
<1>1. PICK g : g = Append(h, e)
  OBVIOUS
<1>2. PICK i \in 1 .. Len(g) : i = Len(h) + 1
  BY <1>1
<1>3. g \in Seq(Events) /\ Len(g) = i /\ g[i] = e
  BY <1>1, <1>2
<1>4. \A j \in 2 .. Len(g) : j # i => OrderedAt(g, j)
  <2>1. ASSUME NEW j \in 2 .. Len(g), j # i
        PROVE  OrderedAt(g, j)
    <3>1. j \in 2 .. Len(h) /\ j \div 2 \in 1 .. Len(h)
      BY <1>2, <1>3, <2>1
    <3>2. g[j] = h[j] /\ g[j \div 2] = h[j \div 2]
      BY <1>1, <3>1
    <3>3. OrderedAt(h, j)
      BY <3>1 DEF Ordered
    <3> QED BY <3>2, <3>3 DEF OrderedAt
  <2> QED BY <2>1
<1>5. PICK r : r = SiftUp(g, i, g[i])
  OBVIOUS
<1>6. r \in Seq(Events) /\ Len(r) = Len(g) /\ Ordered(r)
  BY <1>3, <1>4, <1>5, SiftUpOrders DEF Ordered
<1>7. Permutes(g, r)
  BY <1>3, <1>5, SiftUpPermutes
<1>8. HeapPush(h, e) = r
  BY <1>1, <1>2, <1>3, <1>5, Zenon DEF HeapPush
<1>9. \A x : HeapCount(r, x) = HeapCount(h, x) + (IF x = e THEN 1 ELSE 0)
  <2>1. ASSUME NEW x
        PROVE  HeapCount(r, x) = HeapCount(h, x) + (IF x = e THEN 1 ELSE 0)
    <3>1. HeapCount(r, x) = HeapCount(g, x)
      BY <1>3, <1>6, <1>7, PermutesCount
    <3> QED BY <1>1, <3>1, AppendCount
  <2> QED BY <2>1
<1> QED BY <1>6, <1>8, <1>9

LEMMA AddOneCount ==
  ASSUME NEW S, IsFiniteSet(S), NEW y, y \notin S, NEW b \in BOOLEAN,
         NEW T, T = S \cup (IF b THEN {y} ELSE {})
  PROVE  /\ IsFiniteSet(T)
         /\ Cardinality(T) \in Nat
         /\ Cardinality(T) = Cardinality(S) + (IF b THEN 1 ELSE 0)
<1>1. Cardinality(S) \in Nat
  BY FS_CardinalityType
<1>2. CASE b
  <2>1. T = S \cup {y}
    BY <1>2
  <2>2. IsFiniteSet(T) /\ Cardinality(T) = Cardinality(S) + 1
    BY <2>1, FS_AddElement
  <2> QED BY <1>1, <1>2, <2>2
<1>3. CASE ~b
  <2>1. T = S
    BY <1>3
  <2> QED BY <1>1, <1>3, <2>1
<1> QED BY <1>2, <1>3

LEMMA PopCorrect ==
  ASSUME NEW h \in Seq(Events), h # <<>>, Ordered(h)
  PROVE  /\ HeapPop(h) \in Seq(Events)
         /\ Ordered(HeapPop(h))
         /\ \A x : HeapCount(HeapPop(h), x) =
                     HeapCount(h, x) - (IF x = h[1] THEN 1 ELSE 0)
<1> DEFINE N == Len(h)
           rest == SubSeq(h, 1, N - 1)
<1>1. N \in Nat /\ N >= 1
  OBVIOUS
<1>2. /\ rest \in Seq(Events) /\ Len(rest) = N - 1
      /\ \A j \in 1 .. N - 1 : rest[j] = h[j]
  <2>1. \A j \in 1 .. N - 1 : h[j] \in Events
    BY <1>1
  <2>2. N - 1 \in Int /\ 1 \in Int /\ N - 1 = (N - 1) - 1 + 1
    BY <1>1
  <2>3. /\ rest \in Seq(Events)
        /\ Len(rest) = IF 1 <= N - 1 THEN (N - 1) - 1 + 1 ELSE 0
        /\ \A j \in 1 .. (N - 1) - 1 + 1 : rest[j] = h[1 + j - 1]
    <3> DEFINE m == 1
               n == N - 1
    <3>1. m \in Int /\ n \in Int /\ \A j \in m .. n : h[j] \in Events
      BY <2>1, <2>2
    <3>2. /\ SubSeq(h, m, n) \in Seq(Events)
          /\ Len(SubSeq(h, m, n)) = IF m <= n THEN n - m + 1 ELSE 0
          /\ \A j \in 1 .. n - m + 1 : SubSeq(h, m, n)[j] = h[m + j - 1]
      <4> HIDE DEF m, n, N
      <4> QED BY <3>1, SubSeqProperties
    <3> HIDE DEF N
    <3> QED BY <3>2
  <2> HIDE DEF rest, N
  <2> QED BY <1>1, <2>2, <2>3
<1>3. \A j \in 1 .. N : h[j] \in Events
  OBVIOUS
<1>4. CASE N = 1
  <2>1. rest = <<>>
    BY <1>2, <1>4
  <2>2. HeapPop(h) = <<>>
    BY <2>1 DEF HeapPop
  <2>3. ASSUME NEW x
        PROVE  HeapCount(<<>>, x) = HeapCount(h, x) - (IF x = h[1] THEN 1 ELSE 0)
    <3>1. {j \in 1 .. Len(<<>>) : <<>>[j] = x} = {}
      OBVIOUS
    <3>2. {j \in 1 .. Len(h) : h[j] = x} = IF x = h[1] THEN {1} ELSE {}
      BY <1>4
    <3>3. Cardinality({}) = 0 /\ Cardinality({1}) = 1
      BY FS_EmptySet, FS_Singleton
    <3>4. /\ HeapCount(<<>>, x) = Cardinality({})
          /\ HeapCount(h, x) = Cardinality(IF x = h[1] THEN {1} ELSE {})
      BY <3>1, <3>2, Zenon DEF HeapCount
    <3> QED BY <3>3, <3>4
  <2> QED BY <2>2, <2>3 DEF Ordered
<1>5. CASE N > 1
  <2>1. PICK g : g = [rest EXCEPT ![1] = h[N]]
    OBVIOUS
  <2>2. /\ g \in Seq(Events) /\ Len(g) = N - 1 /\ g # <<>> /\ g[1] = h[N]
        /\ \A j \in 2 .. N - 1 : g[j] = h[j]
    <3>1. h[N] \in Events /\ 1 \in 1 .. Len(rest)
      BY <1>1, <1>2, <1>3, <1>5
    <3> HIDE DEF rest, N
    <3> QED BY <1>1, <1>2, <1>5, <2>1, <3>1
  <2>3. HeapPop(h) = SiftDownToBottom(g)
    <3>1. rest # <<>>
      <4> HIDE DEF rest, N
      <4> QED BY <1>1, <1>2, <1>5
    <3> QED BY <2>1, <3>1, Zenon DEF HeapPop
  <2>4. ASSUME NEW j \in 2 .. Len(g), j \div 2 # 1
        PROVE  OrderedAt(g, j)
    <3>1. j \in 2 .. N - 1 /\ j \div 2 \in 2 .. N - 1 /\ j \in 2 .. Len(h)
      BY <1>1, <2>2, <2>4
    <3>2. OrderedAt(h, j)
      BY <3>1 DEF Ordered
    <3> HIDE DEF N
    <3> QED BY <2>2, <3>1, <3>2 DEF OrderedAt
  <2>5. ASSUME NEW x
        PROVE  HeapCount(g, x) = HeapCount(h, x) - (IF x = h[1] THEN 1 ELSE 0)
    <3> DEFINE M == {j \in 2 .. N - 1 : h[j] = x}
               I == {j \in 1 .. N - 1 : g[j] = x}
               J == {j \in 1 .. N : h[j] = x}
               L == M \cup (IF x = h[N] THEN {N} ELSE {})
    <3>1. IsFiniteSet(M) /\ Cardinality(M) \in Nat
      <4>1. IsFiniteSet(2 .. N - 1)
        BY <1>1, FS_Interval
      <4>2. IsFiniteSet(M)
        BY <4>1, FS_Subset
      <4> QED BY <4>2, FS_CardinalityType
    <3>2. I = M \cup (IF x = h[N] THEN {1} ELSE {})
      <4> HIDE DEF N
      <4> QED BY <1>1, <1>5, <2>2
    <3>3. J = L \cup (IF x = h[1] THEN {1} ELSE {})
      BY <1>1, <1>5
    <3>4. 1 \notin M /\ N \notin M /\ 1 \notin L
      BY <1>1, <1>5
    <3> HIDE DEF M, I, J
    <3>5. Cardinality(I) = Cardinality(M) + (IF x = h[N] THEN 1 ELSE 0)
      BY <3>1, <3>2, <3>4, AddOneCount
    <3>6. /\ IsFiniteSet(L) /\ Cardinality(L) \in Nat
          /\ Cardinality(L) = Cardinality(M) + (IF x = h[N] THEN 1 ELSE 0)
      BY <3>1, <3>4, AddOneCount
    <3>7. Cardinality(J) = Cardinality(L) + (IF x = h[1] THEN 1 ELSE 0)
      <4> HIDE DEF L
      <4> QED BY <3>3, <3>4, <3>6, AddOneCount
    <3>8. HeapCount(g, x) = Cardinality(I) /\ HeapCount(h, x) = Cardinality(J)
      BY <2>2 DEF HeapCount, I, J
    <3> HIDE DEF L
    <3> QED BY <3>5, <3>6, <3>7, <3>8
  <2>6. PICK r : r = SiftDownToBottom(g)
    OBVIOUS
  <2>7. /\ r \in Seq(Events) /\ Ordered(r)
        /\ \A x : HeapCount(r, x) = HeapCount(g, x)
    BY <2>2, <2>4, <2>6, SiftDownCorrect
  <2> QED BY <2>3, <2>5, <2>6, <2>7
<1>6. N = 1 \/ N > 1
  BY <1>1
<1> QED BY <1>4, <1>5, <1>6, Zenon

-----------------------------------------------------------------------------
(* The root is an earliest event: the order along the path to the root.    *)
LEMMA RootIsEarliest ==
  ASSUME NEW h \in Seq(Events), Ordered(h)
  PROVE  \A j \in 1 .. Len(h) : h[1].wake_time <= h[j].wake_time
<1> DEFINE G == {n \in Nat : n \in 1 .. Len(h) => h[1].wake_time <= h[n].wake_time}
<1>1. ASSUME NEW n \in Nat, \A k \in Nat : k < n => k \in G
      PROVE  n \in G
  <2> SUFFICES ASSUME n \in 1 .. Len(h)
               PROVE  h[1].wake_time <= h[n].wake_time
    OBVIOUS
  <2>1. \A j \in 1 .. Len(h) : h[j].wake_time \in Nat
    <3>1. \A j \in 1 .. Len(h) : h[j] \in Events
      OBVIOUS
    <3> QED BY <3>1 DEF Events
  <2>2. CASE n = 1
    BY <2>1, <2>2
  <2>3. CASE n # 1
    <3>1. PICK p \in 1 .. Len(h) : p = n \div 2 /\ p < n
      BY <2>3
    <3>2. p \in G
      <4> HIDE DEF G
      <4> QED BY <1>1, <3>1
    <3>3. h[p].wake_time <= h[n].wake_time
      BY <2>3, <3>1 DEF Ordered, OrderedAt
    <3> QED BY <2>1, <3>1, <3>2, <3>3
  <2> QED BY <2>2, <2>3
<1>2. Nat \subseteq G
  <2> HIDE DEF G
  <2> QED BY <1>1, NatSetStrongInduction
<1> QED BY <1>2

-----------------------------------------------------------------------------
(* The inductive invariant.                                                *)
HeapInv ==
  /\ now \in 0 .. MaxTime
  /\ heap \in Seq(Events)
  /\ Ordered(heap)

LEMMA HeapInvInit == HeapInit => HeapInv
BY HeapAssumption DEF HeapInit, HeapInv, Ordered

LEMMA HeapInvNext == HeapInv /\ [HeapNext]_heapVars => HeapInv'
<1> SUFFICES ASSUME HeapInv, [HeapNext]_heapVars
             PROVE  HeapInv'
  OBVIOUS
<1>1. ASSUME NEW e \in Events, Push(e)
      PROVE  HeapInv'
  BY <1>1, PushCorrect DEF HeapInv, Push
<1>2. ASSUME Pop
      PROVE  HeapInv'
  <2>1. heap[1].wake_time \in 0 .. MaxTime
    <3>1. heap[1] \in Events
      BY <1>2 DEF HeapInv, Pop
    <3> QED BY <3>1 DEF Events
  <2> QED BY <1>2, <2>1, PopCorrect DEF HeapInv, Pop
<1>3. CASE UNCHANGED heapVars
  BY <1>3 DEF HeapInv, heapVars
<1> QED BY <1>1, <1>2, <1>3 DEF HeapNext

LEMMA HeapInvCorrect == HeapSpec => []HeapInv
<1> QED BY HeapInvInit, HeapInvNext, PTL DEF HeapSpec

(* The Vec under Timer.time_events stays a heap through every push and     *)
(* pop, whatever the number of events and their times.                     *)
THEOREM OrderKept == HeapSpec => []HeapOrdered
<1>1. HeapInv => HeapOrdered
  BY DEF HeapInv, Ordered, OrderedAt, HeapOrdered
<1> QED BY <1>1, HeapInvCorrect, PTL

-----------------------------------------------------------------------------
(* The refinement of the bag of module Timer.                              *)
BagOf(h) ==
  [x \in Tasks \X (0 .. MaxTime) |->
     HeapCount(h, [wake_time |-> x[2], task |-> x[1]])]

LEMMA BagOfHeap ==
  ASSUME heap \in Seq(Events)
  PROVE  [x \in Tasks \X (0 .. MaxTime) |-> EventCount(x[1], x[2])] = BagOf(heap)
<1>1. DOMAIN heap = 1 .. Len(heap)
  OBVIOUS
<1>2. \A t, w : EventCount(t, w) = HeapCount(heap, [wake_time |-> w, task |-> t])
  BY <1>1 DEF EventCount, HeapCount
<1> QED BY <1>2 DEF BagOf

LEMMA BagOfNextHeap ==
  ASSUME heap' \in Seq(Events)
  PROVE  [x \in Tasks \X (0 .. MaxTime) |-> EventCount(x[1], x[2])]' = BagOf(heap')
<1>1. DOMAIN (heap') = 1 .. Len(heap')
  OBVIOUS
<1>2. ASSUME NEW x \in Tasks \X (0 .. MaxTime)
      PROVE  EventCount(x[1], x[2])' =
               HeapCount(heap', [wake_time |-> x[2], task |-> x[1]])
  BY <1>1 DEF EventCount, HeapCount
<1> QED BY <1>2 DEF BagOf

LEMMA BagInit == HeapInit => Bag!TimerInit
<1> SUFFICES ASSUME HeapInit
             PROVE  Bag!TimerInit
  OBVIOUS
<1>1. heap = <<>> /\ heap \in Seq(Events) /\ now = 0
  BY DEF HeapInit
<1>2. \A x : HeapCount(<<>>, x) = 0
  <2>1. \A x : {j \in 1 .. Len(<<>>) : <<>>[j] = x} = {}
    OBVIOUS
  <2> QED BY <2>1, FS_EmptySet DEF HeapCount
<1>3. BagOf(heap) = [x \in Tasks \X (0 .. MaxTime) |-> 0]
  BY <1>1, <1>2 DEF BagOf
<1> QED BY <1>1, <1>3, BagOfHeap DEF Bag!TimerInit, Bag!Times

LEMMA BagPush ==
  ASSUME HeapInv, HeapInv', NEW e \in Events, Push(e)
  PROVE  Bag!PushEvent(e.task, e.wake_time)
<1> DEFINE x0 == <<e.task, e.wake_time>>
           B == BagOf(heap)
<1>1. /\ heap \in Seq(Events) /\ heap' \in Seq(Events)
      /\ now \in Nat /\ e.wake_time \in Nat
      /\ e.task \in Tasks /\ e.wake_time \in 0 .. MaxTime
      /\ e = [wake_time |-> e.wake_time, task |-> e.task]
  BY DEF HeapInv, Events
<1>2. now < e.wake_time /\ now' = now /\ heap' = HeapPush(heap, e)
  BY DEF Push
<1>3. \A x : HeapCount(heap', x) = HeapCount(heap, x) + (IF x = e THEN 1 ELSE 0)
  BY <1>2, PushCorrect DEF HeapInv
<1>4. ASSUME NEW x \in Tasks \X (0 .. MaxTime)
      PROVE  [wake_time |-> x[2], task |-> x[1]] = e <=> x = x0
  BY <1>1
<1>5. ASSUME NEW x \in Tasks \X (0 .. MaxTime)
      PROVE  BagOf(heap')[x] = IF x = x0 THEN B[x0] + 1 ELSE B[x]
  <2> DEFINE r == [wake_time |-> x[2], task |-> x[1]]
  <2>1. BagOf(heap')[x] = HeapCount(heap', r) /\ B[x] = HeapCount(heap, r)
    BY DEF BagOf
  <2>2. HeapCount(heap, r) \in Nat
    BY <1>1, HeapCountType
  <2>3. r = e <=> x = x0
    BY <1>4
  <2> HIDE DEF B, x0, r
  <2> QED BY <1>3, <2>1, <2>2, <2>3
<1>6. BagOf(heap') = [B EXCEPT ![x0] = B[x0] + 1]
  <2>1. B = [x \in Tasks \X (0 .. MaxTime) |-> B[x]]
    BY DEF BagOf
  <2>2. BagOf(heap') = [x \in Tasks \X (0 .. MaxTime) |-> BagOf(heap')[x]]
    BY Zenon DEF BagOf
  <2>3. x0 \in Tasks \X (0 .. MaxTime)
    BY <1>1
  <2> HIDE DEF B, x0
  <2> QED BY <1>5, <2>1, <2>2, <2>3
<1>7. ~(now >= e.wake_time)
  BY <1>1, <1>2
<1>8. /\ [x \in Tasks \X (0 .. MaxTime) |-> EventCount(x[1], x[2])] = B
      /\ [x \in Tasks \X (0 .. MaxTime) |-> EventCount(x[1], x[2])]' = BagOf(heap')
  BY <1>1, BagOfHeap, BagOfNextHeap
<1> HIDE DEF B
<1> QED BY <1>2, <1>6, <1>7, <1>8 DEF Bag!PushEvent, Bag!Elapsed

LEMMA BagPop ==
  ASSUME HeapInv, HeapInv', Pop
  PROVE  Bag!PopEvent(heap[1].task, heap[1].wake_time)
<1> DEFINE e == heap[1]
           x0 == <<e.task, e.wake_time>>
           B == BagOf(heap)
<1>1. /\ heap \in Seq(Events) /\ heap' \in Seq(Events) /\ 1 \in 1 .. Len(heap)
      /\ e \in Events
  BY DEF HeapInv, Pop
<1>2. /\ e.task \in Tasks /\ e.wake_time \in 0 .. MaxTime
      /\ e = [wake_time |-> e.wake_time, task |-> e.task]
  <2> HIDE DEF e
  <2> QED BY <1>1 DEF Events
<1>3. now' = e.wake_time /\ heap' = HeapPop(heap)
  BY DEF Pop
<1>4. \A x : HeapCount(heap', x) = HeapCount(heap, x) - (IF x = e THEN 1 ELSE 0)
  BY <1>3, PopCorrect DEF HeapInv, Pop
<1>5. ASSUME NEW x \in Tasks \X (0 .. MaxTime)
      PROVE  [wake_time |-> x[2], task |-> x[1]] = e <=> x = x0
  <2> HIDE DEF e
  <2> QED BY <1>2
<1>6. ASSUME NEW x \in Tasks \X (0 .. MaxTime)
      PROVE  BagOf(heap')[x] = IF x = x0 THEN B[x0] - 1 ELSE B[x]
  <2> DEFINE r == [wake_time |-> x[2], task |-> x[1]]
  <2>1. BagOf(heap')[x] = HeapCount(heap', r) /\ B[x] = HeapCount(heap, r)
    BY DEF BagOf
  <2>2. HeapCount(heap, r) \in Nat
    BY <1>1, HeapCountType
  <2>3. r = e <=> x = x0
    BY <1>5
  <2> HIDE DEF B, x0, r, e
  <2> QED BY <1>4, <2>1, <2>2, <2>3
<1>7. BagOf(heap') = [B EXCEPT ![x0] = B[x0] - 1]
  <2>1. B = [x \in Tasks \X (0 .. MaxTime) |-> B[x]]
    BY DEF BagOf
  <2>2. BagOf(heap') = [x \in Tasks \X (0 .. MaxTime) |-> BagOf(heap')[x]]
    BY Zenon DEF BagOf
  <2>3. x0 \in Tasks \X (0 .. MaxTime)
    BY <1>2
  <2> HIDE DEF B, x0
  <2> QED BY <1>6, <2>1, <2>2, <2>3
<1>8. ASSUME NEW t \in Tasks, NEW w \in 0 .. MaxTime
      PROVE  B[<<t, w>>] > 0 <=>
               \E j \in 1 .. Len(heap) : heap[j] = [wake_time |-> w, task |-> t]
  <2>1. B[<<t, w>>] = HeapCount(heap, [wake_time |-> w, task |-> t])
    BY DEF BagOf
  <2> HIDE DEF B
  <2> QED BY <1>1, <2>1, HeapCountType
<1>9. B[x0] > 0
  <2>1. heap[1] = [wake_time |-> e.wake_time, task |-> e.task]
    BY <1>2
  <2> HIDE DEF B, e
  <2> QED BY <1>1, <1>2, <1>8, <2>1
<1>10. ASSUME NEW t \in Tasks, NEW w \in 0 .. MaxTime, B[<<t, w>>] > 0
       PROVE  e.wake_time <= w
  <2>1. PICK j \in 1 .. Len(heap) : heap[j] = [wake_time |-> w, task |-> t]
    <3> HIDE DEF B
    <3> QED BY <1>8, <1>10
  <2>2. e.wake_time <= heap[j].wake_time
    BY RootIsEarliest DEF HeapInv
  <2> HIDE DEF e
  <2> QED BY <2>1, <2>2
<1>11. /\ [x \in Tasks \X (0 .. MaxTime) |-> EventCount(x[1], x[2])] = B
       /\ [x \in Tasks \X (0 .. MaxTime) |-> EventCount(x[1], x[2])]' = BagOf(heap')
  BY <1>1, BagOfHeap, BagOfNextHeap
<1>12. Bag!Earliest(e.task, e.wake_time)
  <2> HIDE DEF B, e
  <2> QED BY <1>9, <1>10, <1>11 DEF Bag!Earliest, Bag!Scheduled, Bag!Times
<1> HIDE DEF B
<1> QED BY <1>3, <1>7, <1>11, <1>12 DEF Bag!PopEvent

LEMMA BagNext ==
  HeapInv /\ HeapInv' /\ [HeapNext]_heapVars => [Bag!TimerNext]_(Bag!timerVars)
<1> SUFFICES ASSUME HeapInv, HeapInv', [HeapNext]_heapVars
             PROVE  [Bag!TimerNext]_(Bag!timerVars)
  OBVIOUS
<1>1. ASSUME NEW e \in Events, Push(e)
      PROVE  Bag!TimerNext
  <2>1. e.task \in Tasks /\ e.wake_time \in 0 .. MaxTime
    BY DEF Events
  <2>2. Bag!PushEvent(e.task, e.wake_time)
    BY <1>1, BagPush
  <2> QED BY <2>1, <2>2 DEF Bag!TimerNext, Bag!Times
<1>2. ASSUME Pop
      PROVE  Bag!TimerNext
  <2>1. heap[1] \in Events
    BY <1>2 DEF HeapInv, Pop
  <2>2. heap[1].task \in Tasks /\ heap[1].wake_time \in 0 .. MaxTime
    BY <2>1 DEF Events
  <2>3. Bag!PopEvent(heap[1].task, heap[1].wake_time)
    BY <1>2, BagPop
  <2> QED BY <2>2, <2>3 DEF Bag!TimerNext, Bag!Times
<1>3. CASE UNCHANGED heapVars
  <2>1. now' = now /\ heap' = heap
    BY <1>3 DEF heapVars
  <2>2. \A t, w : EventCount(t, w)' = EventCount(t, w)
    BY <2>1 DEF EventCount
  <2> QED BY <2>1, <2>2 DEF Bag!timerVars
<1> QED BY <1>1, <1>2, <1>3 DEF HeapNext

(* The two sifts implement the queue that the rest of the runtime is       *)
(* modelled with: a push adds one event, a pop removes one with the least  *)
(* wake time, and no event is lost or duplicated on the way.               *)
THEOREM HeapIsTimer == HeapSpec => ImplementsTimer
<1>1. HeapSpec => []HeapInv
  BY HeapInvCorrect
<1> QED BY <1>1, BagInit, BagNext, PTL DEF HeapSpec, ImplementsTimer, Bag!TimerSpec
=============================================================================
