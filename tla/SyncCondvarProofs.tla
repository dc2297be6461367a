------------------------- MODULE SyncCondvarProofs --------------------------
(***************************************************************************)
(* Proofs about SyncCondvar, for every set of tasks, range of times, set   *)
(* of durations and number of waits.                                       *)
(***************************************************************************)
EXTENDS SyncCondvar, ExecutorProofs, DataLemmas

-----------------------------------------------------------------------------
(* The elements of a sequence in the order of their positions.             *)

Rank(S, i) == Cardinality({j \in S : j < i})

At(S, k) == CHOOSE i \in S : Rank(S, i) = k - 1

LEMMA InOrderAt ==
  ASSUME NEW list, NEW S
  PROVE  InOrder(list, S) = [k \in 1 .. Cardinality(S) |-> list[At(S, k)]]
BY DEF InOrder, At, Rank

LEMMA RankGrows ==
  ASSUME NEW S, IsFiniteSet(S), S \subseteq Nat
  PROVE  /\ \A i \in S : Rank(S, i) \in 0 .. Cardinality(S) - 1
         /\ \A i \in S, j \in S : i < j => Rank(S, i) < Rank(S, j)
<1>1. ASSUME NEW i \in S, NEW T, T \subseteq S, \A j \in S : j <= i => j \in T
      PROVE  /\ Rank(S, i) \in Nat /\ Cardinality(T) \in Nat
             /\ Rank(S, i) < Cardinality(T)
  <2> DEFINE L == {j \in S : j < i}
  <2>1. IsFiniteSet(L) /\ IsFiniteSet(T)
    BY <1>1, FS_Subset
  <2>2. i \notin L /\ L \cup {i} \subseteq T
    <3>1. i \in Nat /\ \A j \in S : j \in Nat
      OBVIOUS
    <3>2. ~(i < i) /\ i <= i /\ \A j \in S : j < i => j <= i
      BY <3>1
    <3> QED BY <1>1, <3>2
  <2> HIDE DEF L
  <2>3. Cardinality(L \cup {i}) = Cardinality(L) + 1 /\ IsFiniteSet(L \cup {i})
    BY <2>1, <2>2, FS_AddElement
  <2>4. Cardinality(L \cup {i}) <= Cardinality(T)
    BY <2>1, <2>2, FS_Subset
  <2>5. Cardinality(L) \in Nat /\ Cardinality(T) \in Nat
    BY <2>1, FS_CardinalityType
  <2>6. Rank(S, i) = Cardinality(L)
    BY DEF Rank, L
  <2> QED BY <2>3, <2>4, <2>5, <2>6
<1>2. \A i \in S : Rank(S, i) \in 0 .. Cardinality(S) - 1
  BY <1>1
<1>3. ASSUME NEW i \in S, NEW j \in S, i < j
      PROVE  Rank(S, i) < Rank(S, j)
  <2> DEFINE T == {m \in S : m < j}
  <2>1. T \subseteq S /\ \A m \in S : m <= i => m \in T
    BY <1>3
  <2>2. Rank(S, j) = Cardinality(T)
    BY DEF Rank
  <2> HIDE DEF T
  <2> QED BY <1>1, <2>1, <2>2
<1> QED BY <1>2, <1>3

(* At enumerates a finite set of positions.                                *)
LEMMA AtEnumerates ==
  ASSUME NEW S, IsFiniteSet(S), S \subseteq Nat
  PROVE  /\ Cardinality(S) \in Nat
         /\ \A k \in 1 .. Cardinality(S) : At(S, k) \in S /\ Rank(S, At(S, k)) = k - 1
         /\ \A i \in S : \E k \in 1 .. Cardinality(S) : At(S, k) = i
<1> DEFINE N == Cardinality(S)
           f == [i \in S |-> Rank(S, i) + 1]
<1>1. N \in Nat
  BY FS_CardinalityType
<1>2. \A i \in S : Rank(S, i) \in 0 .. N - 1
  BY RankGrows
<1>3. ASSUME NEW i \in S, NEW j \in S, Rank(S, i) = Rank(S, j)
      PROVE  i = j
  <2>1. i \in Nat /\ j \in Nat /\ Rank(S, i) \in Int
    BY <1>2
  <2>2. /\ i < j => Rank(S, i) < Rank(S, j)
        /\ j < i => Rank(S, j) < Rank(S, i)
    BY RankGrows
  <2> QED BY <1>3, <2>1, <2>2
<1>4. f \in Injection(S, 1 .. N)
  <2> HIDE DEF N
  <2>1. \A i \in S : Rank(S, i) + 1 \in 1 .. N
    BY <1>1, <1>2
  <2>2. \A i, j \in S : Rank(S, i) + 1 = Rank(S, j) + 1 => i = j
    BY <1>2, <1>3
  <2> QED BY <2>1, <2>2 DEF Injection, IsInjective
<1>5. IsFiniteSet(1 .. N) /\ Cardinality(1 .. N) = N
  BY <1>1, FS_Interval
<1>6. f \in Surjection(S, 1 .. N)
  <2> HIDE DEF f
  <2> QED BY <1>4, <1>5, FS_Injection
<1>7. ASSUME NEW k \in 1 .. N
      PROVE  At(S, k) \in S /\ Rank(S, At(S, k)) = k - 1
  <2>1. PICK i \in S : f[i] = k
    <3> HIDE DEF f
    <3> QED BY <1>6 DEF Surjection
  <2>2. Rank(S, i) = k - 1
    BY <1>2, <2>1
  <2> QED BY <2>2 DEF At
<1>8. ASSUME NEW i \in S
      PROVE  \E k \in 1 .. N : At(S, k) = i
  <2>1. Rank(S, i) + 1 \in 1 .. N /\ (Rank(S, i) + 1) - 1 = Rank(S, i)
    BY <1>1, <1>2
  <2>2. /\ At(S, Rank(S, i) + 1) \in S
        /\ Rank(S, At(S, Rank(S, i) + 1)) = Rank(S, i)
    BY <1>7, <2>1
  <2> QED BY <1>3, <2>1, <2>2
<1> QED BY <1>1, <1>7, <1>8

(* What InOrder lists.                                                     *)
LEMMA InOrderElements ==
  ASSUME NEW E, NEW list \in Seq(E), NEW S, S \subseteq DOMAIN list
  PROVE  /\ InOrder(list, S) \in Seq(E)
         /\ DOMAIN InOrder(list, S) = 1 .. Cardinality(S)
         /\ Cardinality(S) \in Nat
         /\ ToSet(InOrder(list, S)) = {list[i] : i \in S}
<1>1. DOMAIN list = 1 .. Len(list) /\ Len(list) \in Nat
  OBVIOUS
<1>2. IsFiniteSet(S) /\ S \subseteq Nat
  <2>1. IsFiniteSet(1 .. Len(list)) /\ S \subseteq 1 .. Len(list)
    BY <1>1, FS_Interval
  <2> QED BY <2>1, FS_Subset
<1> DEFINE N == Cardinality(S)
           g == [k \in 1 .. N |-> list[At(S, k)]]
<1>3. /\ N \in Nat
      /\ \A k \in 1 .. N : At(S, k) \in S
      /\ \A i \in S : \E k \in 1 .. N : At(S, k) = i
  BY <1>2, AtEnumerates
<1>4. \A k \in 1 .. N : g[k] \in E /\ g[k] = list[At(S, k)]
  BY <1>3
<1>5. g \in Seq(E)
  BY <1>3, <1>4, IsASeq
<1>6. DOMAIN g = 1 .. N
  OBVIOUS
<1>7. ToSet(g) = {list[i] : i \in S}
  BY <1>3, <1>4, <1>6 DEF ToSet
<1>8. InOrder(list, S) = g
  BY InOrderAt
<1> HIDE DEF g
<1> QED BY <1>3, <1>5, <1>6, <1>7, <1>8

-----------------------------------------------------------------------------
(* What the two notifications do to the list.                              *)

LEMMA NotifyOneEffect ==
  ASSUME waiters \in Seq(Entries), NotifyOne
  PROVE  \/ \E i \in 1 .. Len(waiters) :
              /\ i \in Unwoken /\ \A j \in Unwoken : i <= j
              /\ waiters' \in Seq(Entries)
              /\ Len(waiters') = Len(waiters) - i
              /\ \A j \in 1 .. Len(waiters) - i : waiters'[j] = waiters[i + j]
              /\ woken' = woken \cup {waiters[i]}
              /\ Wake(waiters[i].task)
         \/ Unwoken = {} /\ waiters' = <<>> /\ woken' = woken /\ ready' = ready
<1>1. CASE Unwoken # {}
  <2>1. DOMAIN waiters = 1 .. Len(waiters)
    OBVIOUS
  <2>2. Unwoken \subseteq 1 .. Len(waiters) /\ Unwoken \subseteq Nat
    BY <2>1 DEF Unwoken
  <2>3. PICK m \in Unwoken : \A j \in Unwoken : m <= j
    BY <1>1, <2>2, NatSetMin
  <2>4. PICK i : i = Min(Unwoken)
    OBVIOUS
  <2>5. i \in Unwoken /\ \A j \in Unwoken : i <= j
    BY <2>3, <2>4, Zenon DEF Min
  <2>6. /\ waiters' = SubSeq(waiters, i + 1, Len(waiters))
        /\ woken' = woken \cup {waiters[i]}
        /\ Wake(waiters[i].task)
    BY <1>1, <2>4 DEF NotifyOne
  <2> QED BY <2>2, <2>5, <2>6, SuffixElements
<1>2. CASE Unwoken = {}
  BY <1>2 DEF NotifyOne
<1> QED BY <1>1, <1>2

(* Every wait of the list stands first somewhere.                          *)
LEMMA FirstsElements ==
  ASSUME waiters \in Seq(Entries)
  PROVE  /\ Firsts(waiters) \subseteq DOMAIN waiters
         /\ \A i \in DOMAIN waiters : waiters[i] \notin woken =>
              \E j \in Firsts(waiters) : j <= i /\ waiters[j] = waiters[i]
<1>1. ASSUME NEW i \in DOMAIN waiters, waiters[i] \notin woken
      PROVE  \E j \in Firsts(waiters) : j <= i /\ waiters[j] = waiters[i]
  <2> DEFINE S == {j \in DOMAIN waiters : waiters[j] = waiters[i]}
  <2>1. DOMAIN waiters = 1 .. Len(waiters) /\ Len(waiters) \in Nat
    OBVIOUS
  <2>2. S \subseteq Nat /\ S # {}
    BY <1>1, <2>1
  <2>3. PICK j \in S : \A n \in S : j <= n
    <3> HIDE DEF S
    <3> QED BY <2>2, NatSetMin
  <2>4. \A n \in 1 .. j - 1 : n \in DOMAIN waiters /\ ~(j <= n)
    BY <2>1
  <2>5. \A n \in 1 .. j - 1 : waiters[n] # waiters[j]
    BY <2>3, <2>4
  <2>6. j \in Firsts(waiters)
    BY <1>1, <2>5 DEF Firsts
  <2> QED BY <1>1, <2>3, <2>6
<1> QED BY <1>1 DEF Firsts

LEMMA NotifyAllEffect ==
  ASSUME waiters \in Seq(Entries), ready \in Seq(Tasks), NotifyAll
  PROVE  /\ waiters' = <<>>
         /\ woken' = woken \cup {waiters[i] : i \in DOMAIN waiters}
         /\ ready' \in Seq(Tasks)
         /\ Range(ready') =
              Range(ready) \cup {waiters[i].task : i \in Firsts(waiters)}
<1> DEFINE new == UnwokenWaits(waiters)
           tasks == [i \in DOMAIN new |-> new[i].task]
           N == Cardinality(Firsts(waiters))
<1>1. /\ new \in Seq(Entries)
      /\ DOMAIN new = 1 .. N
      /\ N \in Nat
      /\ ToSet(new) = {waiters[i] : i \in Firsts(waiters)}
  BY FirstsElements, InOrderElements DEF UnwokenWaits
<1>2. /\ waiters' = <<>>
      /\ woken' = woken \cup ToSet(new)
      /\ ready' = ready \o tasks
  BY DEF NotifyAll
<1>3. woken' = woken \cup {waiters[i] : i \in DOMAIN waiters}
  BY <1>1, <1>2, FirstsElements
<1> HIDE DEF new, N
<1>4. \A i \in 1 .. N : new[i] \in Entries
  BY <1>1
<1>5. \A i \in 1 .. N : new[i].task \in Tasks
  BY <1>4 DEF Entries
<1>6. tasks \in Seq(Tasks) /\ Len(tasks) = N /\ \A i \in 1 .. N : tasks[i] = new[i].task
  <2>1. tasks = [i \in 1 .. N |-> new[i].task]
    BY <1>1
  <2>2. [i \in 1 .. N |-> new[i].task] \in Seq(Tasks)
    BY <1>1, <1>5, IsASeq
  <2> QED BY <1>1, <2>1, <2>2
<1> HIDE DEF tasks
<1>7. /\ ready' \in Seq(Tasks) /\ Len(ready') = Len(ready) + N
      /\ \A i \in 1 .. Len(ready) + N :
           ready'[i] = IF i <= Len(ready) THEN ready[i] ELSE tasks[i - Len(ready)]
  BY <1>2, <1>6, ConcatProperties
<1>8. Len(ready) \in Nat /\ DOMAIN ready = 1 .. Len(ready)
      /\ DOMAIN (ready') = 1 .. Len(ready) + N
  BY <1>7
<1>9. Range(ready') = Range(ready) \cup {new[i].task : i \in 1 .. N}
  <2>1. Range(ready') \subseteq Range(ready) \cup {new[i].task : i \in 1 .. N}
    <3> SUFFICES ASSUME NEW i \in 1 .. Len(ready) + N
                 PROVE  ready'[i] \in Range(ready) \cup {new[k].task : k \in 1 .. N}
      BY <1>8 DEF Range
    <3>1. CASE i <= Len(ready)
      BY <1>7, <1>8, <3>1 DEF Range
    <3>2. CASE ~(i <= Len(ready))
      <4>1. i - Len(ready) \in 1 .. N
        BY <1>1, <1>8, <3>2
      <4> QED BY <1>6, <1>7, <3>2, <4>1
    <3> QED BY <3>1, <3>2
  <2>2. Range(ready) \subseteq Range(ready')
    <3>1. \A i \in DOMAIN ready : i \in DOMAIN (ready') /\ ready'[i] = ready[i]
      BY <1>1, <1>7, <1>8
    <3> QED BY <3>1 DEF Range
  <2>3. ASSUME NEW i \in 1 .. N
        PROVE  new[i].task \in Range(ready')
    <3>1. /\ Len(ready) + i \in 1 .. Len(ready) + N
          /\ ~(Len(ready) + i <= Len(ready))
          /\ (Len(ready) + i) - Len(ready) = i
      BY <1>1, <1>8
    <3>2. ready'[Len(ready) + i] = new[i].task
      BY <1>6, <1>7, <3>1
    <3> QED BY <1>8, <3>1, <3>2 DEF Range
  <2> QED BY <2>1, <2>2, <2>3
<1>10. {new[i].task : i \in 1 .. N} = {waiters[i].task : i \in Firsts(waiters)}
  <2>1. \A i \in 1 .. N : \E j \in Firsts(waiters) : new[i] = waiters[j]
    BY <1>1 DEF ToSet
  <2>2. \A j \in Firsts(waiters) : \E i \in 1 .. N : new[i] = waiters[j]
    BY <1>1 DEF ToSet
  <2> QED BY <2>1, <2>2
<1> QED BY <1>2, <1>3, <1>7, <1>9, <1>10

-----------------------------------------------------------------------------
(* Types.                                                                  *)

LEMMA TypeInit == Init => TypeOK
<1> SUFFICES ASSUME Init
             PROVE  TypeOK
  OBVIOUS
<1>1. ExecTypeOK
  BY DEF Init, ExecInit, ExecTypeOK, FutureStates
<1>2. 0 \in Times /\ 0 \in 0 .. MaxWaits
  BY MaxTimeAssumption, CondvarAssumption DEF Times
<1>3. TimerTypeOK
  BY <1>2 DEF Init, TimerInit, TimerTypeOK
<1>4. /\ st \in [Tasks -> States]
      /\ waits \in [Tasks -> 0 .. MaxWaits]
      /\ deadline \in [Tasks -> Times]
  BY <1>2 DEF Init, States
<1>5. waiters \in Seq(Entries) /\ woken \in SUBSET Entries
  BY DEF Init
<1> QED BY <1>1, <1>3, <1>4, <1>5 DEF Init, TypeOK

LEMMA BeginWaitType ==
  ASSUME TypeOK, NEW t \in Tasks, BeginWait(t)
  PROVE  waits' \in [Tasks -> 0 .. MaxWaits] /\ borrowed' \in BOOLEAN
<1>1. waits[t] + 1 \in 0 .. MaxWaits
  BY CondvarAssumption DEF TypeOK, BeginWait
<1> QED BY <1>1 DEF TypeOK, BeginWait

LEMMA NewSleepType ==
  ASSUME TypeOK, NEW t \in Tasks, NEW d \in Durations, NewSleep(t, d)
  PROVE  deadline' \in [Tasks -> Times]
<1>1. TimeAdd(now, d) \in Times
  BY MaxTimeAssumption, CondvarAssumption
     DEF TypeOK, TimerTypeOK, Times, TimeAdd
<1> QED BY <1>1 DEF TypeOK, NewSleep

LEMMA EntryType == TypeOK => \A t \in Tasks : Entry(t) \in Entries
BY CondvarAssumption DEF TypeOK, Entry, Entries

LEMMA TypeNext == TypeOK /\ [Next]_vars => TypeOK'
<1> SUFFICES ASSUME TypeOK, [Next]_vars
             PROVE  TypeOK'
  OBVIOUS
<1> USE NoneAssumption, MaxTimeAssumption, CondvarAssumption
    DEF TypeOK, ExecTypeOK, TimerTypeOK, FutureStates, States,
        execVars, timerVars, syncVars, taskVars
<1>0. <<>> \in Seq(Tasks) /\ <<>> \in Seq(Entries)
  OBVIOUS
<1>1. ASSUME NEW t \in Tasks, Wake(t)
      PROVE  ready' \in Seq(Tasks)
  BY <1>1, RangeAppend DEF Wake
<1>2. ASSUME NEW t \in Tasks, Register(t)
      PROVE  waiters' \in Seq(Entries)
  BY <1>2, EntryType, RangeAppend DEF Register
<1>3. ASSUME NEW t \in Tasks, PushEvent(t, deadline[t])
      PROVE  TimerTypeOK'
  BY <1>3 DEF PushEvent
<1>4. CASE \E t \in Tasks : Spawn(t)
  BY <1>1, <1>4 DEF Spawn, SpawnTask
<1>5. CASE Execute
  BY <1>0, <1>5 DEF Execute, TakeReady
<1>6. CASE Advance
  <2>1. PICK t \in Tasks, w \in Times : PopEvent(t, w) /\ Wake(t)
    BY <1>6 DEF Advance
  <2>2. TimerTypeOK'
    BY <2>1 DEF PopEvent, Earliest, Scheduled
  <2> QED BY <1>1, <1>6, <2>1, <2>2 DEF Advance
<1>7. CASE BeginPoll
  <2>1. batch # <<>>
    BY <1>7 DEF BeginPoll, PollNext, SkipCompleted
  <2>2. Head(batch) \in Tasks /\ Tail(batch) \in Seq(Tasks)
    BY <2>1, RangeTail
  <2> QED
    BY <1>7, <2>2 DEF BeginPoll, PollNext, SkipCompleted
<1>8. ASSUME NEW t \in Tasks, Lock(t) \/ Unlock(t) \/ Finish(t) \/ Wait(t)
      PROVE  TypeOK'
  <2>1. Lock(t) \/ Unlock(t) \/ Finish(t) => TypeOK'
    BY DEF Lock, Unlock, Finish, Borrow, ReturnReady
  <2>2. Wait(t) => TypeOK'
    BY BeginWaitType DEF Wait
  <2> QED BY <1>8, <2>1, <2>2
<1>9. ASSUME NEW t \in Tasks, NEW d \in Durations,
             Sleep(t, d) \/ WaitWithTimeout(t, d)
      PROVE  TypeOK'
  <2>1. deadline' \in [Tasks -> Times]
    BY <1>9, NewSleepType DEF Sleep, WaitWithTimeout
  <2>2. Sleep(t, d) => TypeOK'
    BY <2>1 DEF Sleep
  <2>3. WaitWithTimeout(t, d) => TypeOK'
    BY <2>1, BeginWaitType DEF WaitWithTimeout
  <2> QED BY <1>9, <2>2, <2>3
<1>10. ASSUME NEW t \in Tasks,
              PollSleepReady(t) \/ PollWoken(t) \/ PollTimedOut(t)
       PROVE  TypeOK'
  <2>1. 0 \in Times
    BY DEF Times
  <2>2. deadline' \in [Tasks -> Times]
    BY <1>10, <2>1 DEF PollSleepReady, PollWoken, PollTimedOut, EndSleep
  <2>3. /\ st' \in [Tasks -> States]
        /\ panicked' \in BOOLEAN /\ borrowed' \in BOOLEAN
        /\ UNCHANGED <<execVars, timerVars, waiters, woken, waits>>
    BY <1>10 DEF PollSleepReady, PollWoken, PollTimedOut, Borrow
  <2> QED BY <2>2, <2>3
<1>11. ASSUME NEW t \in Tasks, PollSleepPending(t) \/ SleepPanics(t)
       PROVE  TypeOK'
  BY <1>3, <1>11 DEF PollSleepPending, ReturnPending, SleepPanics
<1>12. ASSUME NEW t \in Tasks, PollWaitPending(t)
       PROVE  TypeOK'
  BY <1>2, <1>12 DEF PollWaitPending, ReturnPending
<1>13. ASSUME NEW t \in Tasks, PollTimedPending(t)
       PROVE  TypeOK'
  BY <1>2, <1>3, <1>13 DEF PollTimedPending, ReturnPending
<1>14. ASSUME NEW i \in DOMAIN waiters
       PROVE  waiters[i] \in Entries /\ waiters[i].task \in Tasks
  <2>1. waiters[i] \in Entries
    OBVIOUS
  <2> QED BY <2>1 DEF Entries
<1>15. CASE NotifyOne
  <2>1. /\ waiters' \in Seq(Entries)
        /\ woken' \in SUBSET Entries
        /\ ready' \in Seq(Tasks)
    <3>1. CASE \E i \in DOMAIN waiters :
                 /\ waiters' \in Seq(Entries)
                 /\ woken' = woken \cup {waiters[i]}
                 /\ Wake(waiters[i].task)
      BY <1>1, <1>14, <3>1
    <3>2. CASE waiters' = <<>> /\ woken' = woken /\ ready' = ready
      BY <1>0, <3>2
    <3>3. DOMAIN waiters = 1 .. Len(waiters) /\ waiters \in Seq(Entries)
      OBVIOUS
    <3> QED BY <1>15, <3>1, <3>2, <3>3, NotifyOneEffect
  <2> QED BY <1>15, <2>1 DEF NotifyOne
<1>16. CASE NotifyAll
  <2>1. /\ waiters' = <<>>
        /\ woken' = woken \cup {waiters[i] : i \in DOMAIN waiters}
        /\ ready' \in Seq(Tasks)
    BY <1>16, NotifyAllEffect
  <2>2. woken' \in SUBSET Entries
    BY <1>14, <2>1
  <2> QED BY <1>0, <1>16, <2>1, <2>2 DEF NotifyAll
<1>17. CASE UNCHANGED vars
  BY <1>17 DEF vars
<1> QED
  BY <1>4, <1>5, <1>6, <1>7, <1>8, <1>9, <1>10, <1>11, <1>12, <1>13, <1>15,
     <1>16, <1>17
     DEF Next, ExecStep, TaskStep, WaitStep

(* Every reachable state is well typed: entries name a wait, and deadlines *)
(* stay in the range of the u64.                                           *)
THEOREM TypeCorrect == Spec => []TypeOK
BY TypeInit, TypeNext, PTL DEF Spec

-----------------------------------------------------------------------------
(* The executor and the lock.                                              *)

(* A suspended task has its future, and only the task being polled holds   *)
(* the guard.                                                              *)
PollInv ==
  /\ \A t \in Tasks : running = t => future[t] = "none"
  /\ \A t \in Tasks : st[t] # "run" /\ running # t => future[t] = "some"
  /\ \A t \in Tasks : st[t] = "hold" => running = t

(* The RefCell is borrowed by a guard that exists.                         *)
LockInv == borrowed => \E t \in Tasks : st[t] = "hold"

LEMMA LockInit == Init => PollInv /\ LockInv
BY NoneAssumption DEF Init, ExecInit, PollInv, LockInv

(* No task locks or returns from a wait while another one holds the guard. *)
LEMMA BorrowFree ==
  ASSUME PollInv, LockInv, NEW t \in Tasks, running = t, st[t] # "hold", Borrow
  PROVE  borrowed' = TRUE /\ panicked' = FALSE
<1>1. borrowed = FALSE
  BY DEF PollInv, LockInv, Borrow
<1> QED BY <1>1 DEF Borrow

LEMMA LockNext ==
  TypeOK /\ PollInv /\ LockInv /\ [Next]_vars => PollInv' /\ LockInv'
<1> SUFFICES ASSUME TypeOK, PollInv, LockInv, [Next]_vars
             PROVE  PollInv' /\ LockInv'
  OBVIOUS
<1> USE NoneAssumption
    DEF TypeOK, ExecTypeOK, execVars, timerVars, syncVars, taskVars
<1>1. ASSUME UNCHANGED <<running, future, borrowed, st>>
      PROVE  PollInv' /\ LockInv'
  BY <1>1 DEF PollInv, LockInv
<1>2. CASE \E t \in Tasks : Spawn(t)
  BY <1>2 DEF Spawn, SpawnTask, PollInv, LockInv
<1>3. CASE BeginPoll
  <2>1. batch # <<>> /\ UNCHANGED <<borrowed, st>>
    BY <1>3 DEF BeginPoll, PollNext, SkipCompleted
  <2>2. Head(batch) \in Tasks
    BY <2>1, RangeTail
  <2>3. CASE PollNext
    BY <2>1, <2>2, <2>3 DEF PollNext, PollInv, LockInv
  <2>4. CASE SkipCompleted
    BY <1>1, <2>1, <2>4 DEF SkipCompleted
  <2> QED BY <1>3, <2>3, <2>4 DEF BeginPoll
<1>4. ASSUME NEW t \in Tasks, Lock(t) \/ PollWoken(t) \/ PollTimedOut(t)
      PROVE  PollInv' /\ LockInv'
  <2>1. /\ running = t /\ st[t] # "hold" /\ Borrow
        /\ st' = [st EXCEPT ![t] = "hold"]
        /\ UNCHANGED <<running, future>>
    BY <1>4 DEF Lock, PollWoken, PollTimedOut, InTask
  <2>2. borrowed' = TRUE /\ panicked' = FALSE
    BY <2>1, BorrowFree
  <2> QED BY <2>1, <2>2 DEF PollInv, LockInv
<1>5. ASSUME NEW t \in Tasks, NEW s \in {"run", "wait", "timed", "sleep"},
             running = t, st' = [st EXCEPT ![t] = s],
             borrowed' = FALSE \/ (borrowed' = borrowed /\ st[t] # "hold"),
             UNCHANGED <<running, future>>
      PROVE  PollInv' /\ LockInv'
  BY <1>5 DEF PollInv, LockInv
<1>6. ASSUME NEW t \in Tasks, Unlock(t) \/ PollSleepReady(t) \/ Wait(t)
      PROVE  PollInv' /\ LockInv'
  BY <1>5, <1>6 DEF Unlock, PollSleepReady, Wait, BeginWait, InTask
<1>7. ASSUME NEW t \in Tasks, NEW d \in Durations,
             Sleep(t, d) \/ WaitWithTimeout(t, d)
      PROVE  PollInv' /\ LockInv'
  BY <1>5, <1>7 DEF Sleep, WaitWithTimeout, BeginWait, InTask
<1>8. ASSUME NEW t \in Tasks, Finish(t)
      PROVE  PollInv' /\ LockInv'
  BY <1>8 DEF Finish, ReturnReady, PollInv, LockInv
<1>9. ASSUME NEW t \in Tasks,
             PollSleepPending(t) \/ PollWaitPending(t) \/ PollTimedPending(t)
      PROVE  PollInv' /\ LockInv'
  <2>1. ReturnPending(t) /\ st[t] # "hold" /\ UNCHANGED <<borrowed, st>>
    BY <1>9 DEF PollSleepPending, PollWaitPending, PollTimedPending
  <2> QED BY <2>1 DEF ReturnPending, PollInv, LockInv
<1>10. CASE Execute \/ Advance \/ NotifyOne \/ NotifyAll
  BY <1>1, <1>10 DEF Execute, TakeReady, Advance, NotifyOne, NotifyAll
<1>11. CASE UNCHANGED vars
  BY <1>1, <1>11 DEF vars
<1>12. ASSUME NEW t \in Tasks, SleepPanics(t)
       PROVE  PollInv' /\ LockInv'
  BY <1>12 DEF SleepPanics, PollInv, LockInv
<1> QED
  BY <1>2, <1>3, <1>4, <1>6, <1>7, <1>8, <1>9, <1>10, <1>11, <1>12
     DEF Next, ExecStep, TaskStep, WaitStep

LEMMA LockInvariant == Spec => [](TypeOK /\ PollInv /\ LockInv)
<1>1. Init => TypeOK /\ PollInv /\ LockInv
  BY TypeInit, LockInit
<1>2. TypeOK /\ PollInv /\ LockInv /\ [Next]_vars
        => (TypeOK /\ PollInv /\ LockInv)'
  BY TypeNext, LockNext
<1> QED BY <1>1, <1>2, PTL DEF Spec

(* The RefCell of a SyncMutex is never borrowed twice: no task suspends    *)
(* with the guard, and a wait takes the lock only in the poll in which it  *)
(* returns.  Only the assertion of sleep_for can panic.                    *)
THEOREM BorrowsNeverPanic == Spec => NoBorrowPanic
<1>1. ASSUME TypeOK, PollInv, LockInv, [Next]_vars,
             ~(panicked' => \E t \in Tasks : SleepPanics(t))
      PROVE  UNCHANGED vars
  <2> USE DEF execVars, timerVars, syncVars, taskVars
  <2>1. panicked' /\ \A t \in Tasks : ~SleepPanics(t)
    BY <1>1
  <2>2. ASSUME NEW t \in Tasks, Lock(t) \/ PollWoken(t) \/ PollTimedOut(t)
        PROVE  ~panicked'
    <3>1. running = t /\ st[t] # "hold" /\ Borrow
      BY <2>2 DEF Lock, PollWoken, PollTimedOut, InTask
    <3> QED BY <1>1, <3>1, BorrowFree
  <2>3. ASSUME \/ Execute \/ BeginPoll \/ Advance \/ NotifyOne \/ NotifyAll
               \/ \E t \in Tasks : Spawn(t)
        PROVE  ~panicked'
    BY <2>3 DEF Execute, BeginPoll, Advance, NotifyOne, NotifyAll, Spawn,
                InProgram
  <2>4. ASSUME NEW t \in Tasks,
               \/ Unlock(t) \/ Finish(t) \/ Wait(t) \/ PollSleepReady(t)
               \/ PollSleepPending(t) \/ PollWaitPending(t) \/ PollTimedPending(t)
               \/ \E d \in Durations : Sleep(t, d) \/ WaitWithTimeout(t, d)
        PROVE  ~panicked'
    BY <2>4 DEF Unlock, Finish, Wait, PollSleepReady, PollSleepPending,
                PollWaitPending, PollTimedPending, Sleep, WaitWithTimeout,
                BeginWait, InTask
  <2> QED
    BY <1>1, <2>1, <2>2, <2>3, <2>4 DEF Next, ExecStep, TaskStep, WaitStep
<1>2. TypeOK /\ PollInv /\ LockInv /\ [Next]_vars
        => [panicked' => \E t \in Tasks : SleepPanics(t)]_vars
  BY <1>1
<1> QED BY <1>2, LockInvariant, PTL DEF Spec, NoBorrowPanic

-----------------------------------------------------------------------------
(* The waits.                                                              *)

Suspended(t) == st[t] \in {"wait", "timed"} /\ running # t

(* A suspended wait stays in the list until it is notified; from then on   *)
(* its task is in one of the two queues of the executor.                   *)
WaitInv ==
  /\ \A t \in Tasks : Suspended(t) =>
       IF Entry(t) \in woken THEN Queued(t) ELSE Contains(waiters, Entry(t))
  /\ TimeoutScheduled

LEMMA WaitInit == Init => WaitInv
BY DEF Init, WaitInv, Suspended, TimeoutScheduled, Waiting

(* What a step must keep for the waits of the tasks it does not touch.     *)
LEMMA WaitFrame ==
  ASSUME WaitInv, NEW T \in SUBSET Tasks,
         \A u \in Tasks \ T : Suspended(u)' => Suspended(u),
         \A u \in Tasks \ T : Entry(u)' = Entry(u) /\ st'[u] = st[u]
                              /\ deadline'[u] = deadline[u],
         \A u \in Tasks \ T : Suspended(u) /\ Queued(u) => Queued(u)',
         \A u \in Tasks \ T : Entry(u) \in woken <=> Entry(u) \in woken',
         \A u \in Tasks \ T : Entry(u) \notin woken /\ Contains(waiters, Entry(u))
           => Contains(waiters', Entry(u)),
         \A u \in Tasks \ T, w \in Times :
           Scheduled(u, w) => events'[<<u, w>>] > 0,
         \A u \in T : Suspended(u)' =>
           IF Entry(u)' \in woken' THEN Queued(u)'
           ELSE /\ Contains(waiters', Entry(u)')
                /\ st'[u] = "timed" => Scheduled(u, deadline[u])' \/ Queued(u)',
         TypeOK
  PROVE  WaitInv'
<1>1. ASSUME NEW u \in Tasks, Suspended(u)'
      PROVE  IF Entry(u)' \in woken' THEN Queued(u)' ELSE Contains(waiters', Entry(u)')
  BY <1>1 DEF WaitInv
<1>2. ASSUME NEW u \in Tasks, Waiting(u)', st'[u] = "timed"
      PROVE  Scheduled(u, deadline[u])' \/ Queued(u)'
  <2>1. Suspended(u)'
    BY <1>2 DEF Suspended, Waiting
  <2>2. CASE u \in T
    BY <1>2, <2>1, <2>2 DEF Waiting
  <2>3. CASE u \notin T
    <3>1. Waiting(u) /\ st[u] = "timed" /\ Suspended(u)
      BY <1>2, <2>1, <2>3 DEF Waiting, Suspended
    <3>2. Scheduled(u, deadline[u]) \/ Queued(u)
      BY <3>1 DEF WaitInv, TimeoutScheduled
    <3>3. deadline[u] \in Times /\ deadline'[u] = deadline[u]
      BY <2>3 DEF TypeOK
    <3> QED BY <2>3, <3>1, <3>2, <3>3 DEF Scheduled
  <2> QED BY <2>2, <2>3
<1> QED BY <1>1, <1>2 DEF WaitInv, TimeoutScheduled


(* The list grows at its end.                                              *)
LEMMA RegisterContains ==
  ASSUME TypeOK, NEW t \in Tasks, Register(t)
  PROVE  /\ Contains(waiters', Entry(t))
         /\ \A e : Contains(waiters, e) => Contains(waiters', e)
<1>1. Entry(t) \in Entries
  BY EntryType
<1>2. /\ Len(waiters') = Len(waiters) + 1
      /\ Len(waiters) \in Nat
      /\ \A i \in 1 .. Len(waiters) : waiters'[i] = waiters[i]
      /\ waiters'[Len(waiters) + 1] = Entry(t)
  BY <1>1 DEF TypeOK, Register
<1> QED BY <1>2 DEF Contains

(* notify_one keeps every entry behind the one it wakes, and those before  *)
(* it are woken.                                                           *)
LEMMA NotifyOneKeeps ==
  ASSUME TypeOK, NotifyOne
  PROVE  /\ woken \subseteq woken'
         /\ \A u \in Tasks : Queued(u) => Queued(u)'
         /\ \A e : e \notin woken' /\ Contains(waiters, e) => Contains(waiters', e)
         /\ \A u \in Tasks : Entry(u) \in woken' => Entry(u) \in woken \/ Queued(u)'
<1>1. waiters \in Seq(Entries) /\ DOMAIN waiters = 1 .. Len(waiters)
      /\ Len(waiters) \in Nat
  BY DEF TypeOK
<1>2. CASE Unwoken = {} /\ waiters' = <<>> /\ woken' = woken /\ ready' = ready
  <2>1. \A e : ~(e \notin woken /\ Contains(waiters, e))
    BY <1>1, <1>2 DEF Unwoken, Contains
  <2> QED BY <1>2, <2>1 DEF NotifyOne, Queued
<1>3. ASSUME NEW i \in 1 .. Len(waiters),
             i \in Unwoken, \A j \in Unwoken : i <= j,
             Len(waiters') = Len(waiters) - i,
             \A j \in 1 .. Len(waiters) - i : waiters'[j] = waiters[i + j],
             woken' = woken \cup {waiters[i]},
             Wake(waiters[i].task)
      PROVE  /\ woken \subseteq woken'
             /\ \A u \in Tasks : Queued(u) => Queued(u)'
             /\ \A e : e \notin woken' /\ Contains(waiters, e) => Contains(waiters', e)
             /\ \A u \in Tasks : Entry(u) \in woken' => Entry(u) \in woken \/ Queued(u)'
  <2>1. waiters[i] \in Entries
    BY <1>1
  <2>2. waiters[i].task \in Tasks
    BY <2>1 DEF Entries
  <2>3. \A u \in Tasks : Queued(u)' <=> Queued(u) \/ u = waiters[i].task
    BY <1>3, <2>2, WakeQueued DEF TypeOK, NotifyOne
  <2>4. ASSUME NEW e, e \notin woken', Contains(waiters, e)
        PROVE  Contains(waiters', e)
    <3>1. PICK k \in 1 .. Len(waiters) : waiters[k] = e
      BY <2>4 DEF Contains
    <3>2. k \in Unwoken /\ k # i
      BY <1>1, <1>3, <2>4, <3>1 DEF Unwoken
    <3>3. k - i \in 1 .. Len(waiters) - i /\ i + (k - i) = k
      BY <1>1, <1>3, <3>2
    <3>4. waiters'[k - i] = e
      BY <1>3, <3>1, <3>3
    <3> QED BY <1>3, <3>3, <3>4 DEF Contains
  <2>5. \A u \in Tasks : Entry(u) = waiters[i] => u = waiters[i].task
    BY DEF Entry
  <2> QED BY <1>3, <2>3, <2>4, <2>5
<1> QED BY <1>1, <1>2, <1>3, NotifyOneEffect

LEMMA NotifyAllKeeps ==
  ASSUME TypeOK, NotifyAll
  PROVE  /\ \A u \in Tasks : Queued(u) => Queued(u)'
         /\ \A u \in Tasks : Entry(u) \in woken' => Entry(u) \in woken \/ Queued(u)'
         /\ \A u \in Tasks : Contains(waiters, Entry(u)) => Entry(u) \in woken'
         /\ woken \subseteq woken'
<1>1. waiters \in Seq(Entries) /\ DOMAIN waiters = 1 .. Len(waiters)
  BY DEF TypeOK
<1>2. /\ woken' = woken \cup {waiters[i] : i \in DOMAIN waiters}
      /\ Range(ready') =
           Range(ready) \cup {waiters[i].task : i \in Firsts(waiters)}
  BY <1>1, NotifyAllEffect DEF TypeOK, ExecTypeOK
<1>3. \A u \in Tasks : Contains(waiters, Entry(u)) => Entry(u) \in woken'
  BY <1>1, <1>2 DEF Contains
<1>4. ASSUME NEW u \in Tasks, Entry(u) \in woken', Entry(u) \notin woken
      PROVE  Queued(u)'
  <2>1. PICK i \in DOMAIN waiters : waiters[i] = Entry(u)
    BY <1>2, <1>4
  <2>2. PICK j \in Firsts(waiters) : waiters[j] = Entry(u)
    BY <1>1, <1>4, <2>1, FirstsElements
  <2>3. waiters[j].task = u
    BY <2>2 DEF Entry
  <2> QED BY <1>2, <2>3 DEF Queued
<1>5. \A u \in Tasks : Queued(u) => Queued(u)'
  BY <1>2 DEF Queued, NotifyAll
<1> QED BY <1>2, <1>3, <1>4, <1>5


LEMMA PushKeeps ==
  ASSUME TypeOK, NEW t \in Tasks, NEW v \in Times, PushEvent(t, v)
  PROVE  /\ \A u \in Tasks, w \in Times : Scheduled(u, w) => events'[<<u, w>>] > 0
         /\ events'[<<t, v>>] > 0
<1>1. events \in [Tasks \X Times -> Nat]
  BY DEF TypeOK, TimerTypeOK
<1>2. events' = [events EXCEPT ![<<t, v>>] = events[<<t, v>>] + 1]
  BY DEF PushEvent
<1>3. <<t, v>> \in Tasks \X Times /\ events[<<t, v>>] \in Nat
  BY <1>1
<1>4. events'[<<t, v>>] = events[<<t, v>>] + 1
  BY <1>1, <1>2, <1>3
<1>5. ASSUME NEW u \in Tasks, NEW w \in Times, <<u, w>> # <<t, v>>
      PROVE  events'[<<u, w>>] = events[<<u, w>>]
  BY <1>1, <1>2, <1>5
<1> QED BY <1>3, <1>4, <1>5 DEF Scheduled

LEMMA WaitNext ==
  TypeOK /\ PollInv /\ WaitInv /\ [Next]_vars => WaitInv'
<1> SUFFICES ASSUME TypeOK, PollInv, WaitInv, [Next]_vars
             PROVE  WaitInv'
  OBVIOUS
<1> USE NoneAssumption DEF execVars, timerVars, syncVars, taskVars
<1>0. ExecTypeOK
  BY DEF TypeOK
<1>1. ASSUME UNCHANGED <<events, taskVars, waiters, woken>>,
             \A u \in Tasks : Suspended(u)' => Suspended(u),
             \A u \in Tasks : Suspended(u)' /\ Queued(u) => Queued(u)'
      PROVE  WaitInv'
  <2>1. \A u \in Tasks : Entry(u)' = Entry(u)
    BY <1>1 DEF Entry
  <2>2. \A u \in Tasks : Waiting(u)' => Waiting(u) /\ Suspended(u)'
    BY <1>1, <2>1 DEF Waiting, Suspended
  <2> QED BY <1>1, <2>1, <2>2 DEF WaitInv, TimeoutScheduled, Scheduled
<1>2. ASSUME NEW t \in Tasks, Spawn(t)
      PROVE  WaitInv'
  <2>1. UNCHANGED <<events, taskVars, waiters, woken, running, batch>> /\ Wake(t)
    BY <1>2 DEF Spawn, SpawnTask
  <2>2. \A u \in Tasks : Queued(u) => Queued(u)'
    BY <1>0, <2>1, WakeQueued
  <2> QED BY <1>1, <2>1, <2>2 DEF Suspended
<1>3. CASE Execute
  <2>1. \A u \in Tasks : Queued(u)' <=> Queued(u)
    BY <1>0, <1>3, TakeQueued DEF Execute
  <2> QED BY <1>1, <1>3, <2>1 DEF Execute, TakeReady, Suspended
<1>4. CASE Advance
  <2>1. PICK t \in Tasks, w \in Times : PopEvent(t, w) /\ Wake(t)
    BY <1>4 DEF Advance
  <2>2. \A u \in Tasks : Queued(u)' <=> Queued(u) \/ u = t
    BY <1>0, <1>4, <2>1, WakeQueued DEF Advance
  <2>3. UNCHANGED <<taskVars, waiters, woken, running>>
    BY <1>4 DEF Advance
  <2>4. \A u \in Tasks, v \in Times :
          u # t => (events'[<<u, v>>] = events[<<u, v>>])
    BY <2>1 DEF PopEvent, TypeOK, TimerTypeOK
  <2>5. \A u \in Tasks : Entry(u)' = Entry(u) /\ (Suspended(u)' <=> Suspended(u))
                         /\ (Waiting(u)' <=> Waiting(u))
    BY <2>3 DEF Entry, Suspended, Waiting
  <2>6. \A u \in Tasks : deadline[u] \in Times
    BY DEF TypeOK
  <2>7. TimeoutScheduled'
    <3> SUFFICES ASSUME NEW u \in Tasks, Waiting(u), st[u] = "timed", u # t
                 PROVE  events'[<<u, deadline[u]>>] > 0 \/ Queued(u)'
      BY <2>2, <2>3, <2>5 DEF TimeoutScheduled, Scheduled
    <3> QED BY <2>2, <2>4, <2>6 DEF WaitInv, TimeoutScheduled, Scheduled
  <2> QED BY <2>2, <2>3, <2>5, <2>7 DEF WaitInv
<1>5. CASE BeginPoll
  <2>1. /\ batch # <<>> /\ batch' = Tail(batch)
        /\ UNCHANGED <<ready, events, taskVars, waiters, woken>>
        /\ running = None
    BY <1>5 DEF BeginPoll, PollNext, SkipCompleted
  <2>2. PICK h \in Tasks :
          /\ h = Head(batch)
          /\ \A u \in Tasks : Queued(u) <=> Queued(u)' \/ u = h
    BY <1>0, <2>1, DequeueQueued
  <2>3. \A u \in Tasks : Suspended(u)' => Suspended(u)
    BY <2>1 DEF Suspended
  <2>4. ~Suspended(h)'
    <3>1. CASE PollNext
      BY <2>2, <3>1 DEF PollNext, Suspended
    <3>2. CASE SkipCompleted
      <4>1. st[h] = "run"
        BY <2>1, <2>2, <3>2 DEF SkipCompleted, PollInv
      <4> QED BY <2>1, <4>1 DEF Suspended
    <3> QED BY <1>5, <3>1, <3>2 DEF BeginPoll
  <2> QED BY <1>1, <2>1, <2>2, <2>3, <2>4
<1>6. ASSUME NEW t \in Tasks, running = t, UNCHANGED <<ready, batch, running>>,
             \A u \in Tasks \ {t} : st'[u] = st[u] /\ waits'[u] = waits[u]
                                    /\ deadline'[u] = deadline[u],
             UNCHANGED <<events, waiters, woken>>
      PROVE  WaitInv'
  <2>1. \A u \in Tasks \ {t} : Entry(u)' = Entry(u) /\ (Suspended(u)' <=> Suspended(u))
    BY <1>6 DEF Entry, Suspended
  <2>2. \A u \in Tasks : Queued(u)' <=> Queued(u)
    BY <1>6, SameQueued
  <2>3. ~Suspended(t)'
    BY <1>6 DEF Suspended
  <2>4. \A u \in Tasks, w \in Times : Scheduled(u, w) => events'[<<u, w>>] > 0
    BY <1>6 DEF Scheduled
  <2>5. PICK T \in SUBSET Tasks : T = {t}
    OBVIOUS
  <2> QED BY <1>6, <2>1, <2>2, <2>3, <2>4, <2>5, WaitFrame
<1>7. ASSUME NEW t \in Tasks,
             \/ Lock(t) \/ Unlock(t) \/ PollSleepReady(t) \/ Wait(t)
             \/ PollWoken(t) \/ PollTimedOut(t)
             \/ \E d \in Durations : Sleep(t, d) \/ WaitWithTimeout(t, d)
      PROVE  WaitInv'
  <2>1. /\ running = t
        /\ UNCHANGED <<ready, batch, running, events, waiters, woken>>
    BY <1>7 DEF Lock, Unlock, PollSleepReady, Wait, PollWoken, PollTimedOut,
                Sleep, WaitWithTimeout, BeginWait, InTask
  <2>2. \A u \in Tasks \ {t} : st'[u] = st[u] /\ waits'[u] = waits[u]
                               /\ deadline'[u] = deadline[u]
    BY <1>7 DEF Lock, Unlock, PollSleepReady, Wait, PollWoken, PollTimedOut,
                Sleep, WaitWithTimeout, BeginWait, NewSleep, EndSleep, TypeOK
  <2> QED BY <1>6, <2>1, <2>2
<1>8. ASSUME NEW t \in Tasks, Finish(t) \/ PollSleepPending(t)
      PROVE  WaitInv'
  <2>1. /\ running = t /\ running' = None /\ st[t] \notin {"wait", "timed"}
        /\ UNCHANGED <<ready, batch, taskVars, waiters, woken>>
    BY <1>8 DEF Finish, PollSleepPending, ReturnReady, ReturnPending
  <2>2. \A u \in Tasks : Entry(u)' = Entry(u) /\ (Suspended(u)' <=> Suspended(u))
    BY <2>1 DEF Entry, Suspended
  <2>3. \A u \in Tasks : Queued(u)' <=> Queued(u)
    BY <2>1, SameQueued
  <2>4. \A u \in Tasks, w \in Times : Scheduled(u, w) => events'[<<u, w>>] > 0
    <3>1. PollSleepPending(t) => PushEvent(t, deadline[t]) /\ deadline[t] \in Times
      BY DEF PollSleepPending, TypeOK
    <3>2. Finish(t) => events' = events
      BY DEF Finish
    <3> QED BY <1>8, <3>1, <3>2, PushKeeps DEF Scheduled
  <2>5. \A u \in Tasks : Waiting(u)' <=> Waiting(u)
    BY <2>1, <2>2 DEF Waiting, Suspended
  <2>6. TimeoutScheduled'
    <3> SUFFICES ASSUME NEW u \in Tasks, Waiting(u), st[u] = "timed"
                 PROVE  events'[<<u, deadline[u]>>] > 0 \/ Queued(u)'
      BY <2>1, <2>5 DEF TimeoutScheduled, Scheduled
    <3>1. deadline[u] \in Times
      BY DEF TypeOK
    <3> QED BY <2>3, <2>4, <3>1 DEF WaitInv, TimeoutScheduled
  <2> QED BY <2>1, <2>2, <2>3, <2>6 DEF WaitInv
<1>9. ASSUME NEW t \in Tasks, PollWaitPending(t) \/ PollTimedPending(t)
      PROVE  WaitInv'
  <2>1. /\ running = t /\ running' = None /\ Entry(t) \notin woken /\ Register(t)
        /\ UNCHANGED <<ready, batch, taskVars, woken>>
    BY <1>9 DEF PollWaitPending, PollTimedPending, ReturnPending
  <2>2. \A u \in Tasks : Entry(u)' = Entry(u)
    BY <2>1 DEF Entry
  <2>3. \A u \in Tasks \ {t} : Suspended(u)' <=> Suspended(u)
    BY <2>1 DEF Suspended
  <2>4. \A u \in Tasks : Queued(u)' <=> Queued(u)
    BY <2>1, SameQueued
  <2>5. \A u \in Tasks, w \in Times : Scheduled(u, w) => events'[<<u, w>>] > 0
    <3>1. PollTimedPending(t) => PushEvent(t, deadline[t]) /\ deadline[t] \in Times
      BY DEF PollTimedPending, TypeOK
    <3>2. PollWaitPending(t) => events' = events
      BY DEF PollWaitPending
    <3> QED BY <1>9, <3>1, <3>2, PushKeeps DEF Scheduled
  <2>6. /\ Contains(waiters', Entry(t))
        /\ \A e : Contains(waiters, e) => Contains(waiters', e)
    BY <2>1, RegisterContains
  <2>7. st[t] = "timed" => Scheduled(t, deadline[t])'
    <3>1. st[t] = "timed" => PushEvent(t, deadline[t])
      BY <1>9 DEF PollWaitPending, PollTimedPending
    <3>2. deadline'[t] = deadline[t] /\ <<t, deadline[t]>> \in Tasks \X Times
      BY <2>1 DEF TypeOK
    <3>3. deadline[t] \in Times
      BY DEF TypeOK
    <3> QED BY <3>1, <3>2, <3>3, PushKeeps DEF Scheduled
  <2>8. ASSUME NEW u \in {t}, Suspended(u)'
        PROVE  IF Entry(u)' \in woken' THEN Queued(u)'
               ELSE /\ Contains(waiters', Entry(u)')
                    /\ st'[u] = "timed" => Scheduled(u, deadline[u])' \/ Queued(u)'
    BY <2>1, <2>2, <2>6, <2>7
  <2>9. PICK T \in SUBSET Tasks : T = {t}
    OBVIOUS
  <2>10. \A u \in Tasks \ T : Entry(u)' = Entry(u) /\ st'[u] = st[u]
                               /\ deadline'[u] = deadline[u]
    BY <2>1, <2>2
  <2> QED BY <2>1, <2>3, <2>4, <2>5, <2>6, <2>8, <2>9, <2>10, WaitFrame
<1>10. CASE NotifyOne \/ NotifyAll
  <2>1. UNCHANGED <<events, taskVars, running>>
    BY <1>10 DEF NotifyOne, NotifyAll
  <2>2. \A u \in Tasks : Entry(u)' = Entry(u) /\ (Suspended(u)' <=> Suspended(u))
    BY <2>1 DEF Entry, Suspended
  <2>3. /\ \A u \in Tasks : Queued(u) => Queued(u)'
        /\ \A u \in Tasks : Entry(u) \in woken' => Entry(u) \in woken \/ Queued(u)'
        /\ \A u \in Tasks : Contains(waiters, Entry(u)) /\ Entry(u) \notin woken'
             => Contains(waiters', Entry(u))
        /\ woken \subseteq woken'
    BY <1>10, NotifyOneKeeps, NotifyAllKeeps
  <2>4. \A u \in Tasks : Waiting(u)' => Waiting(u)
    BY <2>1, <2>2, <2>3 DEF Waiting
  <2>5. TimeoutScheduled'
    BY <2>1, <2>3, <2>4 DEF WaitInv, TimeoutScheduled, Scheduled
  <2> QED BY <2>2, <2>3, <2>5 DEF WaitInv
<1>11. CASE UNCHANGED vars \/ \E t \in Tasks : SleepPanics(t)
  <2>1. UNCHANGED <<execVars, timerVars, waiters, woken, taskVars>>
    BY <1>11 DEF vars, SleepPanics
  <2>2. \A u \in Tasks : Queued(u)' <=> Queued(u)
    BY <2>1, SameQueued
  <2> QED BY <1>1, <2>1, <2>2 DEF Suspended
<1> QED
  BY <1>2, <1>3, <1>4, <1>5, <1>7, <1>8, <1>9, <1>10, <1>11
     DEF Next, ExecStep, TaskStep, WaitStep


Inv == PollInv /\ LockInv /\ WaitInv

LEMMA InvCorrect == Spec => [](TypeOK /\ Inv)
<1>1. Init => TypeOK /\ Inv
  BY TypeInit, LockInit, WaitInit DEF Inv
<1>2. TypeOK /\ Inv /\ [Next]_vars => (TypeOK /\ Inv)'
  BY TypeNext, LockNext, WaitNext DEF Inv
<1> QED BY <1>1, <1>2, PTL DEF Spec

(* No wait is forgotten, whatever duplicates and stale entries the list    *)
(* holds: a suspended wait is registered or about to be polled.            *)
THEOREM WaitsNotForgotten == Spec => []WaitsRegistered
<1>1. Inv => WaitsRegistered
  BY DEF Inv, WaitInv, Suspended, WaitsRegistered
<1> QED BY <1>1, InvCorrect, PTL

(* A timed wait is polled again by its deadline at the latest.             *)
THEOREM TimeoutsNotForgotten == Spec => []TimeoutScheduled
<1>1. Inv => TimeoutScheduled
  BY DEF Inv, WaitInv
<1> QED BY <1>1, InvCorrect, PTL

-----------------------------------------------------------------------------
(* Notifications.                                                          *)

(* A notification touches neither the tasks nor the poll in progress, and  *)
(* that poll is not one of a wait.                                         *)
LEMMA NotifyFrame ==
  ASSUME TypeOK, NotifyOne \/ NotifyAll
  PROVE  /\ UNCHANGED <<taskVars, running>>
         /\ \A u \in Tasks : running = u => st[u] \notin {"wait", "timed"}
<1>1. UNCHANGED <<taskVars, running>> /\ InProgram
  BY DEF NotifyOne, NotifyAll, taskVars
<1> QED BY <1>1, NoneAssumption DEF InProgram, BatchDone, InTask

(* After notify_all no task waits: every wait in the list was woken, and   *)
(* every waiting task has its wait in the list.                            *)
THEOREM NotifyAllReachesAll == Spec => NotifyAllWakes
<1>1. ASSUME TypeOK, Inv, NotifyAll
      PROVE  \A u \in Tasks : ~Waiting(u)'
  <2>1. UNCHANGED <<taskVars, running>>
    BY <1>1, NotifyFrame
  <2> SUFFICES ASSUME NEW u \in Tasks, Suspended(u)
               PROVE  Entry(u) \in woken'
    BY <2>1 DEF Waiting, Suspended, Entry, taskVars
  <2>2. Entry(u) \in woken \/ Contains(waiters, Entry(u))
    BY <1>1 DEF Inv, WaitInv
  <2> QED BY <1>1, <2>2, NotifyAllKeeps
<1>2. TypeOK /\ Inv => (NotifyAll => \A u \in Tasks : ~Waiting(u)')
  BY <1>1
<1> QED BY <1>2, InvCorrect, PTL DEF NotifyAllWakes

(* Only an entry of a wait that timed out keeps notify_one from the tasks  *)
(* that wait: duplicates and entries woken before never do.                *)
THEOREM NotifyOneReachesOne == Spec => NotifyOneWakes
<1>1. ASSUME TypeOK, Inv, NotifyOne, SomeTaskWaits, ~Intercepted
      PROVE  OneNotified
  <2>1. /\ UNCHANGED <<taskVars, running>>
        /\ \A u \in Tasks : running = u => st[u] \notin {"wait", "timed"}
    BY <1>1, NotifyFrame
  <2>2. waiters \in Seq(Entries) /\ DOMAIN waiters = 1 .. Len(waiters)
    BY <1>1 DEF TypeOK
  <2>3. PICK v \in Tasks : Waiting(v)
    BY <1>1 DEF SomeTaskWaits
  <2>4. Contains(waiters, Entry(v)) /\ Entry(v) \notin woken
    BY <1>1, <2>3 DEF Waiting, Inv, WaitInv, Suspended
  <2>5. Unwoken # {}
    BY <2>2, <2>4 DEF Unwoken, Contains
  <2>6. PICK i \in DOMAIN waiters :
          /\ i \in Unwoken /\ \A j \in Unwoken : i <= j
          /\ woken' = woken \cup {waiters[i]}
    BY <1>1, <2>2, <2>5, NotifyOneEffect
  <2>7. PICK u : u = waiters[i].task
    OBVIOUS
  <2>8. waiters[i] = Entry(u) /\ st[u] \in {"wait", "timed"}
    BY <1>1, <2>6, <2>7 DEF Intercepted
  <2>9. u \in Tasks
    <3>1. waiters[i] \in Entries
      BY <2>2
    <3> QED BY <2>7, <3>1 DEF Entries
  <2>10. Waiting(u)
    BY <2>1, <2>6, <2>8, <2>9 DEF Waiting, Unwoken
  <2>11. ~Waiting(u)'
    <3>1. Entry(u)' = Entry(u)
      BY <2>1 DEF Entry, taskVars
    <3> QED BY <2>6, <2>8, <3>1 DEF Waiting
  <2> QED BY <2>9, <2>10, <2>11 DEF OneNotified
<1>2. TypeOK /\ Inv => (NotifyOne /\ SomeTaskWaits /\ ~Intercepted => OneNotified)
  BY <1>1
<1> QED BY <1>2, InvCorrect, PTL DEF NotifyOneWakes

-----------------------------------------------------------------------------
(* The refinement of the queue of module FifoCondvar: how the queue follows*)
(* the positions that it is made of.                                       *)

QueueOf(list, S) == [k \in 1 .. Cardinality(S) |-> list[At(S, k)].task]

LEMMA AtIncreases ==
  ASSUME NEW S, IsFiniteSet(S), S \subseteq Nat,
         NEW k \in 1 .. Cardinality(S), NEW m \in 1 .. Cardinality(S), k < m
  PROVE  At(S, k) < At(S, m)
<1>1. /\ At(S, k) \in S /\ Rank(S, At(S, k)) = k - 1
      /\ At(S, m) \in S /\ Rank(S, At(S, m)) = m - 1
      /\ Cardinality(S) \in Nat
  BY AtEnumerates
<1>2. At(S, m) < At(S, k) => Rank(S, At(S, m)) < Rank(S, At(S, k))
  BY <1>1, RankGrows
<1>3. At(S, k) \in Nat /\ At(S, m) \in Nat
  BY <1>1
<1>4. At(S, m) # At(S, k) /\ ~(At(S, m) < At(S, k))
  BY <1>1, <1>2
<1> QED BY <1>3, <1>4

(* g enumerates the positions S in order.                                  *)
Enumerates(g, n, S) ==
  /\ \A k \in 1 .. n : g[k] \in S
  /\ \A k \in 1 .. n, m \in 1 .. n : k < m => g[k] < g[m]
  /\ \A i \in S : \E k \in 1 .. n : g[k] = i

Listed(list, g, n) == [k \in 1 .. n |-> list[g[k]].task]

(* There is only one way to do so.                                         *)
LEMMA QueueOfUnique ==
  ASSUME NEW S, S \subseteq Nat, NEW n \in Nat, NEW g, NEW list,
         Enumerates(g, n, S)
  PROVE  QueueOf(list, S) = Listed(list, g, n)
<1> USE DEF Enumerates
<1>1. \A k \in 1 .. n : g[k] \in Nat
  OBVIOUS
<1>2. ASSUME NEW k \in 1 .. n, NEW m \in 1 .. n
      PROVE  /\ g[k] < g[m] <=> k < m
             /\ g[k] = g[m] <=> k = m
  <2>1. g[k] \in Nat /\ g[m] \in Nat /\ k \in Nat /\ m \in Nat
    BY <1>1
  <2>2. (k < m => g[k] < g[m]) /\ (m < k => g[m] < g[k])
    OBVIOUS
  <2> QED BY <2>1, <2>2
<1>3. ASSUME NEW T, NEW l \in 0 .. n,
             T = {j \in S : \E m \in 1 .. l : g[m] = j}
      PROVE  IsFiniteSet(T) /\ Cardinality(T) = l
  <2> DEFINE f == [m \in 1 .. l |-> g[m]]
  <2>1. f \in Bijection(1 .. l, T)
    <3>1. \A m \in 1 .. l : g[m] \in T
      BY <1>3
    <3>2. \A m \in 1 .. l, k \in 1 .. l : g[m] = g[k] => m = k
      BY <1>2
    <3>3. \A j \in T : \E m \in 1 .. l : g[m] = j
      BY <1>3
    <3> QED BY <3>1, <3>2, <3>3 DEF Bijection, Injection, Surjection, IsInjective
  <2> HIDE DEF f
  <2>2. ExistsBijection(1 .. l, T)
    BY <2>1 DEF ExistsBijection
  <2>3. l \in Nat
    OBVIOUS
  <2>4. Cardinality(T) = l
    BY <2>2, <2>3, FS_CountingElements
  <2>5. IsFiniteSet(T)
    BY <2>2, <2>3, FS_NatBijection
  <2> QED BY <2>4, <2>5
<1>4. IsFiniteSet(S) /\ Cardinality(S) = n
  <2>1. S = {j \in S : \E m \in 1 .. n : g[m] = j}
    OBVIOUS
  <2>2. n \in 0 .. n
    OBVIOUS
  <2> QED BY <1>3, <2>1, <2>2
<1>5. ASSUME NEW k \in 1 .. n
      PROVE  At(S, k) = g[k]
  <2> DEFINE T == {j \in S : j < g[k]}
             l == k - 1
  <2>1. l \in 0 .. n /\ \A m \in 1 .. n : m \in 1 .. l <=> m < k
    OBVIOUS
  <2>2. T = {j \in S : \E m \in 1 .. l : g[m] = j}
    <3>1. ASSUME NEW j \in S
          PROVE  j < g[k] <=> \E m \in 1 .. l : g[m] = j
      <4>1. PICK m \in 1 .. n : g[m] = j
        OBVIOUS
      <4>2. \A p \in 1 .. n : g[p] = j <=> p = m
        BY <1>2, <4>1
      <4>3. j < g[k] <=> m \in 1 .. l
        BY <1>2, <2>1, <4>1
      <4>4. \A p \in 1 .. l : p \in 1 .. n
        BY <2>1
      <4> HIDE DEF l
      <4> QED BY <4>1, <4>2, <4>3, <4>4
    <3> QED BY <3>1
  <2>3. Cardinality(T) = l
    <3> HIDE DEF T, l
    <3> QED BY <1>3, <2>1, <2>2
  <2>4. Rank(S, g[k]) = k - 1
    BY <2>3 DEF Rank
  <2>5. /\ At(S, k) \in S /\ Rank(S, At(S, k)) = k - 1
    BY <1>4, AtEnumerates
  <2>6. /\ At(S, k) < g[k] => Rank(S, At(S, k)) < Rank(S, g[k])
        /\ g[k] < At(S, k) => Rank(S, g[k]) < Rank(S, At(S, k))
    BY <1>4, <2>5, RankGrows
  <2>7. At(S, k) \in Nat /\ g[k] \in Nat
    BY <1>1, <2>5
  <2> QED BY <2>4, <2>5, <2>6, <2>7
<1> HIDE DEF Enumerates
<1> QED BY <1>4, <1>5 DEF QueueOf, Listed

LEMMA QueueOfSame ==
  ASSUME NEW S, IsFiniteSet(S), S \subseteq Nat, NEW list, NEW list2,
         \A i \in S : list2[i] = list[i]
  PROVE  QueueOf(list2, S) = QueueOf(list, S)
BY AtEnumerates DEF QueueOf

(* Append, under a name of its own for the provers.                        *)
Extended(queue, t) == Append(queue, t)

(* A new position behind all others.                                       *)
LEMMA QueueOfAppend ==
  ASSUME NEW S \in SUBSET Nat, IsFiniteSet(S), NEW list, NEW list2,
         NEW m \in Nat, \A i \in S : i < m /\ list2[i] = list[i],
         NEW Sm, Sm = S \cup {m}, NEW e, e = list2[m].task
  PROVE  QueueOf(list2, Sm) = Extended(QueueOf(list, S), e)
<1> DEFINE N == Cardinality(S)
           g == [k \in 1 .. N + 1 |-> IF k <= N THEN At(S, k) ELSE m]
<1>1. /\ N \in Nat
      /\ \A k \in 1 .. N : At(S, k) \in S
      /\ \A i \in S : \E k \in 1 .. N : At(S, k) = i
  BY AtEnumerates
<1>2. \A k \in 1 .. N, l \in 1 .. N : k < l => At(S, k) < At(S, l)
  BY AtIncreases
<1>3. QueueOf(list2, S \cup {m}) = [k \in 1 .. N + 1 |-> list2[g[k]].task]
  <2>1. \A k \in 1 .. N + 1 : g[k] \in S \cup {m}
    BY <1>1
  <2>2. ASSUME NEW k \in 1 .. N + 1, NEW l \in 1 .. N + 1, k < l
        PROVE  g[k] < g[l]
    <3>1. k \in 1 .. N /\ g[k] = At(S, k) /\ At(S, k) \in S
      BY <1>1, <2>2
    <3>2. CASE l <= N
      <4>1. l \in 1 .. N /\ g[l] = At(S, l)
        BY <1>1, <3>2
      <4> HIDE DEF g, N
      <4> QED BY <1>2, <2>2, <3>1, <4>1
    <3>3. CASE ~(l <= N)
      BY <3>1, <3>3
    <3> QED BY <3>2, <3>3
  <2>3. \A i \in S \cup {m} : \E k \in 1 .. N + 1 : g[k] = i
    <3>1. ASSUME NEW i \in S
          PROVE  \E k \in 1 .. N + 1 : g[k] = i
      <4>1. PICK k \in 1 .. N : At(S, k) = i
        BY <1>1
      <4>2. k \in 1 .. N + 1 /\ g[k] = i
        BY <1>1, <4>1
      <4> QED BY <4>2
    <3>2. N + 1 \in 1 .. N + 1 /\ g[N + 1] = m
      BY <1>1
    <3> HIDE DEF g, N
    <3> QED BY <3>1, <3>2
  <2>4. PICK T \in SUBSET Nat : T = S \cup {m}
    OBVIOUS
  <2>5. PICK n \in Nat : n = N + 1
    BY <1>1
  <2> HIDE DEF g, N
  <2>6. Enumerates(g, n, T)
    BY <2>1, <2>2, <2>3, <2>4, <2>5 DEF Enumerates
  <2>7. QueueOf(list2, T) = Listed(list2, g, n)
    BY <2>6, QueueOfUnique
  <2> QED BY <2>4, <2>5, <2>7 DEF Listed
<1>4. QueueOf(list, S) = [k \in 1 .. N |-> list[At(S, k)].task]
  BY DEF QueueOf
<1> DEFINE q == [k \in 1 .. N |-> list[At(S, k)].task]
<1>5. Append(q, list2[m].task) =
        [k \in 1 .. N + 1 |-> IF k <= N THEN list[At(S, k)].task ELSE list2[m].task]
  <2>1. Append(q, list2[m].task) =
          [k \in 1 .. Len(q) + 1 |-> IF k <= Len(q) THEN q[k] ELSE list2[m].task]
    <3> HIDE DEF q
    <3> QED OBVIOUS
  <2>2. Len(q) = N
    BY <1>1
  <2>3. \A k \in 1 .. N : q[k] = list[At(S, k)].task
    OBVIOUS
  <2>4. \A k \in 1 .. N + 1 : k <= N => k \in 1 .. N
    BY <1>1
  <2> HIDE DEF N, q
  <2> QED BY <2>1, <2>2, <2>3, <2>4
<1>6. \A k \in 1 .. N + 1 :
        list2[g[k]].task = IF k <= N THEN list[At(S, k)].task ELSE list2[m].task
  <2>1. ASSUME NEW k \in 1 .. N + 1, k <= N
        PROVE  list2[g[k]] = list[At(S, k)]
    <3>1. k \in 1 .. N /\ g[k] = At(S, k)
      BY <1>1, <2>1
    <3> HIDE DEF g
    <3> QED BY <1>1, <3>1
  <2>2. ASSUME NEW k \in 1 .. N + 1, ~(k <= N)
        PROVE  list2[g[k]] = list2[m]
    BY <2>2
  <2> HIDE DEF g, N
  <2> QED BY <2>1, <2>2
<1> HIDE DEF g, q, N
<1> QED BY <1>3, <1>4, <1>5, <1>6 DEF q, Extended

(* All positions move by d.                                                *)
Shifted(S, d) == {j \in Nat : j + d \in S}

LEMMA QueueOfShift ==
  ASSUME NEW S \in SUBSET Nat, IsFiniteSet(S), NEW list, NEW list2,
         NEW d \in Nat, \A i \in S : i > d /\ list2[i - d] = list[i]
  PROVE  QueueOf(list2, Shifted(S, d)) = QueueOf(list, S)
<1> PICK T : T = {j \in Nat : j + d \in S}
  OBVIOUS
<1> DEFINE N == Cardinality(S)
           g == [k \in 1 .. N |-> At(S, k) - d]
<1>1. /\ N \in Nat
      /\ \A k \in 1 .. N : At(S, k) \in S
      /\ \A i \in S : \E k \in 1 .. N : At(S, k) = i
  BY AtEnumerates
<1>2. \A k \in 1 .. N, l \in 1 .. N : k < l => At(S, k) < At(S, l)
  BY AtIncreases
<1> HIDE DEF N
<1>3. \A k \in 1 .. N : At(S, k) \in Nat /\ At(S, k) > d
  BY <1>1
<1>4. \A k \in 1 .. N : g[k] \in T
  <2>1. \A k \in 1 .. N : At(S, k) - d \in Nat /\ (At(S, k) - d) + d = At(S, k)
    BY <1>3
  <2> QED BY <1>1, <2>1
<1>5. \A k \in 1 .. N, l \in 1 .. N : k < l => g[k] < g[l]
  BY <1>2, <1>3
<1>6. ASSUME NEW j \in T
      PROVE  \E k \in 1 .. N : g[k] = j
  <2>1. PICK k \in 1 .. N : At(S, k) = j + d
    BY <1>1
  <2>2. j \in Nat
    OBVIOUS
  <2> QED BY <2>1, <2>2
<1>7. QueueOf(list2, T) = [k \in 1 .. N |-> list2[g[k]].task]
  <2>1. T \subseteq Nat
    OBVIOUS
  <2> HIDE DEF g
  <2>2. Enumerates(g, N, T)
    BY <1>4, <1>5, <1>6 DEF Enumerates
  <2>3. QueueOf(list2, T) = Listed(list2, g, N)
    BY <1>1, <2>1, <2>2, QueueOfUnique
  <2> QED BY <2>3 DEF Listed
<1>8. \A k \in 1 .. N : list2[g[k]] = list[At(S, k)]
  BY <1>1
<1> HIDE DEF g
<1> QED BY <1>7, <1>8 DEF QueueOf, N, Shifted

(* The queue without its element l.                                        *)
Without(list, S, l) ==
  [k \in 1 .. Cardinality(S) - 1 |->
     list[At(S, IF k < l THEN k ELSE k + 1)].task]

(* One position is removed.                                                *)
LEMMA QueueOfRemove ==
  ASSUME NEW S, IsFiniteSet(S), S \subseteq Nat, NEW list, NEW p \in S
  PROVE  \E l \in 1 .. Cardinality(S) :
           /\ At(S, l) = p
           /\ (\A i \in S : p <= i) => l = 1
           /\ QueueOf(list, S \ {p}) = Without(list, S, l)
<1> DEFINE N == Cardinality(S)
<1>1. /\ N \in Nat
      /\ \A k \in 1 .. N : At(S, k) \in S
      /\ \A i \in S : \E k \in 1 .. N : At(S, k) = i
  BY AtEnumerates
<1>2. \A k \in 1 .. N, m \in 1 .. N : k < m => At(S, k) < At(S, m)
  BY AtIncreases
<1>3. PICK l \in 1 .. N : At(S, l) = p
  BY <1>1
<1> HIDE DEF N
<1>4. \A k \in 1 .. N : At(S, k) \in Nat
  BY <1>1
<1>5. (\A i \in S : p <= i) => l = 1
  <2>1. l # 1 => 1 \in 1 .. N /\ 1 < l
    BY <1>1
  <2>2. l # 1 => At(S, 1) \in S /\ At(S, 1) < p /\ At(S, 1) \in Nat /\ p \in Nat
    BY <1>1, <1>2, <1>3, <1>4, <2>1
  <2>3. l # 1 => ~(p <= At(S, 1))
    BY <2>2
  <2> QED BY <2>2, <2>3
<1> DEFINE nx(k) == IF k < l THEN k ELSE k + 1
           g == [k \in 1 .. N - 1 |-> At(S, nx(k))]
<1>6. \A k \in 1 .. N - 1 : nx(k) \in 1 .. N /\ nx(k) # l
  BY <1>1
<1>7. \A k \in 1 .. N - 1, m \in 1 .. N - 1 : k < m => nx(k) < nx(m)
  BY <1>1
<1>8. \A k \in 1 .. N : k # l => At(S, k) # p
  <2>1. ASSUME NEW k \in 1 .. N, k # l
        PROVE  At(S, k) # p
    <3>1. k < l \/ l < k
      BY <2>1
    <3>2. At(S, k) < At(S, l) \/ At(S, l) < At(S, k)
      BY <1>2, <3>1
    <3> QED BY <1>3, <1>4, <3>2
  <2> QED BY <2>1
<1>9. \A i \in S \ {p} : \E k \in 1 .. N - 1 : At(S, nx(k)) = i
  <2>1. ASSUME NEW i \in S \ {p}
        PROVE  \E k \in 1 .. N - 1 : At(S, nx(k)) = i
    <3>1. PICK m \in 1 .. N : At(S, m) = i /\ m # l
      BY <1>1, <1>3
    <3>2. PICK k \in 1 .. N - 1 : nx(k) = m
      <4>1. CASE m < l
        <5>1. m \in 1 .. N - 1 /\ nx(m) = m
          BY <1>1, <4>1
        <5> QED BY <5>1
      <4>2. CASE m > l
        <5>1. m - 1 \in 1 .. N - 1 /\ nx(m - 1) = m
          BY <1>1, <4>2
        <5> QED BY <5>1
      <4> QED BY <3>1, <4>1, <4>2
    <3> HIDE DEF nx
    <3> QED BY <3>1, <3>2
  <2> QED BY <2>1
<1>10. QueueOf(list, S \ {p}) = [k \in 1 .. N - 1 |-> list[g[k]].task]
  <2>1. \A k \in 1 .. N - 1 : g[k] \in S \ {p}
    <3> HIDE DEF nx
    <3> QED BY <1>1, <1>6, <1>8
  <2>2. \A k \in 1 .. N - 1, m \in 1 .. N - 1 : k < m => g[k] < g[m]
    <3> HIDE DEF nx
    <3> QED BY <1>2, <1>6, <1>7
  <2>3. \A i \in S \ {p} : \E k \in 1 .. N - 1 : g[k] = i
    <3> HIDE DEF nx
    <3> QED BY <1>9
  <2>4. PICK T : T = S \ {p}
    OBVIOUS
  <2>5. PICK n \in Nat : n = N - 1
    BY <1>1
  <2>6. T \subseteq Nat
    BY <2>4
  <2> HIDE DEF g
  <2>7. Enumerates(g, n, T)
    BY <2>1, <2>2, <2>3, <2>4, <2>5 DEF Enumerates
  <2>8. QueueOf(list, T) = Listed(list, g, n)
    BY <2>6, <2>7, QueueOfUnique
  <2> QED BY <2>4, <2>5, <2>8 DEF Listed
<1>11. [k \in 1 .. N - 1 |-> list[g[k]].task] =
         [k \in 1 .. N - 1 |-> list[At(S, IF k < l THEN k ELSE k + 1)].task]
  OBVIOUS
<1> HIDE DEF g, nx
<1>12. QueueOf(list, S \ {p}) = Without(list, S, l)
  BY <1>10, <1>11 DEF N, Without
<1> QED BY <1>3, <1>5, <1>12 DEF N

-----------------------------------------------------------------------------
(* SyncCondvar implements FifoCondvar.                                     *)

(* The task of entry e awaits this very wait and was not notified.         *)
Live(e) ==
  e \notin woken /\ e = Entry(e.task) /\ st[e.task] \in {"wait", "timed"}

(* Where the entries of the waiting tasks stand first.                     *)
LivePos ==
  {i \in DOMAIN waiters :
     Live(waiters[i]) /\ \A j \in 1 .. i - 1 : waiters[j] # waiters[i]}

Notified == {t \in Tasks : st[t] \in {"wait", "timed"} /\ Entry(t) \in woken}

LEMMA QueueIs == WaitQueue = QueueOf(waiters, LivePos)
<1> DEFINE live == {i \in Firsts(waiters) :
                      LET t == waiters[i].task
                      IN  waiters[i] = Entry(t) /\ st[t] \in {"wait", "timed"}}
           queue == [k \in 1 .. Cardinality(LivePos) |-> waiters[At(LivePos, k)]]
<1>1. live = LivePos
  BY DEF Firsts, LivePos, Live
<1>2. InOrder(waiters, live) = queue
  <2> HIDE DEF live
  <2> QED BY <1>1, InOrderAt
<1>3. WaitQueue = [k \in DOMAIN queue |-> queue[k].task]
  <2>1. WaitQueue = [k \in DOMAIN InOrder(waiters, live) |->
                       InOrder(waiters, live)[k].task]
    BY DEF WaitQueue
  <2> HIDE DEF live, queue
  <2> QED BY <1>2, <2>1
<1> QED BY <1>3 DEF QueueOf

LEMMA LivePosType ==
  ASSUME TypeOK
  PROVE  /\ IsFiniteSet(LivePos) /\ LivePos \subseteq 1 .. Len(waiters)
         /\ LivePos \subseteq Nat /\ Len(waiters) \in Nat
         /\ DOMAIN waiters = 1 .. Len(waiters)
         /\ \A i \in DOMAIN waiters : waiters[i] \in Entries /\ waiters[i].task \in Tasks
         /\ \A i \in LivePos : Live(waiters[i])
<1>1. waiters \in Seq(Entries) /\ DOMAIN waiters = 1 .. Len(waiters)
      /\ Len(waiters) \in Nat
  BY DEF TypeOK
<1>2. LivePos \subseteq 1 .. Len(waiters) /\ \A i \in LivePos : Live(waiters[i])
  BY <1>1 DEF LivePos
<1>3. IsFiniteSet(LivePos)
  <2>1. IsFiniteSet(1 .. Len(waiters))
    BY <1>1, FS_Interval
  <2> QED BY <1>2, <2>1, FS_Subset
<1>4. \A i \in DOMAIN waiters : waiters[i] \in Entries /\ waiters[i].task \in Tasks
  <2>1. \A i \in DOMAIN waiters : waiters[i] \in Entries
    BY <1>1
  <2> QED BY <2>1 DEF Entries
<1> QED BY <1>1, <1>2, <1>3, <1>4

(* The queue is one of tasks, and every task that waits and is registered  *)
(* stands in it once.                                                      *)
LEMMA QueueType ==
  ASSUME TypeOK
  PROVE  /\ WaitQueue \in Seq(Tasks)
         /\ Len(WaitQueue) = Cardinality(LivePos)
         /\ DOMAIN WaitQueue = 1 .. Cardinality(LivePos)
         /\ \A k \in 1 .. Cardinality(LivePos) :
              WaitQueue[k] = waiters[At(LivePos, k)].task
         /\ ToSet(WaitQueue) = {waiters[i].task : i \in LivePos}
<1> DEFINE N == Cardinality(LivePos)
           q == [k \in 1 .. N |-> waiters[At(LivePos, k)].task]
<1>1. /\ N \in Nat
      /\ \A k \in 1 .. N : At(LivePos, k) \in LivePos
      /\ \A i \in LivePos : \E k \in 1 .. N : At(LivePos, k) = i
  BY LivePosType, AtEnumerates
<1>2. \A i \in LivePos : waiters[i].task \in Tasks
  BY LivePosType
<1>3. \A k \in 1 .. N : q[k] \in Tasks /\ q[k] = waiters[At(LivePos, k)].task
  BY <1>1, <1>2
<1>4. q \in Seq(Tasks)
  BY <1>1, <1>3, IsASeq
<1>5. DOMAIN q = 1 .. N
  OBVIOUS
<1>6. Len(q) = N
  BY <1>1
<1>7. ToSet(q) = {waiters[i].task : i \in LivePos}
  BY <1>1, <1>3, <1>5 DEF ToSet
<1>8. WaitQueue = q
  BY QueueIs DEF QueueOf
<1> HIDE DEF q
<1> QED BY <1>3, <1>4, <1>5, <1>6, <1>7, <1>8

-----------------------------------------------------------------------------
(* No entry belongs to a wait that has not begun: a new wait is not in the *)
(* list and its flag is not set.                                           *)
EntryInv ==
  /\ \A i \in DOMAIN waiters : waiters[i].wait <= waits[waiters[i].task]
  /\ \A e \in woken : e.wait <= waits[e.task]

LEMMA EntryInit == Init => EntryInv
BY DEF Init, EntryInv

LEMMA EntryNext == TypeOK /\ EntryInv /\ [Next]_vars => EntryInv'
<1> SUFFICES ASSUME TypeOK, EntryInv, [Next]_vars
             PROVE  EntryInv'
  OBVIOUS
<1> USE DEF execVars, timerVars, syncVars, taskVars
<1>1. /\ waiters \in Seq(Entries) /\ woken \in SUBSET Entries
      /\ waits \in [Tasks -> 0 .. MaxWaits] /\ MaxWaits \in Nat
      /\ DOMAIN waiters = 1 .. Len(waiters) /\ Len(waiters) \in Nat
  BY CondvarAssumption DEF TypeOK
<1>2. /\ \A i \in DOMAIN waiters : waiters[i].task \in Tasks /\ waiters[i].wait \in Nat
      /\ \A e \in woken : e.task \in Tasks /\ e.wait \in Nat
  <2>1. \A e \in Entries : e.task \in Tasks /\ e.wait \in Nat
    BY DEF Entries
  <2>2. \A i \in DOMAIN waiters : waiters[i] \in Entries
    BY <1>1
  <2> QED BY <1>1, <2>1, <2>2
<1>3. ASSUME \A u \in Tasks : waits[u] <= waits'[u] /\ waits'[u] \in Int,
             UNCHANGED <<waiters, woken>>
      PROVE  EntryInv'
  <2>1. \A u \in Tasks, n \in Nat : n <= waits[u] => n <= waits'[u]
    BY <1>1, <1>3
  <2> QED BY <1>2, <1>3, <2>1 DEF EntryInv
<1>4. ASSUME UNCHANGED <<waits, waiters, woken>>
      PROVE  EntryInv'
  BY <1>4 DEF EntryInv
<1>5. ASSUME NEW t \in Tasks, BeginWait(t), UNCHANGED <<waiters, woken>>
      PROVE  EntryInv'
  <2>1. waits' = [waits EXCEPT ![t] = waits[t] + 1]
    BY <1>5 DEF BeginWait
  <2>2. \A u \in Tasks : waits[u] \in Nat
    BY <1>1
  <2>3. \A u \in Tasks : waits[u] <= waits'[u] /\ waits'[u] \in Int
    BY <1>1, <2>1, <2>2
  <2> QED BY <1>3, <1>5, <2>3
<1>6. ASSUME NEW t \in Tasks, Register(t), UNCHANGED <<waits, woken>>
      PROVE  EntryInv'
  <2>1. Entry(t) \in Entries
    BY EntryType
  <2>2. /\ DOMAIN (waiters') = DOMAIN waiters \cup {Len(waiters) + 1}
        /\ \A i \in DOMAIN waiters : waiters'[i] = waiters[i]
        /\ waiters'[Len(waiters) + 1] = Entry(t)
    BY <1>1, <1>6, <2>1, AppendElements DEF Register
  <2>3. Entry(t).task = t /\ Entry(t).wait = waits[t] /\ waits[t] \in Nat
    BY <1>1 DEF Entry
  <2> QED BY <1>6, <2>2, <2>3 DEF EntryInv
<1>7. CASE NotifyOne
  <2>1. UNCHANGED waits
    BY <1>7 DEF NotifyOne
  <2>2. CASE waiters' = <<>> /\ woken' = woken
    BY <2>1, <2>2 DEF EntryInv
  <2>3. ASSUME NEW i \in 1 .. Len(waiters),
               /\ waiters' \in Seq(Entries)
               /\ Len(waiters') = Len(waiters) - i
               /\ \A j \in 1 .. Len(waiters) - i : waiters'[j] = waiters[i + j]
               /\ woken' = woken \cup {waiters[i]}
        PROVE  EntryInv'
    <3>1. DOMAIN (waiters') = 1 .. Len(waiters) - i
      BY <2>3
    <3>2. \A j \in 1 .. Len(waiters) - i : i + j \in DOMAIN waiters
      BY <1>1
    <3> QED BY <1>1, <2>1, <2>3, <3>1, <3>2 DEF EntryInv
  <2> QED BY <1>1, <1>7, <2>2, <2>3, NotifyOneEffect
<1>8. CASE NotifyAll
  <2>1. /\ waiters' = <<>>
        /\ woken' = woken \cup {waiters[i] : i \in DOMAIN waiters}
        /\ UNCHANGED waits
    BY <1>1, <1>8, NotifyAllEffect DEF TypeOK, ExecTypeOK, NotifyAll
  <2> QED BY <2>1 DEF EntryInv
<1>9. ASSUME NEW t \in Tasks, WaitStep(t)
      PROVE  EntryInv'
  BY <1>4, <1>5, <1>6, <1>9
     DEF WaitStep, Wait, WaitWithTimeout, PollWoken, PollTimedOut,
         PollWaitPending, PollTimedPending
<1>10. ASSUME NEW t \in Tasks, Spawn(t) \/ TaskStep(t)
       PROVE  EntryInv'
  BY <1>4, <1>9, <1>10
     DEF Spawn, TaskStep, Lock, Unlock, Finish, PollSleepReady,
         PollSleepPending, SleepPanics, Sleep
<1>11. CASE ExecStep \/ Advance \/ UNCHANGED vars
  BY <1>4, <1>11 DEF ExecStep, Execute, BeginPoll, Advance, vars
<1> QED BY <1>7, <1>8, <1>10, <1>11 DEF Next

-----------------------------------------------------------------------------
(* The clock.                                                              *)

(* No event in the heap is older than the clock.                           *)
ClockInv == \A t \in Tasks, w \in Times : Scheduled(t, w) => now <= w

(* A timed wait that is not registered yet, in the poll in which it was    *)
(* called, is not due: only a registered wait can time out.                *)
FreshInv ==
  \A t \in Tasks : st[t] = "timed" /\ Entry(t) \notin woken =>
    Contains(waiters, Entry(t)) \/ now < deadline[t]

LEMMA ClockInit == Init => ClockInv /\ FreshInv
BY DEF Init, TimerInit, ClockInv, FreshInv, Scheduled

LEMMA SleepIsLater ==
  ASSUME TypeOK, NEW d \in Durations, ~SleepOverflows(d)
  PROVE  TimeAdd(now, d) \in now + 1 .. MaxTime
<1>1. /\ now \in 0 .. MaxTime /\ d \in 1 .. MaxTime /\ MaxTime \in Nat
      /\ ~(TimeAdd(now, d) < now)
  BY MaxTimeAssumption, CondvarAssumption
     DEF TypeOK, TimerTypeOK, Times, SleepOverflows
<1>2. CASE now + d <= MaxTime
  <2>1. TimeAdd(now, d) = now + d
    BY <1>1, <1>2 DEF TimeAdd
  <2> QED BY <1>1, <1>2, <2>1
<1>3. CASE now + d > MaxTime
  <2>1. TimeAdd(now, d) = now + d - (MaxTime + 1)
    BY <1>1, <1>3 DEF TimeAdd
  <2> QED BY <1>1, <1>3, <2>1
<1> QED BY <1>1, <1>2, <1>3

LEMMA ClockNext == TypeOK /\ ClockInv /\ [Next]_vars => ClockInv'
<1> SUFFICES ASSUME TypeOK, ClockInv, [Next]_vars
             PROVE  ClockInv'
  OBVIOUS
<1> USE DEF execVars, timerVars, syncVars, taskVars
<1>0. /\ events \in [Tasks \X Times -> Nat] /\ now \in Times
      /\ \A u \in Tasks : deadline[u] \in Times
      /\ Times \subseteq Nat
  BY DEF TypeOK, TimerTypeOK, Times
<1>1. ASSUME UNCHANGED <<now, events>>
      PROVE  ClockInv'
  BY <1>1 DEF ClockInv, Scheduled
<1>2. CASE Advance
  <2>1. PICK t \in Tasks, w \in Times : PopEvent(t, w)
    BY <1>2 DEF Advance
  <2>2. events' = [events EXCEPT ![<<t, w>>] = events[<<t, w>>] - 1] /\ now' = w
    BY <2>1 DEF PopEvent
  <2>3. \A u \in Tasks, v \in Times : Scheduled(u, v)' => Scheduled(u, v)
    BY <1>0, <2>2 DEF Scheduled
  <2> QED BY <2>1, <2>2, <2>3 DEF PopEvent, Earliest, ClockInv
<1>3. ASSUME NEW t \in Tasks, NEW w \in Times, PushEvent(t, w)
      PROVE  ClockInv'
  <2>1. /\ events' = [events EXCEPT ![<<t, w>>] = events[<<t, w>>] + 1]
        /\ now' = now /\ now < w
    BY <1>0, <1>3 DEF PushEvent, Elapsed
  <2>2. \A u \in Tasks, v \in Times :
          Scheduled(u, v)' => Scheduled(u, v) \/ v = w
    BY <1>0, <2>1 DEF Scheduled
  <2> QED BY <1>0, <2>1, <2>2 DEF ClockInv
<1>4. ASSUME NEW t \in Tasks, PollSleepPending(t) \/ PollTimedPending(t)
      PROVE  ClockInv'
  BY <1>0, <1>3, <1>4 DEF PollSleepPending, PollTimedPending
<1>5. ASSUME NEW t \in Tasks,
             \/ Spawn(t) \/ Lock(t) \/ Unlock(t) \/ Finish(t) \/ Wait(t)
             \/ PollSleepReady(t) \/ SleepPanics(t) \/ PollWoken(t)
             \/ PollTimedOut(t) \/ PollWaitPending(t)
             \/ \E d \in Durations : Sleep(t, d) \/ WaitWithTimeout(t, d)
      PROVE  ClockInv'
  BY <1>1, <1>5
     DEF Spawn, Lock, Unlock, Finish, Wait, PollSleepReady, SleepPanics,
         PollWoken, PollTimedOut, PollWaitPending, Sleep, WaitWithTimeout
<1>6. CASE ExecStep \/ NotifyOne \/ NotifyAll \/ UNCHANGED vars
  BY <1>1, <1>6 DEF ExecStep, Execute, BeginPoll, NotifyOne, NotifyAll, vars
<1> QED
  BY <1>2, <1>4, <1>5, <1>6 DEF Next, TaskStep, WaitStep

LEMMA FreshNext ==
  TypeOK /\ WaitInv /\ FreshInv /\ [Next]_vars => FreshInv'
<1> SUFFICES ASSUME TypeOK, WaitInv, FreshInv, [Next]_vars
             PROVE  FreshInv'
  OBVIOUS
<1> USE NoneAssumption DEF execVars, timerVars, syncVars, taskVars
<1>1. ASSUME UNCHANGED <<now, waiters, woken, waits>>,
             \A u \in Tasks : st'[u] = "timed" =>
               \/ st[u] = "timed" /\ deadline'[u] = deadline[u]
               \/ now < deadline'[u]
      PROVE  FreshInv'
  <2>1. \A u \in Tasks : Entry(u)' = Entry(u)
    BY <1>1 DEF Entry
  <2> QED BY <1>1, <2>1 DEF FreshInv
<1>2. CASE Advance
  <2>1. UNCHANGED <<waiters, woken, waits, st>> /\ running = None
    BY <1>2 DEF Advance, BatchDone
  <2>2. \A u \in Tasks : Entry(u)' = Entry(u) /\ running # u
    BY <2>1 DEF Entry
  <2> QED BY <2>1, <2>2 DEF WaitInv, Suspended, FreshInv
<1>3. ASSUME NEW t \in Tasks, NEW s \in States \ {"timed"},
             st' = [st EXCEPT ![t] = s],
             \A u \in Tasks \ {t} : deadline'[u] = deadline[u],
             UNCHANGED <<now, waiters, woken, waits>>
      PROVE  FreshInv'
  BY <1>1, <1>3 DEF TypeOK
<1>4. ASSUME NEW t \in Tasks,
             \/ Lock(t) \/ Unlock(t) \/ PollSleepReady(t) \/ PollWoken(t)
             \/ PollTimedOut(t) \/ \E d \in Durations : Sleep(t, d)
      PROVE  FreshInv'
  <2>1. PICK s \in {"run", "hold", "sleep"} : st' = [st EXCEPT ![t] = s]
    BY <1>4 DEF Lock, Unlock, PollSleepReady, PollWoken, PollTimedOut, Sleep
  <2>2. UNCHANGED <<now, waiters, woken, waits>>
    BY <1>4 DEF Lock, Unlock, PollSleepReady, PollWoken, PollTimedOut, Sleep
  <2>3. \A u \in Tasks \ {t} : deadline'[u] = deadline[u]
    BY <1>4 DEF Lock, Unlock, PollSleepReady, PollWoken, PollTimedOut, Sleep,
                NewSleep, EndSleep, TypeOK
  <2> QED BY <1>3, <2>1, <2>2, <2>3 DEF States
<1>5. ASSUME NEW t \in Tasks, BeginWait(t),
             NEW s \in {"wait", "timed"}, st' = [st EXCEPT ![t] = s],
             s = "timed" => now < deadline'[t],
             \A u \in Tasks \ {t} : deadline'[u] = deadline[u],
             UNCHANGED <<now, waiters, woken>>
      PROVE  FreshInv'
  <2>1. \A u \in Tasks \ {t} : Entry(u)' = Entry(u) /\ st'[u] = st[u]
    BY <1>5 DEF BeginWait, Entry, TypeOK
  <2>2. st'[t] = s
    BY <1>5 DEF TypeOK
  <2> QED BY <1>5, <2>1, <2>2 DEF FreshInv
<1>6. ASSUME NEW t \in Tasks, Wait(t)
      PROVE  FreshInv'
  BY <1>5, <1>6 DEF Wait
<1>7. ASSUME NEW t \in Tasks, NEW d \in Durations, WaitWithTimeout(t, d)
      PROVE  FreshInv'
  <2>1. NewSleep(t, d) /\ BeginWait(t) /\ st' = [st EXCEPT ![t] = "timed"]
        /\ UNCHANGED <<now, waiters, woken>>
    BY <1>7 DEF WaitWithTimeout
  <2>2. now < deadline'[t] /\ \A u \in Tasks \ {t} : deadline'[u] = deadline[u]
    <3>1. now < TimeAdd(now, d)
      BY <2>1, SleepIsLater DEF NewSleep, TypeOK, TimerTypeOK, Times
    <3> QED BY <2>1, <3>1 DEF NewSleep, TypeOK
  <2> QED BY <1>5, <2>1, <2>2
<1>8. ASSUME NEW t \in Tasks, PollWaitPending(t) \/ PollTimedPending(t)
      PROVE  FreshInv'
  <2>1. Register(t) /\ UNCHANGED <<now, woken, taskVars>>
    BY <1>8 DEF PollWaitPending, PollTimedPending, PushEvent
  <2>2. \A u \in Tasks : Entry(u)' = Entry(u)
    BY <2>1 DEF Entry
  <2> QED BY <2>1, <2>2, RegisterContains DEF FreshInv
<1>9. CASE NotifyOne \/ NotifyAll
  <2>1. UNCHANGED <<now, taskVars>>
    BY <1>9 DEF NotifyOne, NotifyAll
  <2>2. \A u \in Tasks : Entry(u)' = Entry(u)
    BY <2>1 DEF Entry
  <2>3. /\ woken \subseteq woken'
        /\ \A u \in Tasks : Contains(waiters, Entry(u)) /\ Entry(u) \notin woken'
             => Contains(waiters', Entry(u))
    BY <1>9, NotifyOneKeeps, NotifyAllKeeps
  <2> QED BY <2>1, <2>2, <2>3 DEF FreshInv
<1>10. ASSUME NEW t \in Tasks,
              Spawn(t) \/ Finish(t) \/ PollSleepPending(t) \/ SleepPanics(t)
       PROVE  FreshInv'
  BY <1>1, <1>10 DEF Spawn, Finish, PollSleepPending, SleepPanics, PushEvent
<1>11. CASE ExecStep \/ UNCHANGED vars
  BY <1>1, <1>11 DEF ExecStep, Execute, BeginPoll, vars
<1> QED
  BY <1>2, <1>4, <1>6, <1>7, <1>8, <1>9, <1>10, <1>11
     DEF Next, TaskStep, WaitStep

-----------------------------------------------------------------------------
(* What each step does to the queue and to the notified tasks.             *)

LEMMA NextQueueIs == WaitQueue' = QueueOf(waiters', LivePos')
<1>1. (WaitQueue = QueueOf(waiters, LivePos))'
  BY QueueIs, PTL
<1> QED BY <1>1

(* A step that leaves the list alone and the waits of all tasks changes    *)
(* nothing.                                                                *)
LEMMA SameLive ==
  ASSUME TypeOK, UNCHANGED <<waiters, woken>>,
         \A i \in DOMAIN waiters : Live(waiters[i])' <=> Live(waiters[i])
  PROVE  LivePos' = LivePos /\ WaitQueue' = WaitQueue
<1>1. LivePos' = LivePos
  BY DEF LivePos
<1> QED BY <1>1, QueueIs, NextQueueIs

LEMMA QueueStays ==
  ASSUME TypeOK, UNCHANGED <<waiters, woken>>,
         \A u \in Tasks : /\ st'[u] \in {"wait", "timed"} <=> st[u] \in {"wait", "timed"}
                          /\ waits'[u] = waits[u]
  PROVE  WaitQueue' = WaitQueue /\ Notified' = Notified
<1>1. \A u \in Tasks : Entry(u)' = Entry(u)
  BY DEF Entry
<1>2. \A i \in DOMAIN waiters : waiters[i].task \in Tasks
  BY LivePosType
<1>3. \A i \in DOMAIN waiters : Live(waiters[i])' <=> Live(waiters[i])
  BY <1>1, <1>2 DEF Live
<1>4. Notified' = Notified
  BY <1>1 DEF Notified
<1> QED BY <1>3, <1>4, SameLive

(* A wait that begins is not in the queue before its first poll.           *)
LEMMA WaitBegins ==
  ASSUME TypeOK, EntryInv, NEW t \in Tasks, BeginWait(t),
         NEW s \in {"wait", "timed"}, st' = [st EXCEPT ![t] = s],
         UNCHANGED <<waiters, woken>>
  PROVE  /\ WaitQueue' = WaitQueue /\ Notified' = Notified
         /\ t \notin ToSet(WaitQueue) \cup Notified
<1>1. /\ waits' = [waits EXCEPT ![t] = waits[t] + 1]
      /\ st[t] = "hold"
      /\ \A u \in Tasks : waits[u] \in Nat
      /\ waits \in [Tasks -> 0 .. MaxWaits] /\ st \in [Tasks -> States]
      /\ woken \subseteq Entries
  BY CondvarAssumption DEF BeginWait, TypeOK
<1>2. \A u \in Tasks \ {t} : Entry(u)' = Entry(u) /\ st'[u] = st[u]
  BY <1>1 DEF Entry
<1>3. /\ Entry(t)' = [task |-> t, wait |-> waits[t] + 1]
      /\ st'[t] \in {"wait", "timed"}
  BY <1>1 DEF Entry
<1>4. ~(waits[t] + 1 <= waits[t])
  BY <1>1
<1>5. \A i \in DOMAIN waiters : waiters[i] # Entry(t)'
  BY <1>3, <1>4 DEF EntryInv
<1>6. Entry(t)' \notin woken
  BY <1>3, <1>4 DEF EntryInv
<1>7. \A i \in DOMAIN waiters : waiters[i].task \in Tasks
  BY LivePosType
<1>8. \A i \in DOMAIN waiters : Live(waiters[i])' <=> Live(waiters[i])
  BY <1>1, <1>2, <1>5, <1>7 DEF Live
<1>9. Notified' = Notified
  BY <1>1, <1>2, <1>6 DEF Notified
<1>10. t \notin ToSet(WaitQueue) \cup Notified
  <2>1. \A i \in LivePos : waiters[i].task # t
    BY <1>1, LivePosType DEF Live
  <2> QED BY <1>1, <2>1, QueueType DEF Notified
<1> QED BY <1>8, <1>9, <1>10, SameLive

LEMMA PollWokenReturns ==
  ASSUME TypeOK, NEW t \in Tasks, PollWoken(t)
  PROVE  /\ t \in Notified
         /\ WaitQueue' = WaitQueue /\ Notified' = Notified \ {t}
<1>1. /\ st' = [st EXCEPT ![t] = "hold"] /\ st[t] \in {"wait", "timed"}
      /\ Entry(t) \in woken /\ UNCHANGED <<waiters, woken, waits>>
      /\ st \in [Tasks -> States]
  BY DEF PollWoken, TypeOK
<1>2. \A u \in Tasks : Entry(u)' = Entry(u)
  BY <1>1 DEF Entry
<1>3. \A i \in DOMAIN waiters : waiters[i].task \in Tasks
  BY LivePosType
<1>4. \A i \in DOMAIN waiters : Live(waiters[i])' <=> Live(waiters[i])
  BY <1>1, <1>2, <1>3 DEF Live
<1>5. t \in Notified /\ Notified' = Notified \ {t}
  BY <1>1, <1>2 DEF Notified
<1> QED BY <1>1, <1>4, <1>5, SameLive


(* A wait that times out is registered, and it leaves the queue wherever   *)
(* it stands.                                                              *)
LEMMA PollTimedOutLeaves ==
  ASSUME TypeOK, FreshInv, NEW t \in Tasks, PollTimedOut(t)
  PROVE  /\ Notified' = Notified
         /\ \E l \in DOMAIN WaitQueue :
              WaitQueue[l] = t /\ WaitQueue' = RemoveAt(WaitQueue, l)
<1>1. /\ st' = [st EXCEPT ![t] = "hold"] /\ st[t] = "timed"
      /\ Entry(t) \notin woken /\ UNCHANGED <<waiters, woken, waits>>
      /\ st \in [Tasks -> States]
  BY DEF PollTimedOut, TypeOK
<1>2. \A u \in Tasks : Entry(u)' = Entry(u)
  BY <1>1 DEF Entry
<1>3. /\ \A i \in DOMAIN waiters : waiters[i].task \in Tasks
      /\ DOMAIN waiters = 1 .. Len(waiters) /\ Len(waiters) \in Nat
  BY LivePosType
<1>4. \A i \in DOMAIN waiters :
        Live(waiters[i])' <=> Live(waiters[i]) /\ waiters[i].task # t
  BY <1>1, <1>2, <1>3 DEF Live
<1>5. Notified' = Notified
  BY <1>1, <1>2 DEF Notified
<1>6. LivePos' = {i \in LivePos : waiters[i].task # t}
  BY <1>1, <1>4 DEF LivePos
<1>7. PICK p \in LivePos : waiters[p].task = t
  <2>1. Contains(waiters, Entry(t))
    BY <1>1 DEF FreshInv, PollTimedOut, Elapsed, TypeOK, TimerTypeOK, Times
  <2>2. PICK i \in DOMAIN waiters : waiters[i] = Entry(t)
    BY <1>3, <2>1 DEF Contains
  <2>3. PICK j \in Firsts(waiters) : waiters[j] = Entry(t)
    BY <1>1, <2>2, FirstsElements DEF TypeOK
  <2>4. Entry(t).task = t
    BY DEF Entry
  <2>5. j \in LivePos /\ waiters[j].task = t
    BY <1>1, <2>3, <2>4 DEF Firsts, LivePos, Live
  <2> QED BY <2>5
<1>8. \E l \in DOMAIN WaitQueue :
        WaitQueue[l] = t /\ WaitQueue' = RemoveAt(WaitQueue, l)
  <2>2. ASSUME NEW i \in LivePos, waiters[i].task = t
        PROVE  i = p
    <3>1. waiters[i] = Entry(t) /\ waiters[p] = Entry(t)
      BY <1>7, <2>2, LivePosType DEF Live
    <3>2. i \in Nat /\ p \in Nat /\ i >= 1 /\ p >= 1
      BY <1>3, LivePosType
    <3>3. /\ p \in 1 .. i - 1 => waiters[p] # waiters[i]
          /\ i \in 1 .. p - 1 => waiters[i] # waiters[p]
      BY <1>7, <2>2 DEF LivePos
    <3> QED BY <3>1, <3>2, <3>3
  <2>3. LivePos' = LivePos \ {p}
    BY <1>6, <1>7, <2>2
  <2> DEFINE N == Cardinality(LivePos)
  <2>4. PICK l \in 1 .. N :
          /\ At(LivePos, l) = p
          /\ QueueOf(waiters, LivePos \ {p}) = Without(waiters, LivePos, l)
    BY <1>7, LivePosType, QueueOfRemove
  <2>5. /\ WaitQueue \in Seq(Tasks) /\ Len(WaitQueue) = N
        /\ DOMAIN WaitQueue = 1 .. N
        /\ \A k \in 1 .. N : WaitQueue[k] = waiters[At(LivePos, k)].task
    BY QueueType
  <2> HIDE DEF N
  <2>6. /\ DOMAIN RemoveAt(WaitQueue, l) = 1 .. N - 1
        /\ \A j \in 1 .. N - 1 :
             RemoveAt(WaitQueue, l)[j] =
               IF j < l THEN WaitQueue[j] ELSE WaitQueue[j + 1]
        /\ RemoveAt(WaitQueue, l) \in Seq(Tasks)
        /\ N \in Nat
    BY <2>5, RemoveAtElements
  <2>7. WaitQueue' =
          [k \in 1 .. N - 1 |-> waiters[At(LivePos, IF k < l THEN k ELSE k + 1)].task]
    BY <1>1, <2>3, <2>4, NextQueueIs DEF Without, N
  <2>8. RemoveAt(WaitQueue, l) =
          [k \in 1 .. N - 1 |-> waiters[At(LivePos, IF k < l THEN k ELSE k + 1)].task]
    <3> DEFINE r == RemoveAt(WaitQueue, l)
    <3>1. r = [k \in 1 .. N - 1 |-> r[k]]
      BY <2>6
    <3>2. \A k \in 1 .. N - 1 :
            r[k] = waiters[At(LivePos, IF k < l THEN k ELSE k + 1)].task
      <4>1. ASSUME NEW k \in 1 .. N - 1
            PROVE  r[k] = waiters[At(LivePos, IF k < l THEN k ELSE k + 1)].task
        <5>1. k \in 1 .. N /\ k + 1 \in 1 .. N
          BY <2>6
        <5> QED BY <2>5, <2>6, <5>1
      <4> QED BY <4>1
    <3> HIDE DEF r
    <3> QED BY <3>1, <3>2 DEF r
  <2>9. l \in DOMAIN WaitQueue /\ WaitQueue[l] = t
    BY <1>7, <2>4, <2>5
  <2>10. WaitQueue' = RemoveAt(WaitQueue, l)
    BY <2>7, <2>8
  <2> QED BY <2>9, <2>10
<1> QED BY <1>5, <1>8

(* The first pending poll of a wait puts its task at the end of the queue, *)
(* a later one changes nothing.                                            *)
LEMMA PendingPollEnters ==
  ASSUME TypeOK, NEW t \in Tasks, st[t] \in {"wait", "timed"}, Register(t),
         Entry(t) \notin woken, UNCHANGED <<woken, st, waits>>
  PROVE  /\ Notified' = Notified
         /\ \/ WaitQueue' = WaitQueue
            \/ /\ t \notin ToSet(WaitQueue) \cup Notified
               /\ WaitQueue' = Append(WaitQueue, t)
<1> DEFINE m == Len(waiters) + 1
<1>1. /\ \A i \in DOMAIN waiters : waiters[i].task \in Tasks
      /\ DOMAIN waiters = 1 .. Len(waiters) /\ Len(waiters) \in Nat
      /\ IsFiniteSet(LivePos) /\ LivePos \subseteq Nat
      /\ LivePos \subseteq 1 .. Len(waiters)
  BY LivePosType
<1>2. /\ DOMAIN (waiters') = DOMAIN waiters \cup {m}
      /\ \A i \in DOMAIN waiters : waiters'[i] = waiters[i]
      /\ waiters'[m] = Entry(t) /\ m \in Nat
      /\ \A i \in DOMAIN waiters : i < m
  BY <1>1, EntryType, AppendElements DEF Register, TypeOK
<1>3. \A e : Live(e)' <=> Live(e)
  BY DEF Live, Entry
<1>4. Live(Entry(t)) /\ Entry(t).task = t
  BY DEF Live, Entry
<1>5. Notified' = Notified /\ t \notin Notified
  BY DEF Notified, Entry
<1>6. ASSUME NEW i \in DOMAIN waiters
      PROVE  i \in LivePos' <=> i \in LivePos
  <2>1. \A j \in 1 .. i - 1 : j \in DOMAIN waiters
    BY <1>1
  <2>2. \A j \in 1 .. i - 1 : waiters'[j] = waiters[j]
    BY <1>2, <2>1
  <2> QED BY <1>2, <1>3, <2>2 DEF LivePos
<1>7. m \in LivePos' <=> \A j \in DOMAIN waiters : waiters[j] # Entry(t)
  <2>1. \A j : j \in 1 .. m - 1 <=> j \in DOMAIN waiters
    BY <1>1
  <2>2. m \in LivePos' <=> \A j \in 1 .. m - 1 : waiters'[j] # Entry(t)
    BY <1>2, <1>3, <1>4 DEF LivePos
  <2> QED BY <1>2, <2>1, <2>2
<1>8. LivePos' \subseteq DOMAIN waiters \cup {m}
  BY <1>2 DEF LivePos
<1>9. \A i \in LivePos : i < m /\ waiters'[i] = waiters[i]
  BY <1>1, <1>2
<1> HIDE DEF m
<1>10. CASE m \notin LivePos'
  <2>1. LivePos' = LivePos
    BY <1>1, <1>6, <1>8, <1>10
  <2> QED BY <1>1, <1>5, <1>9, <2>1, QueueOfSame, QueueIs, NextQueueIs
<1>11. CASE m \in LivePos'
  <2>1. LivePos' = LivePos \cup {m}
    BY <1>1, <1>6, <1>8, <1>11
  <2>2. PICK list : list = waiters'
    OBVIOUS
  <2>3. \A i \in LivePos : i < m /\ list[i] = waiters[i]
    BY <1>9, <2>2
  <2>4. QueueOf(list, LivePos') = Extended(QueueOf(waiters, LivePos), t)
    <3>1. t = list[m].task
      BY <1>2, <1>4, <2>2
    <3>2. PICK S, T : S = LivePos /\ T = LivePos'
      OBVIOUS
    <3>3. PICK n \in Nat : n = m
      BY <1>2
    <3>4. PICK old : old = waiters
      OBVIOUS
    <3>5. IsFiniteSet(S) /\ S \subseteq Nat
      BY <1>1, <3>2
    <3>6. T = S \cup {n} /\ t = list[n].task
      BY <2>1, <3>1, <3>2, <3>3
    <3>7. \A i \in S : i < n /\ list[i] = old[i]
      BY <2>3, <3>2, <3>3, <3>4
    <3>8. QueueOf(list, T) = Extended(QueueOf(old, S), t)
      BY ONLY <3>5, <3>6, <3>7, QueueOfAppend
    <3> QED BY <3>2, <3>4, <3>8
  <2>5. WaitQueue' = Append(WaitQueue, t)
    BY <2>2, <2>4, QueueIs, NextQueueIs DEF Extended
  <2>6. t \notin ToSet(WaitQueue)
    <3>1. \A i \in LivePos : waiters[i].task # t
      BY <1>1, <1>7, <1>11, LivePosType DEF Live
    <3> QED BY <3>1, QueueType
  <2> QED BY <1>5, <2>5, <2>6
<1> QED BY <1>10, <1>11


(* notify_one drops the entries woken before and wakes the first other     *)
(* one: the first task of the queue, or an entry whose wait is over.       *)
LEMMA NotifyOneTakesFirst ==
  ASSUME TypeOK, NotifyOne
  PROVE  \/ WaitQueue' = WaitQueue /\ Notified' = Notified
         \/ /\ WaitQueue # <<>>
            /\ WaitQueue' = Tail(WaitQueue)
            /\ Notified' = Notified \cup {Head(WaitQueue)}
<1>1. /\ \A i \in DOMAIN waiters : waiters[i] \in Entries /\ waiters[i].task \in Tasks
      /\ DOMAIN waiters = 1 .. Len(waiters) /\ Len(waiters) \in Nat
      /\ IsFiniteSet(LivePos) /\ LivePos \subseteq Nat
      /\ LivePos \subseteq 1 .. Len(waiters)
      /\ LivePos \subseteq Unwoken
      /\ waiters \in Seq(Entries)
  BY LivePosType DEF Live, Unwoken, TypeOK
<1>2. UNCHANGED <<st, waits>>
  BY DEF NotifyOne, taskVars
<1>3. \A u \in Tasks : Entry(u)' = Entry(u) /\ Entry(u).task = u
  BY <1>2 DEF Entry
<1>4. CASE Unwoken = {} /\ waiters' = <<>> /\ woken' = woken
  <2>1. LivePos = {} /\ LivePos' = {}
    BY <1>1, <1>4 DEF LivePos
  <2>2. WaitQueue' = WaitQueue
    BY <1>1, <2>1, QueueOfSame, QueueIs, NextQueueIs
  <2> QED BY <1>2, <1>3, <1>4, <2>2 DEF Notified
<1>5. ASSUME NEW i \in 1 .. Len(waiters),
             i \in Unwoken, \A j \in Unwoken : i <= j,
             waiters' \in Seq(Entries), Len(waiters') = Len(waiters) - i,
             \A j \in 1 .. Len(waiters) - i : waiters'[j] = waiters[i + j],
             woken' = woken \cup {waiters[i]}
      PROVE  \/ WaitQueue' = WaitQueue /\ Notified' = Notified
             \/ /\ WaitQueue # <<>>
                /\ WaitQueue' = Tail(WaitQueue)
                /\ Notified' = Notified \cup {Head(WaitQueue)}
  <2>1. DOMAIN (waiters') = 1 .. Len(waiters) - i
    BY <1>5
  <2>2. \A e : e.task \in Tasks => (Live(e)' <=> Live(e) /\ e # waiters[i])
    BY <1>2, <1>3, <1>5 DEF Live
  <2>3. ASSUME NEW j \in 1 .. Len(waiters) - i
        PROVE  j \in LivePos' <=> i + j \in LivePos
    <3>1. /\ i + j \in DOMAIN waiters /\ waiters'[j] = waiters[i + j]
          /\ i \in 1 .. (i + j) - 1
      BY <1>1, <1>5
    <3>2. PICK e : e = waiters[i + j]
      OBVIOUS
    <3>2a. Live(e)' <=> Live(e) /\ e # waiters[i]
      BY <1>1, <2>2, <3>1, <3>2
    <3>3. ASSUME Live(waiters[i + j]), waiters[i + j] # waiters[i],
                 \A k \in 1 .. j - 1 : waiters'[k] # waiters'[j],
                 NEW k \in 1 .. (i + j) - 1
          PROVE  waiters[k] # waiters[i + j]
      <4>1. CASE k < i
        <5>1. k \in DOMAIN waiters /\ k \notin Unwoken
          BY <1>1, <1>5, <4>1
        <5> QED BY <3>3, <5>1 DEF Unwoken, Live
      <4>2. CASE k > i
        <5>1. k - i \in 1 .. j - 1 /\ k - i \in 1 .. Len(waiters) - i
              /\ i + (k - i) = k
          BY <4>2
        <5>2. waiters'[k - i] = waiters[k]
          BY <1>5, <5>1
        <5> QED BY <3>1, <3>3, <5>1, <5>2
      <4>3. CASE k = i
        BY <3>3, <4>3
      <4> QED BY <4>1, <4>2, <4>3
    <3>4. ASSUME \A k \in 1 .. (i + j) - 1 : waiters[k] # waiters[i + j],
                 NEW k \in 1 .. j - 1
          PROVE  waiters'[k] # waiters'[j]
      <4>1. i + k \in 1 .. (i + j) - 1 /\ waiters'[k] = waiters[i + k]
        BY <1>1, <1>5
      <4> QED BY <3>1, <3>4, <4>1
    <3>5. i + j \in LivePos <=>
            Live(waiters[i + j]) /\ \A k \in 1 .. (i + j) - 1 : waiters[k] # waiters[i + j]
      BY <3>1 DEF LivePos
    <3>6. j \in LivePos' <=>
            Live(e)' /\ \A k \in 1 .. j - 1 : waiters'[k] # waiters'[j]
      <4>1. e = waiters'[j]
        BY <3>1, <3>2
      <4> QED BY <2>1, <4>1 DEF LivePos
    <3> QED BY <3>1, <3>2a, <3>2, <3>3, <3>4, <3>5, <3>6
  <2> DEFINE rest == LivePos \ {i}
  <2>4. \A j \in rest : j > i
    BY <1>1, <1>5
  <2>5. LivePos' = {j \in Nat : j + i \in rest}
    <3>1. LivePos' \subseteq 1 .. Len(waiters) - i
      BY <2>1 DEF LivePos
    <3>2. ASSUME NEW j \in Nat, j + i \in rest
          PROVE  j \in 1 .. Len(waiters) - i /\ i + j = j + i
      BY <1>1, <2>4, <3>2
    <3>3. ASSUME NEW j \in 1 .. Len(waiters) - i
          PROVE  i + j = j + i /\ j + i # i /\ j \in Nat
      OBVIOUS
    <3> HIDE DEF rest
    <3>4. \A j \in 1 .. Len(waiters) - i : j \in LivePos' <=> j + i \in rest
      BY <2>3, <3>3 DEF rest
    <3> QED BY <3>1, <3>2, <3>3, <3>4
  <2>6. WaitQueue' = QueueOf(waiters, rest)
    <3>1. PICK list : list = waiters'
      OBVIOUS
    <3>2. PICK d \in Nat : d = i
      BY <1>1
    <3>3. PICK S \in SUBSET Nat : S = rest
      BY <1>1
    <3>4. IsFiniteSet(S)
      BY <1>1, <3>3, FS_Subset
    <3>6. \A j \in S : j > d /\ list[j - d] = waiters[j]
      <4>1. ASSUME NEW j \in rest
            PROVE  j - i \in 1 .. Len(waiters) - i /\ i + (j - i) = j
        BY <1>1, <2>4
      <4> HIDE DEF rest
      <4> QED BY <1>5, <2>4, <3>1, <3>2, <3>3, <4>1
    <3> HIDE DEF rest
    <3>7. LivePos' = Shifted(S, d)
      BY <2>5, <3>2, <3>3 DEF Shifted
    <3>8. PICK old : old = waiters
      OBVIOUS
    <3>9. \A j \in S : j > d /\ list[j - d] = old[j]
      BY <3>6, <3>8
    <3>10. QueueOf(list, Shifted(S, d)) = QueueOf(old, S)
      BY <3>4, <3>9, QueueOfShift
    <3> QED BY <3>1, <3>3, <3>7, <3>8, <3>10, NextQueueIs
  <2>7. CASE i \in LivePos
    <3>1. PICK l \in 1 .. Cardinality(LivePos) :
            /\ At(LivePos, l) = i /\ l = 1
            /\ QueueOf(waiters, rest) = Without(waiters, LivePos, l)
      BY <1>1, <1>5, <2>7, QueueOfRemove
    <3>2. /\ WaitQueue \in Seq(Tasks) /\ Len(WaitQueue) = Cardinality(LivePos)
          /\ \A k \in 1 .. Cardinality(LivePos) :
               WaitQueue[k] = waiters[At(LivePos, k)].task
      BY QueueType
    <3> DEFINE N == Cardinality(LivePos)
    <3> HIDE DEF N
    <3>3. /\ N \in Nat /\ WaitQueue # <<>> /\ Head(WaitQueue) = WaitQueue[1]
          /\ Tail(WaitQueue) = [k \in 1 .. N - 1 |-> WaitQueue[k + 1]]
      <4>1. PICK q \in Seq(Tasks) : q = WaitQueue
        BY <3>2
      <4>2. Len(q) = N /\ 1 <= Len(q)
        BY <3>1, <3>2, <4>1 DEF N
      <4>3. N \in Nat /\ q # <<>> /\ Head(q) = q[1]
        BY <4>2
      <4>4. PICK r \in Seq(Tasks) : r = Tail(q)
        <5>1. Tail(q) \in Seq(Tasks)
          BY <4>3, TailElements
        <5> QED BY <5>1
      <4>5. Len(r) = N - 1 /\ \A k \in 1 .. N - 1 : r[k] = q[k + 1]
        BY <4>2, <4>3, <4>4
      <4>6. r = [k \in 1 .. N - 1 |-> r[k]]
        BY <4>5
      <4>7. r = [k \in 1 .. N - 1 |-> q[k + 1]]
        BY <4>5, <4>6
      <4> QED BY <4>1, <4>3, <4>4, <4>7
    <3>4. Head(WaitQueue) = waiters[i].task
      BY <3>1, <3>2, <3>3
    <3>5. \A k \in 1 .. N - 1 :
            WaitQueue[k + 1] = waiters[At(LivePos, IF k < l THEN k ELSE k + 1)].task
      BY <3>1, <3>2, <3>3 DEF N
    <3>6. WaitQueue' = Tail(WaitQueue)
      BY <2>6, <3>1, <3>3, <3>5 DEF Without, N
    <3>7. Notified' = Notified \cup {waiters[i].task}
      <4>1. waiters[i] = Entry(waiters[i].task)
            /\ st[waiters[i].task] \in {"wait", "timed"}
            /\ waiters[i].task \in Tasks
        BY <1>1, <2>7, LivePosType DEF Live
      <4> QED BY <1>2, <1>3, <1>5, <4>1 DEF Notified
    <3> QED BY <3>3, <3>4, <3>6, <3>7
  <2>8. CASE i \notin LivePos
    <3>1. rest = LivePos
      BY <2>8
    <3>2. ~Live(waiters[i])
      <4>1. \A j \in 1 .. i - 1 : j \in DOMAIN waiters /\ j \notin Unwoken
        BY <1>1, <1>5
      <4>2. \A j \in 1 .. i - 1 : waiters[j] # waiters[i]
        BY <1>5, <4>1 DEF Unwoken
      <4> QED BY <1>1, <2>8, <4>2 DEF LivePos
    <3>3. waiters[i] \notin woken
      BY <1>5 DEF Unwoken
    <3>4. \A u \in Tasks : st[u] \in {"wait", "timed"} => Entry(u) # waiters[i]
      BY <1>3, <3>2, <3>3 DEF Live
    <3>5. Notified' = Notified
      BY <1>2, <1>3, <1>5, <3>4 DEF Notified
    <3> QED BY <2>6, <3>1, <3>5, QueueIs
  <2> QED BY <2>7, <2>8
<1>6. \/ Unwoken = {} /\ waiters' = <<>> /\ woken' = woken
      \/ \E i \in 1 .. Len(waiters) :
           /\ i \in Unwoken /\ \A j \in Unwoken : i <= j
           /\ waiters' \in Seq(Entries) /\ Len(waiters') = Len(waiters) - i
           /\ \A j \in 1 .. Len(waiters) - i : waiters'[j] = waiters[i + j]
           /\ woken' = woken \cup {waiters[i]}
  BY <1>1, NotifyOneEffect
<1> QED BY <1>4, <1>5, <1>6

(* notify_all empties the queue.                                           *)
LEMMA NotifyAllTakesEveryone ==
  ASSUME TypeOK, NotifyAll
  PROVE  /\ WaitQueue' = <<>>
         /\ Notified' = Notified \cup ToSet(WaitQueue)
<1>1. /\ waiters \in Seq(Entries) /\ ready \in Seq(Tasks)
      /\ UNCHANGED <<st, waits>>
  BY DEF TypeOK, ExecTypeOK, NotifyAll, taskVars
<1>2. /\ waiters' = <<>>
      /\ woken' = woken \cup {waiters[i] : i \in DOMAIN waiters}
  BY <1>1, NotifyAllEffect
<1>3. \A u \in Tasks : Entry(u)' = Entry(u) /\ Entry(u).task = u
  BY <1>1 DEF Entry
<1>4. WaitQueue' = <<>>
  <2>1. LivePos' = {}
    BY <1>2 DEF LivePos
  <2>2. WaitQueue' = [k \in 1 .. Cardinality({}) |-> waiters'[At({}, k)].task]
    BY <2>1, NextQueueIs DEF QueueOf
  <2>3. Cardinality({}) = 0
    BY FS_EmptySet
  <2> QED BY <2>2, <2>3
<1>5. ASSUME NEW u \in Tasks, st[u] \in {"wait", "timed"}, Entry(u) \notin woken
      PROVE  (\E i \in DOMAIN waiters : waiters[i] = Entry(u)) <=>
                u \in ToSet(WaitQueue)
  <2>1. ASSUME NEW i \in DOMAIN waiters, waiters[i] = Entry(u)
        PROVE  u \in ToSet(WaitQueue)
    <3>1. PICK j \in Firsts(waiters) : waiters[j] = Entry(u)
      BY <1>1, <1>5, <2>1, FirstsElements
    <3>2. j \in LivePos /\ waiters[j].task = u
      BY <1>3, <1>5, <3>1 DEF Firsts, LivePos, Live
    <3> QED BY <3>2, QueueType
  <2>2. ASSUME u \in ToSet(WaitQueue)
        PROVE  \E i \in DOMAIN waiters : waiters[i] = Entry(u)
    <3>1. PICK i \in LivePos : waiters[i].task = u
      BY <2>2, QueueType
    <3> QED BY <3>1, LivePosType DEF Live
  <2> QED BY <2>1, <2>2
<1>6. \A u \in ToSet(WaitQueue) : u \in Tasks /\ st[u] \in {"wait", "timed"}
                                  /\ Entry(u) \notin woken
  <2> SUFFICES ASSUME NEW i \in LivePos
               PROVE  /\ waiters[i].task \in Tasks
                      /\ st[waiters[i].task] \in {"wait", "timed"}
                      /\ Entry(waiters[i].task) \notin woken
    BY QueueType
  <2> QED BY LivePosType DEF Live
<1> QED BY <1>1, <1>2, <1>3, <1>4, <1>5, <1>6 DEF Notified


-----------------------------------------------------------------------------
(* The refinement.                                                         *)

(* When the wait of each task times out.                                   *)
Limit == [t \in Tasks |-> IF st[t] = "timed" THEN deadline[t] ELSE None]

LEMMA FifoStart == Init => Fifo!FifoInit
<1> SUFFICES ASSUME Init
             PROVE  Fifo!FifoInit
  OBVIOUS
<1>1. /\ LivePos = {} /\ Notified = {} /\ now = 0
      /\ Limit = [t \in Tasks |-> None]
  BY DEF Init, TimerInit, LivePos, Notified, Limit
<1>2. WaitQueue = [k \in 1 .. Cardinality({}) |-> waiters[At({}, k)].task]
  BY <1>1, QueueIs DEF QueueOf
<1>3. WaitQueue = <<>>
  BY <1>2, FS_EmptySet
<1> QED BY <1>1, <1>3 DEF Fifo!FifoInit, Notified, Limit

(* A step that neither begins nor ends a timed wait leaves the limits.     *)
LEMMA LimitStays ==
  ASSUME \A u \in Tasks : /\ st'[u] = "timed" <=> st[u] = "timed"
                          /\ st[u] = "timed" => deadline'[u] = deadline[u]
  PROVE  Limit' = Limit
BY DEF Limit

LEMMA LimitEnds ==
  ASSUME TypeOK, NEW t \in Tasks, st' = [st EXCEPT ![t] = "hold"], EndSleep(t)
  PROVE  Limit' = [Limit EXCEPT ![t] = None]
BY DEF TypeOK, EndSleep, Limit

LEMMA LimitBegins ==
  ASSUME TypeOK, NEW t \in Tasks, NEW d \in Durations, st[t] = "hold",
         st' = [st EXCEPT ![t] = "timed"], NewSleep(t, d)
  PROVE  /\ Limit[t] = None
         /\ \E w \in now + 1 .. MaxTime : Limit' = [Limit EXCEPT ![t] = w]
<1>1. deadline' = [deadline EXCEPT ![t] = TimeAdd(now, d)]
      /\ TimeAdd(now, d) \in now + 1 .. MaxTime
  BY SleepIsLater DEF NewSleep
<1>2. Limit' = [Limit EXCEPT ![t] = TimeAdd(now, d)]
  BY <1>1 DEF TypeOK, Limit
<1> QED BY <1>1, <1>2 DEF Limit

FifoInv == TypeOK /\ Inv /\ EntryInv /\ ClockInv /\ FreshInv

LEMMA FifoStep ==
  FifoInv /\ [Next]_vars
    => [Fifo!FifoNext]_<<now, WaitQueue, Notified, Limit>>
<1> SUFFICES ASSUME FifoInv, [Next]_vars,
                    ~UNCHANGED <<now, WaitQueue, Notified, Limit>>
             PROVE  Fifo!FifoNext
  OBVIOUS
<1> USE DEF execVars, timerVars, syncVars, taskVars
<1>0. /\ \A q : Fifo!ToSet(q) = ToSet(q)
      /\ \A q, i : Fifo!RemoveAt(q, i) = RemoveAt(q, i)
      /\ TypeOK /\ EntryInv /\ ClockInv /\ FreshInv
  BY DEF Fifo!ToSet, ToSet, Fifo!RemoveAt, RemoveAt, FifoInv
<1>1. ASSUME UNCHANGED <<now, waiters, woken, st, waits, deadline>>
      PROVE  FALSE
  BY <1>0, <1>1, QueueStays, LimitStays
<1>2. ASSUME NEW t \in Tasks,
             \/ Lock(t) \/ Unlock(t) \/ PollSleepReady(t)
             \/ \E d \in Durations : Sleep(t, d)
      PROVE  FALSE
  <2>1. PICK s \in {"run", "hold", "sleep"} : st' = [st EXCEPT ![t] = s]
    BY <1>2 DEF Lock, Unlock, PollSleepReady, Sleep
  <2>2. st[t] \in {"run", "hold", "sleep"} /\ UNCHANGED <<now, waiters, woken, waits>>
    BY <1>2 DEF Lock, Unlock, PollSleepReady, Sleep, InTask
  <2>3. \A u \in Tasks \ {t} : deadline'[u] = deadline[u]
    BY <1>0, <1>2
       DEF Lock, Unlock, PollSleepReady, Sleep, NewSleep, EndSleep, TypeOK
  <2>4. \A u \in Tasks :
          /\ st'[u] \in {"wait", "timed"} <=> st[u] \in {"wait", "timed"}
          /\ st'[u] = "timed" <=> st[u] = "timed"
          /\ st[u] = "timed" => u # t
          /\ waits'[u] = waits[u]
    BY <1>0, <2>1, <2>2 DEF TypeOK
  <2>5. WaitQueue' = WaitQueue /\ Notified' = Notified
    BY <1>0, <2>2, <2>4, QueueStays
  <2>6. Limit' = Limit
    BY <2>3, <2>4, LimitStays
  <2> QED BY <2>2, <2>5, <2>6
<1>3. ASSUME NEW t \in Tasks, Wait(t)
      PROVE  FALSE
  <2>1. /\ st' = [st EXCEPT ![t] = "wait"] /\ st[t] = "hold" /\ BeginWait(t)
        /\ UNCHANGED <<now, waiters, woken, deadline>>
    BY <1>3 DEF Wait, BeginWait
  <2>2. Limit' = Limit
    <3>1. \A u \in Tasks : st'[u] = "timed" <=> st[u] = "timed"
      BY <1>0, <2>1 DEF TypeOK
    <3> QED BY <2>1, <3>1, LimitStays
  <2> QED BY <1>0, <2>1, <2>2, WaitBegins
<1>4. ASSUME NEW t \in Tasks, NEW d \in Durations, WaitWithTimeout(t, d)
      PROVE  Fifo!SetLimit(t)
  <2>1. /\ st' = [st EXCEPT ![t] = "timed"] /\ st[t] = "hold"
        /\ BeginWait(t) /\ NewSleep(t, d) /\ UNCHANGED <<now, waiters, woken>>
    BY <1>4 DEF WaitWithTimeout, BeginWait
  <2>2. /\ WaitQueue' = WaitQueue /\ Notified' = Notified
        /\ t \notin ToSet(WaitQueue) \cup Notified
    BY <1>0, <2>1, WaitBegins
  <2>3. /\ Limit[t] = None
        /\ \E w \in now + 1 .. MaxTime : Limit' = [Limit EXCEPT ![t] = w]
    BY <1>0, <2>1, LimitBegins
  <2> QED BY <1>0, <2>1, <2>2, <2>3 DEF Fifo!SetLimit, Notified, Limit
<1>5. ASSUME NEW t \in Tasks, PollWoken(t)
      PROVE  Fifo!Return(t)
  <2>1. Limit' = [Limit EXCEPT ![t] = None] /\ now' = now
    BY <1>0, <1>5, LimitEnds DEF PollWoken
  <2> QED
    BY <1>0, <1>5, <2>1, PollWokenReturns
       DEF Fifo!Return, Fifo!Leave, Notified, Limit
<1>6. ASSUME NEW t \in Tasks, PollTimedOut(t)
      PROVE  Fifo!TimeOut(t)
  <2>1. Limit' = [Limit EXCEPT ![t] = None] /\ now' = now
    BY <1>0, <1>6, LimitEnds DEF PollTimedOut
  <2>2. Limit[t] # None /\ now >= Limit[t]
    BY <1>0, <1>6, CondvarAssumption DEF PollTimedOut, Elapsed, Limit, TypeOK
  <2>3. /\ Notified' = Notified
        /\ \E l \in DOMAIN WaitQueue :
             WaitQueue[l] = t /\ WaitQueue' = RemoveAt(WaitQueue, l)
    BY <1>0, <1>6, PollTimedOutLeaves
  <2> QED BY <1>0, <2>1, <2>2, <2>3 DEF Fifo!TimeOut, Fifo!Leave, Notified, Limit
<1>7. ASSUME NEW t \in Tasks, PollWaitPending(t) \/ PollTimedPending(t)
      PROVE  Fifo!Enter(t)
  <2>1. /\ st[t] \in {"wait", "timed"} /\ Register(t) /\ Entry(t) \notin woken
        /\ UNCHANGED <<now, woken, st, waits, deadline>>
    BY <1>7 DEF PollWaitPending, PollTimedPending, PushEvent
  <2>2. Limit' = Limit
    BY <2>1, LimitStays
  <2>3. /\ Notified' = Notified
        /\ \/ WaitQueue' = WaitQueue
           \/ /\ t \notin ToSet(WaitQueue) \cup Notified
              /\ WaitQueue' = Append(WaitQueue, t)
    BY <1>0, <2>1, PendingPollEnters
  <2> QED BY <1>0, <2>1, <2>2, <2>3 DEF Fifo!Enter, Notified, Limit
<1>8. ASSUME NotifyOne \/ NotifyAll
      PROVE  now' = now /\ Limit' = Limit
  <2>1. UNCHANGED <<now, st, deadline>>
    BY <1>8 DEF NotifyOne, NotifyAll
  <2> QED BY <2>1, LimitStays
<1>9. CASE NotifyOne
  <2>1. Fifo!NotifyFirst
    BY <1>0, <1>8, <1>9, NotifyOneTakesFirst DEF Fifo!NotifyFirst, Notified, Limit
  <2> QED BY <2>1 DEF Fifo!FifoNext
<1>10. CASE NotifyAll
  <2>1. WaitQueue' = <<>> /\ Notified' = Notified \cup ToSet(WaitQueue)
    BY <1>0, <1>10, NotifyAllTakesEveryone
  <2>2. WaitQueue # <<>>
    <3>1. ToSet(<<>>) = {}
      BY DEF ToSet
    <3> QED BY <1>8, <1>10, <2>1, <3>1
  <2>3. Fifo!NotifyEveryone
    BY <1>0, <1>8, <1>10, <2>1, <2>2 DEF Fifo!NotifyEveryone, Notified, Limit
  <2> QED BY <2>3 DEF Fifo!FifoNext
<1>11. CASE Advance
  <2>1. UNCHANGED <<waiters, woken, st, waits, deadline>>
    BY <1>11 DEF Advance
  <2>2. WaitQueue' = WaitQueue /\ Notified' = Notified /\ Limit' = Limit
    BY <1>0, <2>1, QueueStays, LimitStays
  <2>3. PICK t \in Tasks, w \in Times : PopEvent(t, w)
    BY <1>11 DEF Advance
  <2>4. now' \in Times /\ now <= now' /\ now \in Times
    BY <1>0, <2>3 DEF PopEvent, Earliest, ClockInv, TypeOK, TimerTypeOK
  <2>5. now' \in now + 1 .. MaxTime
    BY <2>2, <2>4, MaxTimeAssumption DEF Times
  <2> QED BY <2>2, <2>5 DEF Fifo!FifoNext, Fifo!Tick, Notified, Limit
<1>12. ASSUME NEW t \in Tasks,
              Spawn(t) \/ Finish(t) \/ PollSleepPending(t) \/ SleepPanics(t)
       PROVE  FALSE
  BY <1>1, <1>12 DEF Spawn, Finish, PollSleepPending, SleepPanics, PushEvent
<1>13. CASE ExecStep \/ UNCHANGED vars
  BY <1>1, <1>13 DEF ExecStep, Execute, BeginPoll, vars
<1>14. ASSUME NEW t \in Tasks, WaitStep(t)
       PROVE  Fifo!FifoNext
  BY <1>3, <1>4, <1>5, <1>6, <1>7, <1>14 DEF WaitStep, Fifo!FifoNext
<1>15. ASSUME NEW t \in Tasks, Spawn(t) \/ TaskStep(t)
       PROVE  Fifo!FifoNext
  BY <1>2, <1>12, <1>14, <1>15 DEF TaskStep
<1> QED BY <1>9, <1>10, <1>11, <1>13, <1>15 DEF Next

(* Notifications reach the tasks in the order in which they began to wait. *)
(* A wait ends only with a notification or, if it has a timeout, once that *)
(* time has come, although the list of the source holds duplicates and     *)
(* entries of waits that are over and both wake the task now and then.     *)
THEOREM CondvarIsFifo == Spec => ImplementsFifo
<1>1. Init => FifoInv
  BY TypeInit, LockInit, WaitInit, EntryInit, ClockInit DEF FifoInv, Inv
<1>2. FifoInv /\ [Next]_vars => FifoInv'
  BY TypeNext, LockNext, WaitNext, EntryNext, ClockNext, FreshNext
     DEF FifoInv, Inv
<1>3. FifoInv /\ [Next]_vars => [Fifo!FifoNext]_(Fifo!fifoVars)
  BY FifoStep DEF Fifo!fifoVars, Notified, Limit
<1> QED
  BY <1>1, <1>2, <1>3, FifoStart, PTL
     DEF Spec, ImplementsFifo, Fifo!FifoSpec
=============================================================================
