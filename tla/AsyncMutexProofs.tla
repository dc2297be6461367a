-------------------------- MODULE AsyncMutexProofs --------------------------
(***************************************************************************)
(* Proofs about AsyncMutex, for every set of tasks, every number of rounds *)
(* and with or without stop().                                             *)
(***************************************************************************)
EXTENDS AsyncMutex, ExecutorProofs, DataLemmas

-----------------------------------------------------------------------------
(* Types.                                                                  *)

LEMMA TypeInit == Init => TypeOK
<1> SUFFICES ASSUME Init
             PROVE  TypeOK
  OBVIOUS
<1>1. ExecTypeOK
  BY DEF Init, ExecInit, ExecTypeOK, FutureStates
<1>2. /\ st \in [Tasks -> States]
      /\ rounds \in [Tasks -> 0 .. MaxRounds]
      /\ fid \in [Tasks -> Nat]
  BY MutexAssumption DEF Init, States
<1>3. waiters \in Seq(Entries) /\ cond \in Seq(Entries)
  BY DEF Init
<1> QED BY <1>1, <1>2, <1>3 DEF Init, TypeOK

(* The two outcomes of the poll of a lock future.                          *)
LEMMA AcquireTyped ==
  ASSUME TypeOK, NEW id \in Nat, Acquire(id)
  PROVE  is_locked' \in BOOLEAN /\ waiters' \in Seq(Entries)
BY RemoveAtElements DEF TypeOK, Acquire

LEMMA EnqueueTyped ==
  ASSUME TypeOK, NEW id \in Nat, NEW t \in Tasks, Enqueue(id, t)
  PROVE  is_locked' \in BOOLEAN /\ waiters' \in Seq(Entries)
<1>1. [id |-> id, task |-> t] \in Entries
  BY DEF Entries
<1> QED BY <1>1, AppendElements DEF TypeOK, Enqueue

LEMMA DropGuardTyped ==
  ASSUME TypeOK, DropGuard
  PROVE  /\ ready' \in Seq(Tasks)
         /\ is_locked' \in BOOLEAN
         /\ UNCHANGED <<next_waiter_id, waiters>>
<1>1. waiters # <<>> => waiters[1] \in Entries
  BY DEF TypeOK
<1>2. waiters # <<>> => waiters[1].task \in Tasks
  BY <1>1 DEF Entries
<1>3. ready \in Seq(Tasks) /\ is_locked' = FALSE
  BY DEF TypeOK, ExecTypeOK, DropGuard
<1>4. waiters # <<>> => Append(ready, waiters[1].task) \in Seq(Tasks)
  BY <1>2, <1>3, AppendElements
<1> QED BY <1>3, <1>4 DEF DropGuard, Wake

LEMMA TypeNext == TypeOK /\ [Next]_vars => TypeOK'
<1> SUFFICES ASSUME TypeOK, [Next]_vars
             PROVE  TypeOK'
  OBVIOUS
<1> USE NoneAssumption, MutexAssumption
    DEF TypeOK, ExecTypeOK, FutureStates, States,
        execVars, lockVars, condVars, taskVars, stopVars
<1>1. CASE \E t \in Tasks : Spawn(t)
  BY <1>1, AppendElements DEF Spawn, SpawnTask, Wake
<1>2. CASE Execute
  BY <1>2 DEF Execute, TakeReady
<1>3. CASE BeginPoll
  <2>1. batch # <<>>
    BY <1>3 DEF BeginPoll, PollNext, SkipCompleted
  <2>2. Head(batch) \in Tasks /\ Tail(batch) \in Seq(Tasks)
    BY <2>1, TailElements
  <2> QED BY <1>3, <2>2 DEF BeginPoll, PollNext, SkipCompleted
<1>4. ASSUME NEW t \in Tasks, Fire(t)
      PROVE  TypeOK'
  BY <1>4, AppendElements DEF Fire, Wake
<1>5. ASSUME NEW t \in Tasks, Await(t) \/ Finish(t)
      PROVE  TypeOK'
  BY <1>5 DEF Await, Finish, ReturnPending, ReturnReady
<1>6. ASSUME NEW t \in Tasks, Lock(t)
      PROVE  TypeOK'
  BY <1>6 DEF Lock, NewId, CountRound
<1>7. ASSUME NEW t \in Tasks, PollLockAcquire(t)
      PROVE  TypeOK'
  BY <1>7, AcquireTyped DEF PollLockAcquire
<1>8. ASSUME NEW t \in Tasks, PollLockPending(t)
      PROVE  TypeOK'
  BY <1>8, EnqueueTyped DEF PollLockPending, ReturnPending
<1>9. ASSUME NEW t \in Tasks, Unlock(t)
      PROVE  TypeOK'
  BY <1>9, DropGuardTyped DEF Unlock
<1>10. ASSUME NEW t \in Tasks, Wait(t)
       PROVE  TypeOK'
  <2>1. rounds' \in [Tasks -> 0 .. MaxRounds]
    BY <1>10 DEF Wait, CountRound
  <2> QED BY <1>10, <2>1, DropGuardTyped DEF Wait
<1>11. ASSUME NEW t \in Tasks, PollCondPending(t)
       PROVE  TypeOK'
  <2>1. Entry(t) \in Entries
    BY DEF Entry, Entries
  <2> QED BY <1>11, <2>1, AppendElements DEF PollCondPending, ReturnPending
<1>12. ASSUME NEW t \in Tasks, PollCondWoken(t)
       PROVE  TypeOK'
  <2>1. next_waiter_id' \in Nat /\ fid' \in [Tasks -> Nat]
    BY <1>12 DEF PollCondWoken, NewId
  <2>2. is_locked' \in BOOLEAN /\ waiters' \in Seq(Entries)
    BY <1>12, AcquireTyped, EnqueueTyped DEF PollCondWoken
  <2> QED BY <1>12, <2>1, <2>2 DEF PollCondWoken, ReturnPending
<1>13. ASSUME NEW t \in Tasks, Notify(t)
       PROVE  TypeOK'
  BY <1>13 DEF Notify
<1>14. CASE NotifyEntry
  <2>1. cond # <<>> /\ cond' = Tail(cond)
    BY <1>14 DEF NotifyEntry
  <2>2. Head(cond) \in Entries /\ cond' \in Seq(Entries)
    BY <2>1, TailElements
  <2>3. Head(cond).task \in Tasks /\ Head(cond).id \in Nat
    BY <2>2 DEF Entries
  <2>4. UNCHANGED <<batch, running, taskVars, stopVars>>
    BY <1>14 DEF NotifyEntry
  <2>5. CASE /\ Wake(Head(cond).task)
             /\ woken' = woken \cup {Head(cond).id}
             /\ notify' = IF notify = "one" THEN "no" ELSE notify
             /\ UNCHANGED <<future, lockVars>>
    BY <2>2, <2>3, <2>4, <2>5, AppendElements DEF Wake
  <2>6. CASE DropWaker(Head(cond).task) /\ UNCHANGED <<woken, notify>>
    <3>1. /\ ready' \in Seq(Tasks) /\ is_locked' \in BOOLEAN
          /\ UNCHANGED <<next_waiter_id, waiters>>
      BY <2>6, DropGuardTyped DEF DropWaker
    <3>2. future' \in [Tasks -> FutureStates]
      BY <2>3, <2>6 DEF DropWaker
    <3> QED BY <2>2, <2>4, <2>6, <3>1, <3>2
  <2> QED BY <1>14, <2>5, <2>6 DEF NotifyEntry
<1>15. CASE NotifyEnd
  BY <1>15 DEF NotifyEnd
<1>16. CASE Stop
  <2>1. /\ ready' \in Seq(Tasks) /\ future' \in [Tasks -> FutureStates]
        /\ UNCHANGED <<batch, running, next_waiter_id, waiters, condVars,
                       taskVars>>
        /\ stopped' \in BOOLEAN
    BY <1>16 DEF Stop, ClearReady
  <2>2. is_locked' \in BOOLEAN /\ panicked' \in BOOLEAN
    <3>1. (waiters # <<>>) \in BOOLEAN
      OBVIOUS
    <3> QED BY <1>16, <3>1 DEF Stop
  <2> QED BY <2>1, <2>2
<1>17. CASE UNCHANGED vars
  BY <1>17 DEF vars
<1> QED
  BY <1>1, <1>2, <1>3, <1>4, <1>5, <1>6, <1>7, <1>8, <1>9, <1>10, <1>11,
     <1>12, <1>13, <1>14, <1>15, <1>16, <1>17
     DEF Next, ExecStep, NotifyStep, TaskStep

(* Every reachable state is well typed.                                    *)
THEOREM TypeCorrect == Spec => []TypeOK
BY TypeInit, TypeNext, PTL DEF Spec

-----------------------------------------------------------------------------
(* The inductive invariant.                                                *)

(* The task being polled has its future taken out.  A task that was not    *)
(* spawned or that completed neither waits nor holds the guard; one that   *)
(* awaits a lock future is suspended or being polled; what a task awaits   *)
(* besides the two primitives it awaits in its own code.  A notification   *)
(* is a loop in the code of the task being polled.                         *)
PollInv ==
  /\ running # None => future[running] = "none"
  /\ \A t \in Tasks :
       /\ future[t] = "unborn" \/ Completed(t) => st[t] = "run" /\ t \notin parked
       /\ st[t] \in {"lock", "relock"} => future[t] = "some" \/ running = t
       /\ t \in parked => st[t] \in {"run", "hold"}
  /\ notify # "no" => /\ running # None
                      /\ st[running] \in {"run", "hold"}
                      /\ running \notin parked

(* Nothing refers to a task before it is spawned and after it is dropped.  *)
RefInv ==
  \A t \in Tasks : future[t] \in {"unborn", "dropped"} =>
    ~Queued(t) /\ t \notin Held

(* The identifier of a lock future, or the flag of a wait, belongs to one  *)
(* task, and the entries of the condition variable know which.             *)
IdInv ==
  /\ \A t \in Tasks : st[t] # "run" => fid[t] < next_waiter_id
  /\ \A t, u \in Tasks :
       st[t] # "run" /\ st[u] # "run" /\ fid[t] = fid[u] => t = u
  /\ \A i \in DOMAIN cond : cond[i].id < next_waiter_id
  /\ \A i \in DOMAIN cond, t \in Tasks :
       st[t] # "run" /\ cond[i].id = fid[t] => cond[i].task = t

(* Flags are of waits that began, and an entry whose flag is not set is of *)
(* a task that still waits for it.                                         *)
CondInv ==
  /\ \A f \in woken : f < next_waiter_id
  /\ \A i \in DOMAIN cond : cond[i].id \notin woken =>
       cond[i] = Entry(cond[i].task) /\ st[cond[i].task] = "cond"

ExecInv == PollInv /\ RefInv /\ NoLostWakeup

LockInv == IdInv /\ MutualExclusion /\ WaitersAreBlocked

WakeInv == CondInv /\ HeadWaiterScheduled /\ NotifiedIsScheduled

Inv == ExecInv /\ LockInv /\ WakeInv

LEMMA InvInit == Init => Inv
<1> SUFFICES ASSUME Init
             PROVE  Inv
  OBVIOUS
<1>1. Held = {} /\ \A t \in Tasks : ~Queued(t)
  BY RangeEmpty DEF Init, ExecInit, Held, Queued
<1> QED
  BY <1>1
     DEF Init, ExecInit, Inv, ExecInv, LockInv, WakeInv, PollInv, RefInv,
         NoLostWakeup, IdInv, MutualExclusion, WaitersAreBlocked, CondInv,
         HeadWaiterScheduled, NotifiedIsScheduled, Completed, Guard, Blocked

(* The tasks that wakers outside the executor refer to.                    *)
LEMMA HeldBy ==
  ASSUME NEW t
  PROVE  t \in Held <=> \/ t \in parked
                        \/ \E i \in DOMAIN waiters : waiters[i].task = t
                        \/ \E i \in DOMAIN cond : cond[i].task = t
BY DEF Held

LEMMA SameHeld ==
  ASSUME UNCHANGED <<parked, waiters, cond>>
  PROVE  Held' = Held
BY DEF Held

LEMMA EntryTasks ==
  ASSUME TypeOK
  PROVE  /\ \A i \in DOMAIN waiters :
              waiters[i].task \in Tasks /\ waiters[i].id \in Nat
         /\ \A i \in DOMAIN cond : cond[i].task \in Tasks /\ cond[i].id \in Nat
         /\ DOMAIN waiters = 1 .. Len(waiters) /\ Len(waiters) \in Nat
         /\ DOMAIN cond = 1 .. Len(cond) /\ Len(cond) \in Nat
         /\ waiters # <<>> => 1 \in DOMAIN waiters
<1>1. waiters \in Seq(Entries) /\ cond \in Seq(Entries)
  BY DEF TypeOK
<1>2. /\ \A i \in DOMAIN waiters : waiters[i] \in Entries
      /\ \A i \in DOMAIN cond : cond[i] \in Entries
  BY <1>1
<1> QED BY <1>1, <1>2 DEF Entries

-----------------------------------------------------------------------------
(* The steps of the executor.                                              *)

LEMMA SpawnInv ==
  ASSUME TypeOK, Inv, NEW t \in Tasks, Spawn(t)
  PROVE  Inv'
<1> USE NoneAssumption DEF Inv, ExecInv, LockInv, WakeInv
<1>1. /\ future[t] = "unborn"
      /\ future' = [future EXCEPT ![t] = "some"]
      /\ UNCHANGED <<batch, running, is_locked, next_waiter_id, waiters, cond,
                     woken, notify, st, fid, parked, rounds, stopped, panicked>>
  BY DEF Spawn, SpawnTask, lockVars, condVars, taskVars, stopVars
<1>2. \A u \in Tasks : Queued(u)' <=> Queued(u) \/ u = t
  BY WakeQueued DEF Spawn, SpawnTask, TypeOK
<1>3. Held' = Held
  BY <1>1, SameHeld
<1>4. future \in [Tasks -> FutureStates] /\ running \in Tasks \cup {None}
  BY DEF TypeOK, ExecTypeOK
<1>5. ExecInv'
  BY <1>1, <1>2, <1>3, <1>4 DEF PollInv, RefInv, NoLostWakeup, Completed
<1>6. st[t] = "run"
  BY <1>1 DEF PollInv
<1>7. LockInv'
  BY <1>1, <1>4, <1>6, EntryTasks
     DEF IdInv, MutualExclusion, WaitersAreBlocked, Guard, Blocked, Entry
<1>8. WakeInv'
  BY <1>1, <1>2, <1>4, <1>6, EntryTasks
     DEF CondInv, HeadWaiterScheduled, NotifiedIsScheduled, Entry
<1> QED BY <1>5, <1>7, <1>8

LEMMA ExecuteInv ==
  ASSUME TypeOK, Inv, Execute
  PROVE  Inv'
<1> USE NoneAssumption DEF Inv, ExecInv, LockInv, WakeInv
<1>1. UNCHANGED <<running, future, is_locked, next_waiter_id, waiters, cond,
                  woken, notify, st, fid, parked, rounds, stopped, panicked>>
  BY DEF Execute, TakeReady, lockVars, condVars, taskVars, stopVars
<1>2. \A u \in Tasks : Queued(u)' <=> Queued(u)
  BY TakeQueued DEF Execute, TypeOK
<1>3. Held' = Held
  BY <1>1, SameHeld
<1>4. ExecInv'
  BY <1>1, <1>2, <1>3 DEF PollInv, RefInv, NoLostWakeup, Completed
<1>5. LockInv'
  BY <1>1 DEF IdInv, MutualExclusion, WaitersAreBlocked, Guard, Blocked, Entry
<1>6. WakeInv'
  BY <1>1, <1>2, EntryTasks
     DEF CondInv, HeadWaiterScheduled, NotifiedIsScheduled, Entry
<1> QED BY <1>4, <1>5, <1>6

LEMMA BeginPollInv ==
  ASSUME TypeOK, Inv, BeginPoll
  PROVE  Inv'
<1> USE NoneAssumption DEF Inv, ExecInv, LockInv, WakeInv
<1> DEFINE h == Head(batch)
<1>1. /\ running = None
      /\ batch # <<>> /\ batch' = Tail(batch)
      /\ UNCHANGED <<ready, is_locked, next_waiter_id, waiters, cond, woken,
                     notify, st, fid, parked, rounds, stopped, panicked>>
      /\ \/ /\ future[h] = "some" /\ running' = h
            /\ future' = [future EXCEPT ![h] = "none"]
         \/ future[h] # "some" /\ UNCHANGED <<running, future>>
  BY DEF BeginPoll, PollNext, SkipCompleted, lockVars, condVars, taskVars,
         stopVars
<1>2. /\ h \in Tasks
      /\ Queued(h)
      /\ \A u \in Tasks : Queued(u) <=> Queued(u)' \/ u = h
  BY <1>1, DequeueQueued DEF TypeOK
<1>3. Held' = Held
  BY <1>1, SameHeld
<1>4. future \in [Tasks -> FutureStates]
  BY DEF TypeOK, ExecTypeOK
<1> HIDE DEF h
<1>5. ExecInv'
  BY <1>1, <1>2, <1>3, <1>4 DEF PollInv, RefInv, NoLostWakeup, Completed
<1>6. \A t \in Tasks : Guard(t)' <=> Guard(t)
  BY <1>1, <1>2, <1>4 DEF Guard
<1>7. \A t \in Tasks : Blocked(t)' <=> Blocked(t) /\ running' # t
  BY <1>1, <1>2, <1>4 DEF Blocked
<1>8. LockInv'
  BY <1>1, <1>6, <1>7, EntryTasks
     DEF IdInv, MutualExclusion, WaitersAreBlocked, Entry
<1>9. HeadWaiterScheduled'
  <2>1. waiters # <<>> => Blocked(waiters[1].task) /\ waiters[1].task \in Tasks
    BY <1>1, EntryTasks DEF WaitersAreBlocked
  <2> QED BY <1>1, <1>2, <2>1 DEF HeadWaiterScheduled, Blocked
<1>10. CondInv' /\ NotifiedIsScheduled'
  BY <1>1, <1>2, <1>4 DEF CondInv, NotifiedIsScheduled, Entry
<1> QED BY <1>5, <1>8, <1>9, <1>10

LEMMA FireInv ==
  ASSUME TypeOK, Inv, NEW t \in Tasks, Fire(t)
  PROVE  Inv'
<1> USE NoneAssumption DEF Inv, ExecInv, LockInv, WakeInv
<1>1. /\ t \in parked /\ parked' = parked \ {t}
      /\ notify = "no"
      /\ UNCHANGED <<batch, running, future, is_locked, next_waiter_id,
                     waiters, cond, woken, notify, st, fid, rounds, stopped,
                     panicked>>
  BY DEF Fire, lockVars, condVars, taskVars, stopVars
<1>2. \A u \in Tasks : Queued(u)' <=> Queued(u) \/ u = t
  BY <1>1, WakeQueued DEF Fire, TypeOK
<1>3. t \in Held /\ Held' \subseteq Held /\ Held \subseteq Held' \cup {t}
  BY <1>1 DEF Held
<1>4. ExecInv'
  BY <1>1, <1>2, <1>3 DEF PollInv, RefInv, NoLostWakeup, Completed
<1>5. LockInv'
  BY <1>1 DEF IdInv, MutualExclusion, WaitersAreBlocked, Guard, Blocked, Entry
<1>6. WakeInv'
  BY <1>1, <1>2, EntryTasks
     DEF CondInv, HeadWaiterScheduled, NotifiedIsScheduled, Entry
<1> QED BY <1>4, <1>5, <1>6

-----------------------------------------------------------------------------
(* The steps of the task being polled.                                     *)

LEMMA AwaitInv ==
  ASSUME TypeOK, Inv, NEW t \in Tasks, Await(t)
  PROVE  Inv'
<1> USE NoneAssumption DEF Inv, ExecInv, LockInv, WakeInv
<1>1. /\ running = t /\ running' = None
      /\ future' = [future EXCEPT ![t] = "some"]
      /\ parked' = parked \cup {t}
      /\ st[t] \in {"run", "hold"}
      /\ notify = "no"
      /\ UNCHANGED <<ready, batch, is_locked, next_waiter_id, waiters, cond,
                     woken, notify, st, fid, rounds, stopped, panicked>>
  BY DEF Await, InTask, ReturnPending, PollInv, lockVars, condVars, stopVars
<1>2. \A u \in Tasks : Queued(u)' <=> Queued(u)
  BY <1>1, SameQueued
<1>3. Held' = Held \cup {t}
  BY <1>1 DEF Held
<1>4. future \in [Tasks -> FutureStates] /\ future[t] = "none"
  BY <1>1 DEF TypeOK, ExecTypeOK, PollInv
<1>5. ExecInv'
  BY <1>1, <1>2, <1>3, <1>4 DEF PollInv, RefInv, NoLostWakeup, Completed
<1>6. \A u \in Tasks : (Guard(u)' <=> Guard(u)) /\ (Blocked(u)' <=> Blocked(u))
  BY <1>1, <1>4 DEF Guard, Blocked
<1>7. LockInv'
  BY <1>1, <1>6, EntryTasks DEF IdInv, MutualExclusion, WaitersAreBlocked, Entry
<1>8. HeadWaiterScheduled'
  <2>1. waiters # <<>> => waiters[1].task \in Tasks /\ waiters[1].task # t
    BY <1>1, EntryTasks DEF WaitersAreBlocked
  <2> QED BY <1>1, <1>2, <2>1 DEF HeadWaiterScheduled
<1>9. CondInv' /\ NotifiedIsScheduled'
  BY <1>1, <1>2, <1>4 DEF CondInv, NotifiedIsScheduled, Entry
<1> QED BY <1>5, <1>7, <1>8, <1>9

LEMMA FinishInv ==
  ASSUME TypeOK, Inv, NEW t \in Tasks, Finish(t)
  PROVE  Inv'
<1> USE NoneAssumption DEF Inv, ExecInv, LockInv, WakeInv
<1>1. /\ running = t /\ running' = None
      /\ st[t] = "run" /\ t \notin parked /\ notify = "no"
      /\ UNCHANGED <<ready, batch, future, is_locked, next_waiter_id, waiters,
                     cond, woken, notify, st, fid, parked, rounds, stopped,
                     panicked>>
  BY DEF Finish, InTask, ReturnReady, lockVars, condVars, taskVars, stopVars
<1>2. \A u \in Tasks : Queued(u)' <=> Queued(u)
  BY <1>1, SameQueued
<1>3. Held' = Held
  BY <1>1, SameHeld
<1>4. ExecInv'
  BY <1>1, <1>2, <1>3 DEF PollInv, RefInv, NoLostWakeup, Completed
<1>5. \A i \in DOMAIN waiters : waiters[i].task # t
  BY <1>1 DEF WaitersAreBlocked
<1>6. LockInv'
  BY <1>1, <1>5
     DEF IdInv, MutualExclusion, WaitersAreBlocked, Guard, Blocked, Entry
<1>7. WakeInv'
  BY <1>1, <1>2, <1>5, EntryTasks
     DEF CondInv, HeadWaiterScheduled, NotifiedIsScheduled, Entry
<1> QED BY <1>4, <1>6, <1>7

LEMMA LockStepInv ==
  ASSUME TypeOK, Inv, NEW t \in Tasks, Lock(t)
  PROVE  Inv'
<1> USE NoneAssumption DEF Inv, ExecInv, LockInv, WakeInv
<1>1. /\ running = t /\ st[t] = "run" /\ t \notin parked /\ notify = "no"
      /\ st' = [st EXCEPT ![t] = "lock"]
      /\ fid' = [fid EXCEPT ![t] = next_waiter_id]
      /\ next_waiter_id' = next_waiter_id + 1
      /\ UNCHANGED <<ready, batch, running, future, is_locked, waiters, cond,
                     woken, notify, parked, stopped, panicked>>
  BY DEF Lock, InTask, NewId, execVars, condVars, stopVars
<1>2. \A u \in Tasks : Queued(u)' <=> Queued(u)
  BY <1>1, SameQueued
<1>3. Held' = Held
  BY <1>1, SameHeld
<1>4. /\ st \in [Tasks -> States] /\ fid \in [Tasks -> Nat]
      /\ next_waiter_id \in Nat
      /\ woken \subseteq Nat
      /\ future[t] = "none"
  BY <1>1 DEF TypeOK, PollInv
<1>5. ExecInv'
  BY <1>1, <1>2, <1>3, <1>4 DEF PollInv, RefInv, NoLostWakeup, Completed
<1>6. /\ \A i \in DOMAIN waiters : waiters[i].task # t
      /\ \A i \in DOMAIN cond : cond[i].id \notin woken => cond[i].task # t
  BY <1>1 DEF WaitersAreBlocked, CondInv
<1>7. IdInv'
  BY <1>1, <1>4, EntryTasks DEF IdInv
<1>8. \A u \in Tasks : Guard(u)' <=> Guard(u)
  BY <1>1, <1>4 DEF Guard
<1>9. \A u \in Tasks : Blocked(u)' <=> Blocked(u)
  BY <1>1, <1>4 DEF Blocked
<1>10. MutualExclusion'
  BY <1>1, <1>8 DEF MutualExclusion
<1>11. \A u \in Tasks \ {t} : Entry(u)' = Entry(u) /\ st'[u] = st[u]
  BY <1>1, <1>4 DEF Entry
<1>12. WaitersAreBlocked'
  BY <1>1, <1>4, <1>6, <1>9, <1>11, EntryTasks DEF WaitersAreBlocked, Blocked
<1>13. CondInv'
  BY <1>1, <1>4, <1>6, <1>11, EntryTasks DEF CondInv
<1>14. HeadWaiterScheduled' /\ NotifiedIsScheduled'
  BY <1>1, <1>2, <1>4, <1>11, EntryTasks
     DEF HeadWaiterScheduled, NotifiedIsScheduled
<1> QED BY <1>5, <1>7, <1>10, <1>12, <1>13, <1>14

(* A task that takes the free mutex leaves the queue, and no other task    *)
(* does.                                                                   *)
LEMMA AcquireEffect ==
  ASSUME TypeOK, Inv, NEW t \in Tasks, st[t] \in {"lock", "relock"},
         Acquire(fid[t])
  PROVE  /\ ~is_locked /\ is_locked' = TRUE
         /\ \A j \in DOMAIN waiters' : \E i \in DOMAIN waiters :
              waiters'[j] = waiters[i] /\ waiters[i].task # t
         /\ \A i \in DOMAIN waiters : waiters[i].task # t =>
              \E j \in DOMAIN waiters' : waiters'[j] = waiters[i]
         /\ \A j, k \in DOMAIN waiters' :
              waiters'[j].id = waiters'[k].id => j = k
<1> USE DEF Inv, LockInv
<1>1. ~is_locked /\ is_locked' = TRUE
  BY DEF Acquire
<1>2. ASSUME NEW i \in DOMAIN waiters
      PROVE  waiters[i].id = fid[t] <=> waiters[i].task = t
  BY EntryTasks DEF WaitersAreBlocked, IdInv, Entry
<1>3. \A j, k \in DOMAIN waiters : waiters[j].id = waiters[k].id => j = k
  BY DEF WaitersAreBlocked
<1>4. ASSUME NEW i \in DOMAIN waiters, waiters[i].id = fid[t],
             waiters' = RemoveAt(waiters, i)
      PROVE  /\ \A j \in DOMAIN waiters' : \E k \in DOMAIN waiters :
                  waiters'[j] = waiters[k] /\ waiters[k].task # t
             /\ \A k \in DOMAIN waiters : waiters[k].task # t =>
                  \E j \in DOMAIN waiters' : waiters'[j] = waiters[k]
             /\ \A j, k \in DOMAIN waiters' :
                  waiters'[j].id = waiters'[k].id => j = k
  <2>1. /\ Len(waiters) \in Nat /\ DOMAIN waiters = 1 .. Len(waiters)
        /\ DOMAIN waiters' = 1 .. Len(waiters) - 1
        /\ \A j \in 1 .. Len(waiters) - 1 :
             waiters'[j] = IF j < i THEN waiters[j] ELSE waiters[j + 1]
    BY <1>4, RemoveAtElements DEF TypeOK
  <2>2. ASSUME NEW j \in DOMAIN waiters'
        PROVE  \E k \in DOMAIN waiters :
                 waiters'[j] = waiters[k] /\ waiters[k].task # t
    <3>1. CASE j < i
      <4>1. j \in DOMAIN waiters /\ waiters'[j] = waiters[j] /\ j # i
        BY <2>1, <3>1
      <4> QED BY <1>2, <1>3, <1>4, <4>1
    <3>2. CASE ~(j < i)
      <4>1. j + 1 \in DOMAIN waiters /\ waiters'[j] = waiters[j + 1] /\ j + 1 # i
        BY <2>1, <3>2
      <4> QED BY <1>2, <1>3, <1>4, <4>1
    <3> QED BY <3>1, <3>2
  <2>3. ASSUME NEW k \in DOMAIN waiters, waiters[k].task # t
        PROVE  \E j \in DOMAIN waiters' : waiters'[j] = waiters[k]
    <3>1. k # i
      BY <1>2, <1>4, <2>3
    <3>2. CASE k < i
      <4>1. k \in DOMAIN waiters' /\ waiters'[k] = waiters[k]
        BY <2>1, <3>2
      <4> QED BY <4>1
    <3>3. CASE k > i
      <4>1. k - 1 \in DOMAIN waiters' /\ waiters'[k - 1] = waiters[k]
        BY <2>1, <3>3
      <4> QED BY <4>1
    <3> QED BY <2>1, <3>1, <3>2, <3>3
  <2>4. ASSUME NEW j \in DOMAIN waiters', NEW k \in DOMAIN waiters',
               waiters'[j].id = waiters'[k].id
        PROVE  j = k
    <3> DEFINE Old(n) == IF n < i THEN n ELSE n + 1
    <3>1. \A n \in DOMAIN waiters' :
            n \in Nat /\ Old(n) \in DOMAIN waiters /\ waiters'[n] = waiters[Old(n)]
      BY <2>1
    <3>2. Old(j) = Old(k)
      BY <1>3, <2>4, <3>1
    <3> QED BY <2>1, <3>1, <3>2
  <2> QED BY <2>2, <2>3, <2>4
<1>5. CASE (\A i \in DOMAIN waiters : waiters[i].id # fid[t]) /\ UNCHANGED waiters
  BY <1>1, <1>2, <1>3, <1>5
<1> QED BY <1>1, <1>4, <1>5 DEF Acquire

(* A task that finds the mutex taken is in the queue afterwards, once.     *)
LEMMA EnqueueEffect ==
  ASSUME TypeOK, NEW id \in Nat, NEW t \in Tasks, Enqueue(id, t),
         \A j, k \in DOMAIN waiters : waiters[j].id = waiters[k].id => j = k,
         \A i \in DOMAIN waiters : waiters[i].id = id => waiters[i].task = t
  PROVE  /\ is_locked /\ UNCHANGED is_locked
         /\ \A j \in DOMAIN waiters' :
              \/ waiters'[j] = [id |-> id, task |-> t]
              \/ \E i \in DOMAIN waiters : waiters'[j] = waiters[i]
         /\ \A i \in DOMAIN waiters :
              i \in DOMAIN waiters' /\ waiters'[i] = waiters[i]
         /\ \E j \in DOMAIN waiters' : waiters'[j] = [id |-> id, task |-> t]
         /\ \A j, k \in DOMAIN waiters' :
              waiters'[j].id = waiters'[k].id => j = k
<1> DEFINE e == [id |-> id, task |-> t]
<1>1. is_locked /\ UNCHANGED is_locked
  BY DEF Enqueue
<1>2. CASE \E i \in DOMAIN waiters : waiters[i].id = id
  <2>1. PICK i \in DOMAIN waiters : waiters[i].id = id
    BY <1>2
  <2>2. waiters[i] \in Entries
    BY DEF TypeOK
  <2>3. waiters[i] = e
    BY <2>1, <2>2 DEF Entries
  <2>4. waiters' = waiters
    BY <1>2 DEF Enqueue
  <2> QED BY <1>1, <2>3, <2>4
<1>3. CASE \A i \in DOMAIN waiters : waiters[i].id # id
  <2>1. e \in Entries /\ e.id = id /\ waiters' = Append(waiters, e)
    BY <1>3 DEF Enqueue, Entries
  <2>2. /\ DOMAIN waiters' = DOMAIN waiters \cup {Len(waiters) + 1}
        /\ \A i \in DOMAIN waiters : waiters'[i] = waiters[i]
        /\ waiters'[Len(waiters) + 1] = e
    BY <2>1, AppendElements DEF TypeOK
  <2> QED BY <1>1, <1>3, <2>1, <2>2
<1> QED BY <1>2, <1>3

LEMMA PollLockAcquireInv ==
  ASSUME TypeOK, Inv, NEW t \in Tasks, PollLockAcquire(t)
  PROVE  Inv'
<1> USE NoneAssumption DEF Inv, ExecInv, LockInv, WakeInv
<1>1. /\ running = t /\ st[t] \in {"lock", "relock"}
      /\ Acquire(fid[t])
      /\ st' = [st EXCEPT ![t] = "hold"]
      /\ UNCHANGED <<ready, batch, running, future, next_waiter_id, cond, woken,
                     notify, fid, parked, rounds, stopped, panicked>>
  BY DEF PollLockAcquire, execVars, condVars, stopVars
<1>2. /\ ~is_locked /\ is_locked' = TRUE
      /\ \A j \in DOMAIN waiters' : \E i \in DOMAIN waiters :
           waiters'[j] = waiters[i] /\ waiters[i].task # t
      /\ \A i \in DOMAIN waiters : waiters[i].task # t =>
           \E j \in DOMAIN waiters' : waiters'[j] = waiters[i]
      /\ \A j, k \in DOMAIN waiters' :
           waiters'[j].id = waiters'[k].id => j = k
  BY <1>1, AcquireEffect
<1>3. \A u \in Tasks : Queued(u)' <=> Queued(u)
  BY <1>1, SameQueued
<1>4. \A u \in Tasks \ {t} : u \in Held' <=> u \in Held
  BY <1>1, <1>2 DEF Held
<1>5. /\ st \in [Tasks -> States] /\ future[t] = "none" /\ t \notin parked
      /\ notify = "no"
  BY <1>1 DEF TypeOK, PollInv
<1>6. ExecInv'
  BY <1>1, <1>3, <1>4, <1>5 DEF PollInv, RefInv, NoLostWakeup, Completed
<1>7. /\ \A u \in Tasks : Guard(u)' <=> Guard(u) \/ u = t
      /\ \A u \in Tasks : Blocked(u)' <=> Blocked(u)
  BY <1>1, <1>5 DEF Guard, Blocked
<1>8. MutualExclusion'
  BY <1>2, <1>7 DEF MutualExclusion
<1>9. \A u \in Tasks : Entry(u)' = Entry(u)
  BY <1>1 DEF Entry
<1>10. IdInv'
  BY <1>1, <1>5 DEF IdInv
<1>11. WaitersAreBlocked'
  <2>1. ASSUME NEW j \in DOMAIN waiters'
        PROVE  \E u \in Tasks : /\ waiters'[j].task = u
                                /\ st'[u] \in {"lock", "relock"}
                                /\ waiters'[j] = Entry(u)
                                /\ Blocked(u)' \/ running = u
    <3>1. PICK i \in DOMAIN waiters :
            waiters'[j] = waiters[i] /\ waiters[i].task # t
      BY <1>2
    <3>2. waiters[i].task \in Tasks
      BY EntryTasks
    <3>3. PICK u \in Tasks : u = waiters[i].task /\ u # t
      BY <3>1, <3>2
    <3>4. /\ st[u] \in {"lock", "relock"} /\ waiters[i] = Entry(u)
          /\ Blocked(u) \/ running = u
      BY <3>3 DEF WaitersAreBlocked
    <3>5. st'[u] = st[u]
      BY <1>1, <1>5, <3>3
    <3> QED BY <1>7, <3>1, <3>3, <3>4, <3>5
  <2>2. ASSUME NEW u \in Tasks, Blocked(u)'
        PROVE  \E i \in DOMAIN waiters' : waiters'[i] = Entry(u)
    <3>1. Blocked(u) /\ u # t
      BY <1>1, <1>5, <1>7, <2>2 DEF Blocked
    <3>2. PICK i \in DOMAIN waiters : waiters[i] = Entry(u)
      BY <3>1 DEF WaitersAreBlocked
    <3>3. waiters[i].task # t
      BY <3>1, <3>2 DEF Entry
    <3> QED BY <1>2, <3>2, <3>3
  <2> QED BY <1>1, <1>2, <1>9, <2>1, <2>2 DEF WaitersAreBlocked
<1>12. WakeInv'
  BY <1>1, <1>2, <1>3, <1>5, <1>9, EntryTasks
     DEF CondInv, HeadWaiterScheduled, NotifiedIsScheduled
<1> QED BY <1>6, <1>8, <1>10, <1>11, <1>12

LEMMA PollLockPendingInv ==
  ASSUME TypeOK, Inv, NEW t \in Tasks, PollLockPending(t)
  PROVE  Inv'
<1> USE NoneAssumption DEF Inv, ExecInv, LockInv, WakeInv
<1>1. /\ running = t /\ running' = None
      /\ st[t] \in {"lock", "relock"}
      /\ Enqueue(fid[t], t)
      /\ future' = [future EXCEPT ![t] = "some"]
      /\ UNCHANGED <<ready, batch, next_waiter_id, cond, woken, notify, st, fid,
                     parked, rounds, stopped, panicked>>
  BY DEF PollLockPending, ReturnPending, condVars, taskVars, stopVars
<1>2. /\ future \in [Tasks -> FutureStates] /\ future[t] = "none"
      /\ t \notin parked /\ fid[t] \in Nat /\ notify = "no"
  BY <1>1 DEF TypeOK, ExecTypeOK, PollInv
<1>3. /\ is_locked /\ UNCHANGED is_locked
      /\ \A j \in DOMAIN waiters' :
           \/ waiters'[j] = Entry(t)
           \/ \E i \in DOMAIN waiters : waiters'[j] = waiters[i]
      /\ \A i \in DOMAIN waiters :
           i \in DOMAIN waiters' /\ waiters'[i] = waiters[i]
      /\ \E j \in DOMAIN waiters' : waiters'[j] = Entry(t)
      /\ \A j, k \in DOMAIN waiters' :
           waiters'[j].id = waiters'[k].id => j = k
  <2>1. \A j, k \in DOMAIN waiters : waiters[j].id = waiters[k].id => j = k
    BY DEF WaitersAreBlocked
  <2>2. \A i \in DOMAIN waiters : waiters[i].id = fid[t] => waiters[i].task = t
    BY <1>1, EntryTasks DEF WaitersAreBlocked, IdInv, Entry
  <2>3. Entry(t) = [id |-> fid[t], task |-> t]
    BY DEF Entry
  <2> QED BY <1>1, <1>2, <2>1, <2>2, <2>3, EnqueueEffect
<1>4. \A u \in Tasks : Queued(u)' <=> Queued(u)
  BY <1>1, SameQueued
<1>5. Entry(t).task = t /\ \A u \in Tasks : Entry(u)' = Entry(u)
  BY <1>1 DEF Entry
<1>6. \A u \in Tasks : u \in Held' <=> u \in Held \/ u = t
  BY <1>1, <1>3, <1>5 DEF Held
<1>7. ExecInv'
  BY <1>1, <1>2, <1>4, <1>6 DEF PollInv, RefInv, NoLostWakeup, Completed
<1>8. /\ \A u \in Tasks : Guard(u)' <=> Guard(u)
      /\ \A u \in Tasks : Blocked(u)' <=> Blocked(u) \/ u = t
  BY <1>1, <1>2 DEF Guard, Blocked
<1>9. MutualExclusion' /\ IdInv'
  BY <1>1, <1>3, <1>8 DEF MutualExclusion, IdInv
<1>10. WaitersAreBlocked'
  <2>1. ASSUME NEW j \in DOMAIN waiters'
        PROVE  \E u \in Tasks : /\ waiters'[j].task = u
                                /\ st[u] \in {"lock", "relock"}
                                /\ waiters'[j] = Entry(u)
                                /\ Blocked(u)'
    <3>1. CASE waiters'[j] = Entry(t)
      <4>1. waiters'[j].task = t
        BY <1>5, <3>1
      <4> QED BY <1>1, <1>8, <3>1, <4>1
    <3>2. ASSUME NEW i \in DOMAIN waiters, waiters'[j] = waiters[i]
          PROVE  \E u \in Tasks : /\ waiters'[j].task = u
                                  /\ st[u] \in {"lock", "relock"}
                                  /\ waiters'[j] = Entry(u)
                                  /\ Blocked(u)'
      <4>1. PICK u \in Tasks : u = waiters[i].task
        BY EntryTasks
      <4>2. /\ st[u] \in {"lock", "relock"} /\ waiters[i] = Entry(u)
            /\ Blocked(u) \/ running = u
        BY <4>1 DEF WaitersAreBlocked
      <4> QED BY <1>1, <1>8, <3>2, <4>1, <4>2
    <3> QED BY <1>3, <3>1, <3>2
  <2>2. ASSUME NEW u \in Tasks, Blocked(u)'
        PROVE  \E i \in DOMAIN waiters' : waiters'[i] = Entry(u)
    <3>1. CASE u = t
      BY <1>3, <3>1
    <3>2. CASE Blocked(u)
      <4>1. PICK i \in DOMAIN waiters : waiters[i] = Entry(u)
        BY <3>2 DEF WaitersAreBlocked
      <4> QED BY <1>3, <4>1
    <3> QED BY <1>8, <2>2, <3>1, <3>2
  <2>3. \A j, k \in DOMAIN waiters' : waiters'[j].id = waiters'[k].id => j = k
    BY <1>3
  <2> QED BY <1>1, <1>5, <2>1, <2>2, <2>3 DEF WaitersAreBlocked
<1>11. HeadWaiterScheduled'
  BY <1>3 DEF HeadWaiterScheduled
<1>12. CondInv' /\ NotifiedIsScheduled'
  BY <1>1, <1>2, <1>4, <1>5, EntryTasks DEF CondInv, NotifiedIsScheduled
<1> QED BY <1>7, <1>9, <1>10, <1>11, <1>12

(* Whoever drops the guard, in a poll or with its last reference, wakes    *)
(* the task at the head of the queue, which is alive.                      *)
LEMMA DropGuardEffect ==
  ASSUME TypeOK, Inv, DropGuard, UNCHANGED batch
  PROVE  /\ is_locked' = FALSE
         /\ UNCHANGED <<next_waiter_id, waiters>>
         /\ \A u \in Tasks : Queued(u) => Queued(u)'
         /\ \A u \in Tasks :
              Queued(u)' => Queued(u) \/ future[u] \notin {"unborn", "dropped"}
         /\ \A u \in Tasks :
              Queued(u)' => Queued(u) \/ \E i \in DOMAIN waiters : waiters[i].task = u
         /\ waiters # <<>> => Queued(waiters[1].task)'
<1> USE DEF Inv, ExecInv, LockInv, WakeInv
<1>1. is_locked' = FALSE /\ UNCHANGED <<next_waiter_id, waiters>>
  BY DEF DropGuard
<1>2. CASE waiters = <<>>
  <2>1. \A u \in Tasks : Queued(u)' <=> Queued(u)
    BY <1>2, SameQueued DEF DropGuard
  <2> QED BY <1>1, <1>2, <2>1
<1>3. CASE waiters # <<>>
  <2>1. PICK h \in Tasks : h = waiters[1].task
    BY <1>3, EntryTasks
  <2>2. Wake(h)
    BY <1>3, <2>1 DEF DropGuard
  <2>3. \A u \in Tasks : Queued(u)' <=> Queued(u) \/ u = h
    BY <2>2, WakeQueued DEF TypeOK
  <2>4. h \in Held
    BY <1>3, <2>1, EntryTasks DEF Held
  <2>5. future[h] \notin {"unborn", "dropped"}
    BY <2>4 DEF RefInv
  <2> QED BY <1>1, <1>3, <2>1, <2>3, <2>5, EntryTasks
<1> QED BY <1>2, <1>3

(* Unlock and Wait.                                                        *)
LEMMA GiveUpInv ==
  ASSUME TypeOK, Inv, NEW t \in Tasks, NEW s \in {"run", "cond"},
         InTask(t), st[t] = "hold", DropGuard, st' = [st EXCEPT ![t] = s],
         UNCHANGED <<batch, running, future, cond, woken, notify, fid, parked,
                     stopped, panicked>>
  PROVE  Inv'
<1> USE NoneAssumption DEF Inv, ExecInv, LockInv, WakeInv
<1>1. running = t /\ t \notin parked /\ notify = "no"
  BY DEF InTask
<1>2. /\ is_locked' = FALSE
      /\ UNCHANGED <<next_waiter_id, waiters>>
      /\ \A u \in Tasks : Queued(u) => Queued(u)'
      /\ \A u \in Tasks :
           Queued(u)' => Queued(u) \/ future[u] \notin {"unborn", "dropped"}
      /\ waiters # <<>> => Queued(waiters[1].task)'
  BY DropGuardEffect
<1>3. st \in [Tasks -> States] /\ future[t] = "none"
  BY <1>1 DEF TypeOK, PollInv
<1>4. Held' = Held
  BY <1>2, SameHeld
<1>5. PollInv'
  BY <1>1, <1>3 DEF PollInv, Completed
<1>6. RefInv' /\ NoLostWakeup'
  BY <1>2, <1>4 DEF RefInv, NoLostWakeup
<1>7. \A u \in Tasks : ~Guard(u)'
  BY <1>3 DEF MutualExclusion, Guard
<1>8. MutualExclusion'
  BY <1>2, <1>7 DEF MutualExclusion
<1>9. \A u \in Tasks : st'[u] # "run" => st[u] # "run"
  BY <1>3
<1>10. IdInv'
  BY <1>2, <1>9 DEF IdInv
<1>11. \A u \in Tasks : u # t => st'[u] = st[u]
  BY <1>3
<1>12. \A i \in DOMAIN waiters : waiters[i].task \in Tasks \ {t}
  BY EntryTasks DEF WaitersAreBlocked
<1>13. WaitersAreBlocked'
  BY <1>2, <1>3, <1>11, <1>12 DEF WaitersAreBlocked, Blocked, Entry
<1>14. \A i \in DOMAIN cond : cond[i].id \notin woken => cond[i].task \in Tasks \ {t}
  BY EntryTasks DEF CondInv
<1>15. CondInv'
  BY <1>2, <1>11, <1>14 DEF CondInv, Entry
<1>16. HeadWaiterScheduled'
  BY <1>2 DEF HeadWaiterScheduled
<1>17. NotifiedIsScheduled'
  BY <1>2, <1>3, <1>11 DEF NotifiedIsScheduled, Entry
<1> QED BY <1>5, <1>6, <1>8, <1>10, <1>13, <1>15, <1>16, <1>17

LEMMA UnlockInv ==
  ASSUME TypeOK, Inv, NEW t \in Tasks, Unlock(t) \/ Wait(t)
  PROVE  Inv'
<1>1. /\ InTask(t) /\ st[t] = "hold" /\ DropGuard
      /\ UNCHANGED <<batch, running, future, cond, woken, notify, fid, parked,
                     stopped, panicked>>
      /\ \/ st' = [st EXCEPT ![t] = "run"]
         \/ st' = [st EXCEPT ![t] = "cond"]
  BY DEF Unlock, Wait, condVars, stopVars
<1> QED BY <1>1, GiveUpInv

LEMMA PollCondPendingInv ==
  ASSUME TypeOK, Inv, NEW t \in Tasks, PollCondPending(t)
  PROVE  Inv'
<1> USE NoneAssumption DEF Inv, ExecInv, LockInv, WakeInv
<1>1. /\ running = t /\ running' = None
      /\ st[t] = "cond" /\ fid[t] \notin woken
      /\ cond' = Append(cond, Entry(t))
      /\ future' = [future EXCEPT ![t] = "some"]
      /\ UNCHANGED <<ready, batch, is_locked, next_waiter_id, waiters, woken,
                     notify, st, fid, parked, rounds, stopped, panicked>>
  BY DEF PollCondPending, ReturnPending, lockVars, taskVars, stopVars
<1>2. /\ future \in [Tasks -> FutureStates] /\ future[t] = "none"
      /\ t \notin parked /\ fid[t] \in Nat /\ notify = "no"
  BY <1>1 DEF TypeOK, ExecTypeOK, PollInv
<1>3. Entry(t) \in Entries /\ Entry(t).task = t /\ Entry(t).id = fid[t]
  BY <1>2 DEF Entry, Entries
<1>4. /\ DOMAIN cond' = DOMAIN cond \cup {Len(cond) + 1}
      /\ \A i \in DOMAIN cond : cond'[i] = cond[i]
      /\ cond'[Len(cond) + 1] = Entry(t)
  BY <1>1, <1>3, AppendElements DEF TypeOK
<1>5. \A u \in Tasks : Queued(u)' <=> Queued(u)
  BY <1>1, SameQueued
<1>6. \A u \in Tasks : u \in Held' <=> u \in Held \/ u = t
  BY <1>1, <1>3, <1>4 DEF Held
<1>7. ExecInv'
  BY <1>1, <1>2, <1>5, <1>6 DEF PollInv, RefInv, NoLostWakeup, Completed
<1>8. \A u \in Tasks : (Guard(u)' <=> Guard(u)) /\ (Blocked(u)' <=> Blocked(u))
  BY <1>1, <1>2 DEF Guard, Blocked
<1>9. \A u \in Tasks : Entry(u)' = Entry(u)
  BY <1>1 DEF Entry
<1>10. \A j \in DOMAIN cond' :
         \/ cond'[j] = Entry(t)
         \/ \E i \in DOMAIN cond : cond'[j] = cond[i]
  BY <1>4
<1>11. IdInv'
  <2>1. \A u \in Tasks : st[u] # "run" => fid[u] < next_waiter_id
    BY DEF IdInv
  <2>2. \A j \in DOMAIN cond' : cond'[j].id < next_waiter_id
    BY <1>1, <1>3, <1>10, <2>1 DEF IdInv
  <2>3. ASSUME NEW j \in DOMAIN cond', NEW u \in Tasks,
               st[u] # "run", cond'[j].id = fid[u]
        PROVE  cond'[j].task = u
    BY <1>1, <1>3, <1>10, <2>3 DEF IdInv
  <2> QED BY <1>1, <2>1, <2>2, <2>3 DEF IdInv
<1>12. MutualExclusion'
  BY <1>1, <1>8 DEF MutualExclusion
<1>13. \A i \in DOMAIN waiters : waiters[i].task \in Tasks \ {t}
  BY <1>1, EntryTasks DEF WaitersAreBlocked
<1>14. WaitersAreBlocked'
  BY <1>1, <1>8, <1>9, <1>13 DEF WaitersAreBlocked
<1>15. CondInv'
  BY <1>1, <1>3, <1>9, <1>10, EntryTasks DEF CondInv
<1>16. HeadWaiterScheduled'
  BY <1>1, <1>5, <1>13, EntryTasks DEF HeadWaiterScheduled
<1>17. NotifiedIsScheduled'
  <2>1. ASSUME NEW u \in Tasks, st[u] = "cond", future'[u] = "some"
        PROVE  IF fid[u] \in woken THEN stopped \/ Queued(u)'
               ELSE \E j \in DOMAIN cond' : cond'[j] = Entry(u)
    <3>1. CASE u = t
      BY <1>1, <1>4, <3>1
    <3>2. CASE u # t
      BY <1>1, <1>2, <1>4, <1>5, <2>1, <3>2 DEF NotifiedIsScheduled
    <3> QED BY <3>1, <3>2
  <2> QED BY <1>1, <1>9, <2>1 DEF NotifiedIsScheduled
<1> QED BY <1>7, <1>11, <1>12, <1>14, <1>15, <1>16, <1>17

(* The lock future of a notified task gets a fresh identifier, so it finds *)
(* no entry in the queue.                                                  *)
LEMMA PollCondWokenInv ==
  ASSUME TypeOK, Inv, NEW t \in Tasks, PollCondWoken(t)
  PROVE  Inv'
<1> USE NoneAssumption DEF Inv, ExecInv, LockInv, WakeInv
<1>1. /\ running = t /\ st[t] = "cond" /\ fid[t] \in woken
      /\ fid' = [fid EXCEPT ![t] = next_waiter_id]
      /\ next_waiter_id' = next_waiter_id + 1
      /\ UNCHANGED <<ready, batch, cond, woken, notify, parked, stopped,
                     panicked>>
  BY DEF PollCondWoken, NewId, ReturnPending, execVars, condVars, stopVars
<1>2. /\ st \in [Tasks -> States] /\ fid \in [Tasks -> Nat]
      /\ future \in [Tasks -> FutureStates] /\ future[t] = "none"
      /\ next_waiter_id \in Nat /\ woken \subseteq Nat
      /\ t \notin parked /\ notify = "no"
  BY <1>1 DEF TypeOK, ExecTypeOK, PollInv
<1>3. ASSUME NEW i \in DOMAIN waiters
      PROVE  waiters[i].task \in Tasks \ {t} /\ waiters[i].id < next_waiter_id
  <2>1. PICK u \in Tasks : u = waiters[i].task
    BY EntryTasks
  <2>2. st[u] \in {"lock", "relock"} /\ waiters[i].id = fid[u]
    BY <2>1 DEF WaitersAreBlocked, Entry
  <2> QED BY <1>1, <2>1, <2>2 DEF IdInv
<1>4. \A i \in DOMAIN waiters : waiters[i].id # next_waiter_id
  BY <1>2, <1>3, EntryTasks
<1>5. \A i \in DOMAIN cond : cond[i].id \notin woken => cond[i].task \in Tasks \ {t}
  BY <1>1, EntryTasks DEF CondInv, Entry
<1>6. \A u \in Tasks : u # t => fid'[u] = fid[u] /\ Entry(u)' = Entry(u)
  BY <1>1, <1>2 DEF Entry
<1>7. fid'[t] = next_waiter_id /\ Entry(t)' = [id |-> next_waiter_id, task |-> t]
  BY <1>1, <1>2 DEF Entry
<1>8. \A u \in Tasks : Queued(u)' <=> Queued(u)
  BY <1>1, SameQueued
<1>9. ASSUME NEW s \in {"hold", "relock"}, st' = [st EXCEPT ![t] = s]
      PROVE  IdInv' /\ CondInv'
  <2>1. \A u \in Tasks : u # t => st'[u] = st[u]
    BY <1>2, <1>9
  <2>2. /\ \A u \in Tasks : st'[u] # "run" => fid'[u] < next_waiter_id'
        /\ \A u, v \in Tasks :
             st'[u] # "run" /\ st'[v] # "run" /\ fid'[u] = fid'[v] => u = v
    BY <1>1, <1>2, <1>6, <1>7, <2>1 DEF IdInv
  <2>3. /\ \A i \in DOMAIN cond' : cond'[i].id < next_waiter_id'
        /\ \A i \in DOMAIN cond', u \in Tasks :
             st'[u] # "run" /\ cond'[i].id = fid'[u] => cond'[i].task = u
    BY <1>1, <1>2, <1>6, <1>7, <2>1, EntryTasks DEF IdInv
  <2>4. \A f \in woken' : f < next_waiter_id'
    BY <1>1, <1>2 DEF CondInv
  <2>5. \A i \in DOMAIN cond, u \in Tasks :
          cond[i].id \notin woken /\ cond[i].task = u =>
            cond[i] = Entry(u)' /\ st'[u] = "cond"
    BY <1>5, <1>6, <2>1 DEF CondInv
  <2>6. CondInv'
    BY <1>1, <2>4, <2>5, EntryTasks DEF CondInv
  <2> QED BY <2>2, <2>3, <2>6 DEF IdInv
<1>10. CASE /\ Acquire(next_waiter_id)
            /\ st' = [st EXCEPT ![t] = "hold"]
            /\ UNCHANGED execVars
  <2>1. ~is_locked /\ is_locked' = TRUE /\ UNCHANGED <<waiters, running, future>>
    BY <1>4, <1>10 DEF Acquire, execVars
  <2>2. Held' = Held
    BY <1>1, <2>1, SameHeld
  <2>3. \A u \in Tasks : u # t => st'[u] = st[u]
    BY <1>2, <1>10
  <2>4. st'[t] = "hold"
    BY <1>2, <1>10
  <2>5. ExecInv'
    BY <1>1, <1>2, <1>8, <2>1, <2>2, <2>3, <2>4
       DEF PollInv, RefInv, NoLostWakeup, Completed
  <2>6. \A u \in Tasks : Guard(u)' <=> u = t
    BY <1>2, <2>1, <2>3, <2>4 DEF Guard, MutualExclusion
  <2>7. MutualExclusion'
    BY <2>1, <2>6 DEF MutualExclusion
  <2>8. \A u \in Tasks : Blocked(u)' <=> Blocked(u)
    BY <1>2, <2>1, <2>3, <2>4 DEF Blocked
  <2>9. WaitersAreBlocked'
    BY <1>2, <1>3, <1>6, <2>1, <2>3, <2>8 DEF WaitersAreBlocked, Blocked
  <2>10. HeadWaiterScheduled'
    BY <2>1 DEF HeadWaiterScheduled
  <2>11. NotifiedIsScheduled'
    BY <1>1, <1>2, <1>6, <1>8, <2>1, <2>3, <2>4 DEF NotifiedIsScheduled
  <2> QED BY <1>9, <1>10, <2>5, <2>7, <2>9, <2>10, <2>11
<1>11. CASE /\ Enqueue(next_waiter_id, t)
            /\ st' = [st EXCEPT ![t] = "relock"]
            /\ ReturnPending(t)
            /\ UNCHANGED ready
  <2>1. running' = None /\ future' = [future EXCEPT ![t] = "some"]
    BY <1>11 DEF ReturnPending
  <2>2. /\ is_locked /\ UNCHANGED is_locked
        /\ \A j \in DOMAIN waiters' :
             \/ waiters'[j] = Entry(t)'
             \/ \E i \in DOMAIN waiters : waiters'[j] = waiters[i]
        /\ \A i \in DOMAIN waiters :
             i \in DOMAIN waiters' /\ waiters'[i] = waiters[i]
        /\ \E j \in DOMAIN waiters' : waiters'[j] = Entry(t)'
        /\ \A j, k \in DOMAIN waiters' :
             waiters'[j].id = waiters'[k].id => j = k
    <3>1. \A j, k \in DOMAIN waiters : waiters[j].id = waiters[k].id => j = k
      BY DEF WaitersAreBlocked
    <3> QED BY <1>2, <1>4, <1>7, <1>11, <3>1, EnqueueEffect
  <2>3. \A u \in Tasks : u # t => st'[u] = st[u]
    BY <1>2, <1>11
  <2>4. st'[t] = "relock"
    BY <1>2, <1>11
  <2>5. \A u \in Tasks : u \in Held' <=> u \in Held \/ u = t
    BY <1>1, <1>7, <2>2 DEF Held
  <2>6. PollInv'
    BY <1>1, <1>2, <2>1, <2>3, <2>4 DEF PollInv, Completed
  <2>7. RefInv' /\ NoLostWakeup'
    BY <1>1, <1>2, <1>8, <2>1, <2>5 DEF RefInv, NoLostWakeup
  <2>8. /\ \A u \in Tasks : Guard(u)' <=> Guard(u)
        /\ \A u \in Tasks : Blocked(u)' <=> Blocked(u) \/ u = t
    BY <1>1, <1>2, <2>1, <2>3, <2>4 DEF Guard, Blocked
  <2>9. MutualExclusion'
    BY <2>2, <2>8 DEF MutualExclusion
  <2>10. WaitersAreBlocked'
    <3>1. ASSUME NEW j \in DOMAIN waiters'
          PROVE  \E u \in Tasks : /\ waiters'[j].task = u
                                  /\ st'[u] \in {"lock", "relock"}
                                  /\ waiters'[j] = Entry(u)'
                                  /\ Blocked(u)'
      <4>1. CASE waiters'[j] = Entry(t)'
        BY <1>7, <2>4, <2>8, <4>1
      <4>2. ASSUME NEW i \in DOMAIN waiters, waiters'[j] = waiters[i]
            PROVE  \E u \in Tasks : /\ waiters'[j].task = u
                                    /\ st'[u] \in {"lock", "relock"}
                                    /\ waiters'[j] = Entry(u)'
                                    /\ Blocked(u)'
        <5>1. PICK u \in Tasks : u = waiters[i].task /\ u # t
          BY <1>3
        <5>2. /\ st[u] \in {"lock", "relock"} /\ waiters[i] = Entry(u)
              /\ Blocked(u) \/ running = u
          BY <5>1 DEF WaitersAreBlocked
        <5> QED BY <1>1, <1>6, <2>3, <2>8, <4>2, <5>1, <5>2
      <4> QED BY <2>2, <4>1, <4>2
    <3>2. ASSUME NEW u \in Tasks, Blocked(u)'
          PROVE  \E i \in DOMAIN waiters' : waiters'[i] = Entry(u)'
      <4>1. CASE u = t
        BY <2>2, <4>1
      <4>2. CASE Blocked(u) /\ u # t
        <5>1. PICK i \in DOMAIN waiters : waiters[i] = Entry(u)
          BY <4>2 DEF WaitersAreBlocked
        <5> QED BY <1>6, <2>2, <4>2, <5>1
      <4> QED BY <2>8, <3>2, <4>1, <4>2
    <3>3. \A j, k \in DOMAIN waiters' : waiters'[j].id = waiters'[k].id => j = k
      BY <2>2
    <3> QED BY <3>1, <3>2, <3>3 DEF WaitersAreBlocked
  <2>11. HeadWaiterScheduled'
    BY <2>2 DEF HeadWaiterScheduled
  <2>12. NotifiedIsScheduled'
    BY <1>1, <1>2, <1>6, <1>8, <2>1, <2>3, <2>4 DEF NotifiedIsScheduled
  <2> QED BY <1>9, <1>11, <2>6, <2>7, <2>9, <2>10, <2>11, <2>12
<1> QED BY <1>10, <1>11 DEF PollCondWoken

-----------------------------------------------------------------------------
(* The steps of a notification.                                            *)

LEMMA NotifyInv ==
  ASSUME TypeOK, Inv, NEW t \in Tasks, Notify(t)
  PROVE  Inv'
<1> USE NoneAssumption DEF Inv, ExecInv, LockInv, WakeInv
<1>1. /\ running = t /\ st[t] \in {"run", "hold"} /\ t \notin parked
      /\ UNCHANGED <<ready, batch, running, future, is_locked, next_waiter_id,
                     waiters, cond, woken, st, fid, parked, rounds, stopped,
                     panicked>>
  BY DEF Notify, InTask, execVars, lockVars, taskVars, stopVars
<1>2. \A u \in Tasks : Queued(u)' <=> Queued(u)
  BY <1>1, SameQueued
<1>3. Held' = Held
  BY <1>1, SameHeld
<1>4. ExecInv'
  BY <1>1, <1>2, <1>3 DEF PollInv, RefInv, NoLostWakeup, Completed
<1>5. LockInv'
  BY <1>1 DEF IdInv, MutualExclusion, WaitersAreBlocked, Guard, Blocked, Entry
<1>6. WakeInv'
  BY <1>1, <1>2, EntryTasks
     DEF CondInv, HeadWaiterScheduled, NotifiedIsScheduled, Entry
<1> QED BY <1>4, <1>5, <1>6

LEMMA NotifyEndInv ==
  ASSUME TypeOK, Inv, NotifyEnd
  PROVE  Inv'
<1> USE NoneAssumption DEF Inv, ExecInv, LockInv, WakeInv
<1>1. /\ notify' = "no"
      /\ UNCHANGED <<ready, batch, running, future, is_locked, next_waiter_id,
                     waiters, cond, woken, st, fid, parked, rounds, stopped,
                     panicked>>
  BY DEF NotifyEnd, execVars, lockVars, taskVars, stopVars
<1>2. \A u \in Tasks : Queued(u)' <=> Queued(u)
  BY <1>1, SameQueued
<1>3. Held' = Held
  BY <1>1, SameHeld
<1>4. ExecInv'
  BY <1>1, <1>2, <1>3 DEF PollInv, RefInv, NoLostWakeup, Completed
<1>5. LockInv'
  BY <1>1 DEF IdInv, MutualExclusion, WaitersAreBlocked, Guard, Blocked, Entry
<1>6. WakeInv'
  BY <1>1, <1>2, EntryTasks
     DEF CondInv, HeadWaiterScheduled, NotifiedIsScheduled, Entry
<1> QED BY <1>4, <1>5, <1>6

(* The head of the list goes; the waker in it kept its task alive.         *)
LEMMA TailHeld ==
  ASSUME TypeOK, cond # <<>>, cond' = Tail(cond),
         UNCHANGED <<parked, waiters>>
  PROVE  /\ Head(cond) = cond[1] /\ 1 \in DOMAIN cond
         /\ Head(cond).task \in Tasks /\ Head(cond).task \in Held
         /\ Head(cond).id \in Nat
         /\ Held' \subseteq Held
         /\ Held \subseteq Held' \cup {Head(cond).task}
         /\ \A j \in DOMAIN cond' : \E i \in DOMAIN cond :
              i # 1 /\ cond'[j] = cond[i]
         /\ \A i \in DOMAIN cond : i # 1 =>
              \E j \in DOMAIN cond' : cond'[j] = cond[i]
<1>1. /\ 1 \in DOMAIN cond /\ Head(cond) = cond[1]
      /\ \A i \in DOMAIN cond' : i + 1 \in DOMAIN cond /\ i + 1 # 1
                                 /\ cond'[i] = cond[i + 1]
      /\ \A i \in DOMAIN cond :
           i # 1 => i - 1 \in DOMAIN cond' /\ cond'[i - 1] = cond[i]
  BY TailElements DEF TypeOK
<1>2. /\ \A j \in DOMAIN cond' : \E i \in DOMAIN cond :
           i # 1 /\ cond'[j] = cond[i]
      /\ \A i \in DOMAIN cond : i # 1 =>
           \E j \in DOMAIN cond' : cond'[j] = cond[i]
  BY <1>1
<1>3. Head(cond).task \in Tasks /\ Head(cond).task \in Held
  BY <1>1, EntryTasks DEF Held
<1>4. Held' \subseteq Held /\ Held \subseteq Held' \cup {Head(cond).task}
  BY <1>1, <1>2, HeldBy DEF Held
<1> QED BY <1>1, <1>2, <1>3, <1>4, EntryTasks

LEMMA NotifyEntryInv ==
  ASSUME TypeOK, Inv, NotifyEntry
  PROVE  Inv'
<1> USE NoneAssumption DEF Inv, ExecInv, LockInv, WakeInv
<1>1. /\ notify # "no" /\ cond # <<>> /\ cond' = Tail(cond)
      /\ UNCHANGED <<batch, running, st, fid, parked, rounds, stopped, panicked>>
      /\ UNCHANGED <<next_waiter_id, waiters>>
  BY DEF NotifyEntry, DropWaker, DropGuard, lockVars, taskVars, stopVars
<1>2. PICK u \in Tasks : u = Head(cond).task
  BY <1>1, TailHeld
<1> DEFINE f == Head(cond).id
<1>3. /\ Head(cond) = cond[1] /\ 1 \in DOMAIN cond
      /\ f \in Nat /\ u \in Held
      /\ Held' \subseteq Held
      /\ Held \subseteq Held' \cup {u}
      /\ \A j \in DOMAIN cond' : \E i \in DOMAIN cond :
           i # 1 /\ cond'[j] = cond[i]
      /\ \A i \in DOMAIN cond : i # 1 =>
           \E j \in DOMAIN cond' : cond'[j] = cond[i]
  BY <1>1, <1>2, TailHeld
<1>4. IdInv'
  <2>1. \A j \in DOMAIN cond' : cond'[j].id < next_waiter_id
    BY <1>3 DEF IdInv
  <2>2. \A j \in DOMAIN cond', v \in Tasks :
          st[v] # "run" /\ cond'[j].id = fid[v] => cond'[j].task = v
    BY <1>3 DEF IdInv
  <2> QED BY <1>1, <2>1, <2>2 DEF IdInv
<1>5. \A v \in Tasks : Entry(v)' = Entry(v)
  BY <1>1 DEF Entry
<1>6. \A j \in DOMAIN cond' : cond'[j].id \notin woken =>
        cond'[j] = Entry(cond'[j].task) /\ st[cond'[j].task] = "cond"
  BY <1>3 DEF CondInv
<1>7. \A j \in DOMAIN cond' : cond'[j].task \in Tasks
  BY <1>3, EntryTasks
<1>8. \A v \in Tasks : Entry(v).id = fid[v] /\ Entry(v).task = v
  BY DEF Entry
<1>9. CASE /\ f \notin woken
           /\ woken' = woken \cup {f}
           /\ Wake(u)
           /\ notify' \in {notify, "no"}
           /\ UNCHANGED <<future, is_locked>>
  <2>1. \A v \in Tasks : Queued(v)' <=> Queued(v) \/ v = u
    BY <1>1, <1>9, WakeQueued DEF TypeOK
  <2>2. PollInv'
    BY <1>1, <1>9 DEF PollInv, Completed
  <2>3. RefInv' /\ NoLostWakeup'
    BY <1>1, <1>3, <1>9, <2>1 DEF RefInv, NoLostWakeup
  <2>4. MutualExclusion' /\ WaitersAreBlocked'
    BY <1>1, <1>9 DEF MutualExclusion, WaitersAreBlocked, Guard, Blocked, Entry
  <2>5. CondInv'
    <3>1. \A g \in woken' : g < next_waiter_id
      BY <1>3, <1>9 DEF CondInv, IdInv
    <3>2. \A j \in DOMAIN cond' : cond'[j].id \notin woken' =>
            \E v \in Tasks : /\ cond'[j].task = v
                             /\ cond'[j] = Entry(v) /\ st[v] = "cond"
      BY <1>6, <1>7, <1>9
    <3> QED BY <1>1, <1>5, <3>1, <3>2 DEF CondInv
  <2>6. HeadWaiterScheduled'
    BY <1>1, <1>9, <2>1, EntryTasks DEF HeadWaiterScheduled
  <2>7. NotifiedIsScheduled'
    <3>1. ASSUME NEW v \in Tasks, st[v] = "cond", future[v] = "some"
          PROVE  IF fid[v] \in woken' THEN stopped \/ Queued(v)'
                 ELSE \E j \in DOMAIN cond' : cond'[j] = Entry(v)
      <4>1. CASE fid[v] \in woken
        BY <1>9, <2>1, <3>1, <4>1 DEF NotifiedIsScheduled
      <4>2. CASE fid[v] = f
        <5>1. u = v
          BY <1>2, <1>3, <3>1, <4>2 DEF IdInv
        <5> QED BY <1>9, <2>1, <4>2, <5>1
      <4>3. CASE fid[v] \notin woken /\ fid[v] # f
        <5>1. PICK i \in DOMAIN cond : cond[i] = Entry(v)
          BY <3>1, <4>3 DEF NotifiedIsScheduled
        <5>2. i # 1
          BY <1>3, <1>8, <4>3, <5>1
        <5> QED BY <1>3, <1>9, <4>3, <5>1, <5>2
      <4> QED BY <4>1, <4>2, <4>3
    <3> QED BY <1>1, <1>5, <1>9, <3>1 DEF NotifiedIsScheduled
  <2> QED BY <1>4, <2>2, <2>3, <2>4, <2>5, <2>6, <2>7
<1>10. ASSUME f \in woken, UNCHANGED <<woken, notify>>,
              \A v \in Tasks : future'[v] \in {future[v], "dropped"},
              \A v \in Tasks : Queued(v) => Queued(v)'
       PROVE  CondInv' /\ NotifiedIsScheduled'
  <2>1. CondInv'
    <3>1. \A j \in DOMAIN cond' : cond'[j].id \notin woken' =>
            \E v \in Tasks : /\ cond'[j].task = v
                             /\ cond'[j] = Entry(v) /\ st[v] = "cond"
      BY <1>6, <1>7, <1>10
    <3> QED BY <1>1, <1>5, <1>10, <3>1 DEF CondInv
  <2>2. ASSUME NEW v \in Tasks, st[v] = "cond", future[v] = "some"
        PROVE  IF fid[v] \in woken THEN stopped \/ Queued(v)'
               ELSE \E j \in DOMAIN cond' : cond'[j] = Entry(v)
    <3>1. CASE fid[v] \in woken
      BY <1>10, <2>2, <3>1 DEF NotifiedIsScheduled
    <3>2. CASE fid[v] \notin woken
      <4>1. PICK i \in DOMAIN cond : cond[i] = Entry(v)
        BY <2>2, <3>2 DEF NotifiedIsScheduled
      <4>2. i # 1
        BY <1>3, <1>8, <1>10, <3>2, <4>1
      <4> QED BY <1>3, <3>2, <4>1, <4>2
    <3> QED BY <3>1, <3>2
  <2>3. NotifiedIsScheduled'
    BY <1>1, <1>5, <1>10, <2>2 DEF NotifiedIsScheduled
  <2> QED BY <2>1, <2>3
<1>11. CASE /\ f \in woken /\ ~LastReference(u)
            /\ UNCHANGED <<woken, notify, future, ready, is_locked>>
  <2>1. \A v \in Tasks : Queued(v)' <=> Queued(v)
    BY <1>1, <1>11, SameQueued
  <2>2. PollInv' /\ RefInv'
    BY <1>1, <1>3, <1>11, <2>1 DEF PollInv, RefInv, Completed
  <2>3. future[u] # "some" \/ Queued(u) \/ u \in Held'
    <3>1. CASE u \in parked
      BY <1>1, <3>1 DEF Held
    <3>2. CASE \E i \in DOMAIN waiters : waiters[i].task = u
      BY <1>1, <3>2 DEF Held
    <3>3. CASE \E i \in 2 .. Len(cond) : cond[i].task = u
      <4>1. PICK i \in 2 .. Len(cond) : cond[i].task = u
        BY <3>3
      <4>2. i \in DOMAIN cond /\ i # 1
        BY <4>1, EntryTasks
      <4> QED BY <1>3, <4>1, <4>2 DEF Held
    <3> QED BY <1>11, <3>1, <3>2, <3>3 DEF LastReference
  <2>4. NoLostWakeup'
    BY <1>1, <1>3, <1>11, <2>1, <2>3 DEF NoLostWakeup
  <2>5. MutualExclusion' /\ WaitersAreBlocked'
    BY <1>1, <1>11 DEF MutualExclusion, WaitersAreBlocked, Guard, Blocked, Entry
  <2>6. HeadWaiterScheduled'
    BY <1>1, <1>11, <2>1, EntryTasks DEF HeadWaiterScheduled
  <2> QED BY <1>4, <1>10, <1>11, <2>1, <2>2, <2>4, <2>5, <2>6
<1>12. CASE /\ f \in woken /\ LastReference(u)
            /\ future' = [future EXCEPT ![u] = "dropped"]
            /\ IF st[u] = "hold" THEN DropGuard ELSE UNCHANGED <<ready, is_locked>>
            /\ UNCHANGED <<woken, notify>>
  <2>1. /\ future \in [Tasks -> FutureStates]
        /\ future[u] = "some" /\ ~Queued(u) /\ u \notin parked
        /\ \A i \in DOMAIN waiters : waiters[i].task # u
        /\ \A i \in DOMAIN cond : i # 1 => cond[i].task # u
    BY <1>12, EntryTasks DEF LastReference, TypeOK, ExecTypeOK
  <2>2. /\ \A v \in Tasks : v # u => future'[v] = future[v]
        /\ future'[u] = "dropped"
    BY <1>12, <2>1
  <2>3. /\ \A v \in Tasks : Queued(v) => Queued(v)'
        /\ \A v \in Tasks :
             Queued(v)' => Queued(v) \/ future[v] \notin {"unborn", "dropped"}
        /\ \A v \in Tasks :
             Queued(v)' => Queued(v) \/ \E i \in DOMAIN waiters : waiters[i].task = v
    <3>1. CASE st[u] = "hold"
      BY <1>1, <1>12, <3>1, DropGuardEffect
    <3>2. CASE st[u] # "hold"
      BY <1>1, <1>12, <3>2, SameQueued
    <3> QED BY <3>1, <3>2
  <2>4. st[u] \notin {"lock", "relock"}
    BY <2>1 DEF WaitersAreBlocked, Blocked, Entry
  <2>5. u \notin Held'
    BY <1>1, <1>3, <2>1 DEF Held
  <2>6. PollInv'
    BY <1>1, <1>12, <2>1, <2>2, <2>4 DEF PollInv, Completed
  <2>7. RefInv'
    <3>1. ~Queued(u)'
      BY <2>1, <2>3
    <3> QED BY <1>3, <2>2, <2>3, <2>5, <3>1 DEF RefInv
  <2>8. NoLostWakeup'
    BY <1>1, <1>3, <2>2, <2>3 DEF NoLostWakeup
  <2>9. MutualExclusion'
    <3>1. \A v \in Tasks : Guard(v)' <=> Guard(v) /\ v # u
      BY <1>1, <2>2 DEF Guard
    <3>2. Guard(u) <=> st[u] = "hold"
      BY <2>1 DEF Guard
    <3>3. CASE st[u] = "hold"
      BY <1>12, <3>1, <3>2, <3>3 DEF MutualExclusion, DropGuard
    <3>4. CASE st[u] # "hold"
      BY <1>12, <3>1, <3>2, <3>4 DEF MutualExclusion
    <3> QED BY <3>3, <3>4
  <2>10. \A v \in Tasks : Blocked(v)' <=> Blocked(v)
    BY <1>1, <2>2, <2>4 DEF Blocked
  <2>11. WaitersAreBlocked'
    BY <1>1, <1>5, <2>10, EntryTasks DEF WaitersAreBlocked
  <2>12. HeadWaiterScheduled'
    <3>1. CASE st[u] = "hold"
      <4>1. waiters # <<>> => Queued(waiters[1].task)'
        BY <1>1, <1>12, <3>1, DropGuardEffect
      <4> QED BY <1>1, <4>1 DEF HeadWaiterScheduled
    <3>2. CASE st[u] # "hold"
      BY <1>1, <1>12, <2>3, <3>2, EntryTasks DEF HeadWaiterScheduled
    <3> QED BY <3>1, <3>2
  <2> QED BY <1>4, <1>10, <1>12, <2>2, <2>3, <2>6, <2>7, <2>8, <2>9, <2>11, <2>12
<1> QED BY <1>2, <1>9, <1>11, <1>12 DEF NotifyEntry, DropWaker, lockVars

-----------------------------------------------------------------------------
(* stop() drops tasks that only the ready queue refers to: none of them is *)
(* in the queue of the mutex or in the list of the condition variable, but *)
(* one may hold the guard.                                                 *)
LEMMA StopInv ==
  ASSUME TypeOK, Inv, Stop
  PROVE  Inv'
<1> USE NoneAssumption DEF Inv, ExecInv, LockInv, WakeInv
<1> DEFINE Gone(u) == u \in Orphans(Held) /\ future[u] = "some"
<1>1. /\ ~panicked /\ stopped' = TRUE /\ ready' = <<>>
      /\ UNCHANGED <<batch, running, next_waiter_id, waiters, cond, woken,
                     notify, st, fid, parked, rounds>>
      /\ IF \E t \in Orphans(Held) : st[t] = "hold"
         THEN is_locked' = FALSE ELSE UNCHANGED is_locked
  BY DEF Stop, ClearReady, condVars, taskVars
<1>2. \A u \in Tasks : Queued(u)' <=> u \in Range(batch)
  BY ClearQueued DEF Stop
<1>3. \A u \in Tasks : future'[u] = IF Gone(u) THEN "dropped" ELSE future[u]
  BY DEF Stop, ClearReady
<1>4. /\ \A u \in Orphans(Held) :
           u \in Tasks /\ Queued(u) /\ u \notin Range(batch)
           /\ u # running /\ u \notin Held
      /\ \A u \in Tasks : Queued(u) =>
           u \in Orphans(Held) \/ u \in Range(batch) \/ u = running \/ u \in Held
  <2>1. Range(ready) \subseteq Tasks
    BY DEF TypeOK, ExecTypeOK, Range
  <2> QED BY <2>1 DEF Orphans, Queued
<1>5. Held' = Held
  BY <1>1, SameHeld
<1>6. \A u \in Tasks : Gone(u) => st[u] \notin {"lock", "relock"}
  <2> SUFFICES ASSUME NEW u \in Tasks, Gone(u), st[u] \in {"lock", "relock"}
               PROVE  FALSE
    OBVIOUS
  <2>1. PICK i \in DOMAIN waiters : waiters[i] = Entry(u)
    BY DEF WaitersAreBlocked, Blocked
  <2>2. u \in Held
    BY <2>1 DEF Held, Entry
  <2> QED BY <1>4, <2>2
<1>7. PollInv'
  <2>1. running # None => running \in Tasks
    BY DEF TypeOK, ExecTypeOK
  <2> QED BY <1>1, <1>3, <1>6, <2>1 DEF PollInv, Completed
<1>8. RefInv'
  BY <1>2, <1>3, <1>4, <1>5 DEF RefInv, Queued
<1>9. NoLostWakeup'
  <2> SUFFICES ASSUME NEW u \in Tasks, future'[u] = "some"
               PROVE  Queued(u)' \/ u \in Held'
    BY DEF NoLostWakeup
  <2>1. future[u] = "some" /\ ~Gone(u)
    BY <1>3
  <2>2. u # running
    BY <2>1 DEF PollInv
  <2> QED BY <1>1, <1>2, <1>4, <1>5, <2>1, <2>2 DEF NoLostWakeup
<1>10. IdInv' /\ CondInv'
  BY <1>1 DEF IdInv, CondInv, Entry
<1>11. MutualExclusion'
  <2>1. \A u \in Tasks : Guard(u)' <=> Guard(u) /\ ~Gone(u)
    BY <1>1, <1>3 DEF Guard
  <2>2. ASSUME NEW u \in Orphans(Held), st[u] = "hold"
        PROVE  Gone(u) /\ Guard(u)
    <3>1. u \in Tasks /\ Queued(u) /\ u # running
      BY <1>4
    <3>2. future[u] \notin {"unborn", "dropped"}
      BY <2>2, <3>1 DEF PollInv, RefInv
    <3>3. future[u] # "none"
      BY <2>2, <3>1 DEF PollInv, Completed
    <3>4. future[u] = "some"
      BY <3>1, <3>2, <3>3 DEF TypeOK, ExecTypeOK, FutureStates
    <3> QED BY <2>2, <3>4 DEF Guard
  <2>3. CASE \E t \in Orphans(Held) : st[t] = "hold"
    <3>1. PICK t \in Orphans(Held) : st[t] = "hold"
      BY <2>3
    <3>2. t \in Tasks /\ Gone(t) /\ Guard(t)
      BY <1>4, <2>2, <3>1
    <3>3. \A u \in Tasks : ~Guard(u)'
      BY <2>1, <3>2 DEF MutualExclusion
    <3> QED BY <1>1, <2>3, <3>3 DEF MutualExclusion
  <2>4. CASE ~\E t \in Orphans(Held) : st[t] = "hold"
    <3>1. \A u \in Tasks : Guard(u)' <=> Guard(u)
      BY <2>1, <2>4 DEF Guard
    <3> QED BY <1>1, <2>4, <3>1 DEF MutualExclusion
  <2> QED BY <2>3, <2>4
<1>12. \A u \in Tasks : Blocked(u)' <=> Blocked(u)
  BY <1>1, <1>3, <1>6 DEF Blocked
<1>13. WaitersAreBlocked'
  BY <1>1, <1>12, EntryTasks DEF WaitersAreBlocked, Entry
<1>14. HeadWaiterScheduled'
  BY <1>1 DEF HeadWaiterScheduled
<1>15. NotifiedIsScheduled'
  BY <1>1, <1>3 DEF NotifiedIsScheduled, Entry
<1> QED BY <1>7, <1>8, <1>9, <1>10, <1>11, <1>13, <1>14, <1>15

LEMMA StutterInv ==
  ASSUME Inv, UNCHANGED vars
  PROVE  Inv'
<1>1. Held' = Held
  BY DEF vars, Held
<1> QED
  BY <1>1
     DEF vars, Inv, ExecInv, LockInv, WakeInv, PollInv, RefInv, NoLostWakeup,
         IdInv, MutualExclusion, WaitersAreBlocked, CondInv,
         HeadWaiterScheduled, NotifiedIsScheduled, Completed, Guard, Blocked,
         Queued, Entry

LEMMA InvNext == TypeOK /\ Inv /\ [Next]_vars => Inv'
<1> SUFFICES ASSUME TypeOK, Inv, [Next]_vars
             PROVE  Inv'
  OBVIOUS
<1>1. CASE ExecStep
  BY <1>1, ExecuteInv, BeginPollInv DEF ExecStep
<1>2. CASE NotifyStep
  BY <1>2, NotifyEntryInv, NotifyEndInv DEF NotifyStep
<1>3. CASE Stop
  BY <1>3, StopInv
<1>4. CASE \E t \in Tasks : Spawn(t) \/ Fire(t)
  BY <1>4, SpawnInv, FireInv
<1>5. CASE \E t \in Tasks : TaskStep(t)
  BY <1>5, AwaitInv, FinishInv, LockStepInv, PollLockAcquireInv,
     PollLockPendingInv, UnlockInv, PollCondPendingInv, PollCondWokenInv,
     NotifyInv
     DEF TaskStep
<1>6. CASE UNCHANGED vars
  BY <1>6, StutterInv
<1> QED BY <1>1, <1>2, <1>3, <1>4, <1>5, <1>6 DEF Next

(* The invariant holds in every reachable state, with stop() called at any *)
(* time and with tasks polled spuriously.                                  *)
THEOREM InvCorrect == Spec => [](TypeOK /\ Inv)
<1>1. Init => TypeOK /\ Inv
  BY TypeInit, InvInit
<1>2. TypeOK /\ Inv /\ [Next]_vars => TypeOK' /\ Inv'
  BY TypeNext, InvNext
<1> QED BY <1>1, <1>2, PTL DEF Spec

-----------------------------------------------------------------------------
(* What follows from it.                                                   *)

(* At most one guard exists, and is_locked says whether one does, for      *)
(* every interleaving of lock, barging, wait, notification and stop().     *)
THEOREM GuardsExclude == Spec => []MutualExclusion
<1>1. TypeOK /\ Inv => MutualExclusion
  BY DEF Inv, LockInv
<1> QED BY <1>1, InvCorrect, PTL

(* The queue of the mutex holds the tasks blocked on it, each once, and    *)
(* nothing else: the wake of a dropped guard never goes to a stale entry.  *)
THEOREM QueueIsBlocked == Spec => []WaitersAreBlocked
<1>1. TypeOK /\ Inv => WaitersAreBlocked
  BY DEF Inv, LockInv
<1> QED BY <1>1, InvCorrect, PTL

(* While the mutex is free and stop() was not called, the first waiter is  *)
(* scheduled: no wake of the mutex is lost.                                *)
THEOREM MutexWakesHead == Spec => []HeadWaiterScheduled
<1>1. TypeOK /\ Inv => HeadWaiterScheduled
  BY DEF Inv, WakeInv
<1> QED BY <1>1, InvCorrect, PTL

(* Whoever waits on the condition variable is registered until notified    *)
(* and scheduled afterwards: no notification is lost.                      *)
THEOREM CondvarWakes == Spec => []NotifiedIsScheduled
<1>1. TypeOK /\ Inv => NotifiedIsScheduled
  BY DEF Inv, WakeInv
<1> QED BY <1>1, InvCorrect, PTL

(* A suspended task always has a waker somewhere: stop() drops a task only *)
(* together with its future.                                               *)
THEOREM SuspendedIsReachable == Spec => []NoLostWakeup
<1>1. TypeOK /\ Inv => NoLostWakeup
  BY DEF Inv, ExecInv
<1> QED BY <1>1, InvCorrect, PTL

-----------------------------------------------------------------------------
(* The steps of a notification, whatever else the program does.            *)

(* Nothing runs between the iterations of the loop.                        *)
LEMMA NotifyRunsAlone ==
  ASSUME TypeOK, Inv, notify # "no", Next
  PROVE  NotifyEntry \/ NotifyEnd
<1> USE NoneAssumption
<1>1. /\ running # None /\ running \in Tasks /\ st[running] \in {"run", "hold"}
      /\ running \notin parked
  BY DEF Inv, ExecInv, PollInv, TypeOK, ExecTypeOK
<1>2. ~ExecStep
  BY <1>1 DEF ExecStep, Execute, BeginPoll, BatchDone, PollNext, SkipCompleted
<1>3. ~Stop
  BY <1>1 DEF Stop, BatchDone, InTask
<1>4. \A t \in Tasks : ~Spawn(t) /\ ~Fire(t)
  BY DEF Spawn, Fire
<1>5. ASSUME NEW t \in Tasks
      PROVE  ~TaskStep(t)
  <2>1. ~InTask(t)
    BY DEF InTask
  <2>2. ~Await(t) /\ ~Finish(t) /\ ~Lock(t) /\ ~Unlock(t) /\ ~Wait(t) /\ ~Notify(t)
    BY <1>1, <2>1
       DEF Await, Finish, Lock, Unlock, Wait, Notify, ReturnPending
  <2>3. ~PollLockAcquire(t) /\ ~PollLockPending(t)
    BY <1>1 DEF PollLockAcquire, PollLockPending, ReturnPending
  <2>4. ~PollCondPending(t) /\ ~PollCondWoken(t)
    BY <1>1 DEF PollCondPending, PollCondWoken, ReturnPending
  <2> QED BY <2>2, <2>3, <2>4 DEF TaskStep
<1> QED BY <1>2, <1>3, <1>4, <1>5 DEF Next, NotifyStep

(* An entry whose flag is not set is the one of a waiting task.            *)
LEMMA EntryWaits ==
  ASSUME TypeOK, Inv, notify # "no", cond # <<>>,
         Head(cond).id \notin woken
  PROVE  LET u == Head(cond).task
         IN  u \in Tasks /\ Waiting(u) /\ fid[u] = Head(cond).id
<1> USE NoneAssumption DEF Inv, ExecInv, LockInv, WakeInv
<1>1. Head(cond) = cond[1] /\ 1 \in DOMAIN cond
  BY TailElements DEF TypeOK
<1>2. PICK u \in Tasks : u = Head(cond).task
  BY <1>1, EntryTasks
<1>3. st[u] = "cond" /\ fid[u] = Head(cond).id
  BY <1>1, <1>2 DEF CondInv, Entry
<1>4. running # u
  BY <1>3 DEF PollInv
<1>5. future[u] # "none" /\ future[u] # "unborn"
  BY <1>3, <1>4 DEF PollInv, Completed
<1>6. u \in Held
  BY <1>1, <1>2 DEF Held
<1>7. future[u] # "dropped"
  BY <1>6 DEF RefInv
<1>8. future[u] = "some"
  BY <1>5, <1>7 DEF TypeOK, ExecTypeOK, FutureStates
<1> QED BY <1>2, <1>3, <1>8 DEF Waiting

(* One iteration of the loop either wakes exactly the task of the entry or *)
(* drops a waker nobody waits with.                                        *)
LEMMA NotifyEntryWakes ==
  ASSUME TypeOK, Inv, NotifyEntry
  PROVE  \/ /\ notify' = notify
            /\ {v \in Tasks : Waiting(v)'} = {v \in Tasks : Waiting(v)}
         \/ /\ notify' = IF notify = "one" THEN "no" ELSE notify
            /\ \E u \in {v \in Tasks : Waiting(v)} :
                 {v \in Tasks : Waiting(v)'} = {v \in Tasks : Waiting(v)} \ {u}
<1> USE DEF Inv, ExecInv, LockInv, WakeInv
<1>1. /\ notify # "no" /\ cond # <<>> /\ cond' = Tail(cond)
      /\ UNCHANGED <<running, st, fid, parked, waiters>>
  BY DEF NotifyEntry, DropWaker, DropGuard, lockVars, taskVars
<1>2. Head(cond) = cond[1] /\ 1 \in DOMAIN cond
  BY <1>1, TailElements DEF TypeOK
<1>3. PICK u \in Tasks : u = Head(cond).task
  BY <1>2, EntryTasks
<1>4. CASE /\ Head(cond).id \notin woken
           /\ woken' = woken \cup {Head(cond).id}
           /\ notify' = IF notify = "one" THEN "no" ELSE notify
           /\ UNCHANGED future
  <2>1. Waiting(u) /\ fid[u] = Head(cond).id
    BY <1>1, <1>3, <1>4, EntryWaits
  <2>2. \A v \in Tasks : st[v] = "cond" /\ fid[v] = Head(cond).id => v = u
    BY <1>2, <1>3 DEF IdInv
  <2>3. \A v \in Tasks : Waiting(v)' <=> Waiting(v) /\ v # u
    BY <1>1, <1>4, <2>1, <2>2 DEF Waiting
  <2> QED BY <1>4, <2>1, <2>3
<1>5. CASE /\ Head(cond).id \in woken
           /\ DropWaker(u)
           /\ UNCHANGED <<woken, notify>>
  <2>1. Waiting(u) => ~LastReference(u)
    <3> SUFFICES ASSUME Waiting(u)
                 PROVE  ~LastReference(u)
      OBVIOUS
    <3>1. PICK i \in DOMAIN cond : cond[i] = Entry(u)
      BY DEF Waiting, NotifiedIsScheduled
    <3>2. i # 1
      BY <1>2, <1>5, <3>1 DEF Waiting, Entry
    <3>3. i \in 2 .. Len(cond) /\ cond[i].task = u
      BY <3>1, <3>2, EntryTasks DEF Entry
    <3> QED BY <3>3 DEF LastReference
  <2>2. \A v \in Tasks :
          \/ future'[v] = future[v]
          \/ v = u /\ LastReference(u) /\ future'[v] = "dropped"
    BY <1>5 DEF DropWaker, TypeOK, ExecTypeOK
  <2>3. \A v \in Tasks : Waiting(v)' <=> Waiting(v)
    BY <1>1, <1>5, <2>1, <2>2 DEF Waiting
  <2> QED BY <1>5, <2>3
<1> QED BY <1>3, <1>4, <1>5 DEF NotifyEntry

(* The three clauses of NotifyWakes, for one step.                         *)
LEMMA NotifyWakesStep ==
  ASSUME TypeOK, Inv, [Next]_vars
  PROVE  LET before == {u \in Tasks : Waiting(u)}
             after == {u \in Tasks : Waiting(u)'}
         IN  /\ notify = "one" /\ notify' = "one" => after = before
             /\ notify = "one" /\ notify' = "no" =>
                  before = {} \/ \E u \in before : after = before \ {u}
             /\ notify = "all" /\ notify' = "no" => after = {}
<1> DEFINE before == {u \in Tasks : Waiting(u)}
           after == {u \in Tasks : Waiting(u)'}
<1>1. CASE notify = "no"
  BY <1>1
<1>2. CASE NotifyEntry
  BY <1>2, NotifyEntryWakes DEF NotifyEntry
<1>3. CASE NotifyEnd
  <2>1. cond = <<>> /\ notify' = "no" /\ UNCHANGED <<st, future, fid, woken>>
    BY <1>3 DEF NotifyEnd, taskVars, execVars
  <2>2. \A u \in Tasks : ~Waiting(u)
    BY <2>1 DEF Inv, WakeInv, NotifiedIsScheduled, Waiting
  <2>3. \A u \in Tasks : ~Waiting(u)'
    BY <2>1, <2>2 DEF Waiting
  <2>4. before = {} /\ after = {}
    BY <2>2, <2>3
  <2> QED BY <2>1, <2>4
<1>4. CASE UNCHANGED vars
  <2>1. \A u \in Tasks : Waiting(u)' <=> Waiting(u)
    BY <1>4 DEF vars, Waiting
  <2>2. after = before /\ notify' = notify
    BY <1>4, <2>1 DEF vars
  <2> QED BY <2>2
<1> QED BY <1>1, <1>2, <1>3, <1>4, NotifyRunsAlone

(* notify_one wakes exactly one waiting task if there is one, notify_all   *)
(* wakes them all, and no entry dropped on the way was one that a task     *)
(* waits with.                                                             *)
THEOREM NotificationsWake == Spec => NotifyWakes
<1>1. TypeOK /\ Inv /\ [Next]_vars =>
        [LET before == {u \in Tasks : Waiting(u)}
             after == {u \in Tasks : Waiting(u)'}
         IN  /\ notify = "one" /\ notify' = "one" => after = before
             /\ notify = "one" /\ notify' = "no" =>
                  before = {} \/ \E u \in before : after = before \ {u}
             /\ notify = "all" /\ notify' = "no" => after = {}]_vars
  BY NotifyWakesStep
<1>2. Spec => []([Next]_vars)
  BY PTL DEF Spec
<1> QED BY <1>1, <1>2, InvCorrect, PTL DEF NotifyWakes, Spec
=============================================================================
