------------------------------ MODULE AsyncMutex ----------------------------
(***************************************************************************)
(* The async Mutex and its Condvar under the executor: one mutex, one      *)
(* condition variable, and tasks that lock, unlock, wait, notify, await    *)
(* other things (with and without the guard), stop the runtime and finish  *)
(* in any order (src/src/sync/mutex.rs).                                   *)
(*                                                                         *)
(* Everything runs on one thread; what makes the two primitives delicate   *)
(* is the gap between a wake and the poll it leads to, in which other      *)
(* tasks of the batch run, and polls that no wake of this future caused.   *)
(***************************************************************************)
EXTENDS Executor, SequencesExt

CONSTANTS
  MaxRounds,  \* bound: calls of lock() and wait() by each task
  CanStop     \* whether the program calls stop()

ASSUME MutexAssumption == MaxRounds \in Nat /\ CanStop \in BOOLEAN

VARIABLES
  is_locked,       \* MutexInner.is_locked
  next_waiter_id,  \* MutexInner.next_waiter_id, far below 2^32 (MaxRounds)
  waiters,         \* Mutex.waiters: the (identifier, waker) pairs
  cond,            \* Condvar.waiters: the (flag, waker) pairs
  woken,           \* the flags that are true
  st,              \* what each task is doing (see States)
  fid,             \* the identifier of the last LockFuture of each task
  parked,          \* tasks awaiting something else that is not ready yet
  notify,          \* the loop of notify_one or notify_all in progress
  rounds,          \* calls of lock() and wait() so far (see MaxRounds)
  stopped,         \* stop() cleared the queue at least once
  panicked         \* the thread panicked

lockVars == <<is_locked, next_waiter_id, waiters>>
condVars == <<cond, woken, notify>>
taskVars == <<st, fid, parked, rounds>>
stopVars == <<stopped, panicked>>
vars == <<ready, batch, running, future, is_locked, next_waiter_id, waiters,
          cond, woken, notify, st, fid, parked, rounds, stopped,
          panicked>>

(***************************************************************************)
(* run      in its own code, without the guard                             *)
(* lock     awaiting a LockFuture                                          *)
(* hold     in its own code, with the LockGuard                            *)
(* cond     awaiting a CondWait that has no lock future yet                *)
(* relock   awaiting the lock future of a CondWait                         *)
(***************************************************************************)
States == {"run", "lock", "hold", "cond", "relock"}

(* A waker stored by the mutex, under the identifier of the LockFuture, or *)
(* by the condition variable, with the flag of the CondWait.  The guard    *)
(* given up to wait() names that flag: its identifier is not used again.   *)
Entries == [id : Nat, task : Tasks]

Entry(t) == [id |-> fid[t], task |-> t]

TypeOK ==
  /\ ExecTypeOK
  /\ is_locked \in BOOLEAN
  /\ next_waiter_id \in Nat
  /\ waiters \in Seq(Entries)
  /\ cond \in Seq(Entries)
  /\ woken \in SUBSET Nat
  /\ notify \in {"no", "one", "all"}
  /\ st \in [Tasks -> States]
  /\ fid \in [Tasks -> Nat]
  /\ parked \in SUBSET Tasks
  /\ rounds \in [Tasks -> 0 .. MaxRounds]
  /\ stopped \in BOOLEAN
  /\ panicked \in BOOLEAN

Init ==
  /\ ExecInit
  /\ is_locked = FALSE
  /\ next_waiter_id = 0
  /\ waiters = <<>>
  /\ cond = <<>>
  /\ woken = {}
  /\ notify = "no"
  /\ st = [t \in Tasks |-> "run"]
  /\ fid = [t \in Tasks |-> 0]
  /\ parked = {}
  /\ rounds = [t \in Tasks |-> 0]
  /\ stopped = FALSE
  /\ panicked = FALSE

-----------------------------------------------------------------------------
(* The executor and the rest of the program.                               *)

Spawn(t) ==
  /\ ~panicked
  /\ notify = "no"
  /\ SpawnTask(t)
  /\ UNCHANGED <<lockVars, condVars, taskVars, stopVars>>

Execute ==
  /\ ~panicked
  /\ BatchDone
  /\ TakeReady
  /\ UNCHANGED <<lockVars, condVars, taskVars, stopVars>>

BeginPoll ==
  /\ ~panicked
  /\ PollNext \/ SkipCompleted
  /\ UNCHANGED <<lockVars, condVars, taskVars, stopVars>>

(* What t awaits (a sleep, a message) is ready: its waker is used up.      *)
Fire(t) ==
  /\ ~panicked
  /\ notify = "no"
  /\ t \in parked
  /\ parked' = parked \ {t}
  /\ Wake(t)
  /\ UNCHANGED <<batch, running, future, lockVars, condVars, st, fid, rounds,
                 stopVars>>

-----------------------------------------------------------------------------
(* The code of the task being polled.                                      *)

InTask(t) ==
  /\ ~panicked
  /\ running = t
  /\ notify = "no"
  /\ st[t] \in {"run", "hold"}
  /\ t \notin parked

(* t awaits something else, with or without the guard; a poll before that  *)
(* is ready finds it pending again.                                        *)
Await(t) ==
  /\ \/ InTask(t)
     \/ ~panicked /\ t \in parked
  /\ parked' = parked \cup {t}
  /\ ReturnPending(t)
  /\ UNCHANGED <<ready, lockVars, condVars, st, fid, rounds, stopVars>>

Finish(t) ==
  /\ InTask(t)
  /\ st[t] = "run"
  /\ ReturnReady(t)
  /\ UNCHANGED <<ready, lockVars, condVars, taskVars, stopVars>>

(* Mutant: off by one.                                                     *)
NewIdMutant(t) ==
  /\ fid' = [fid EXCEPT ![t] = next_waiter_id - 1]
  /\ next_waiter_id' = next_waiter_id + 1

NewId(t) ==
  /\ fid' = [fid EXCEPT ![t] = next_waiter_id]
  /\ next_waiter_id' = next_waiter_id + 1

CountRound(t) ==
  /\ rounds[t] < MaxRounds
  /\ rounds' = [rounds EXCEPT ![t] = @ + 1]

(* Mutex::lock                                                             *)
Lock(t) ==
  /\ InTask(t)
  /\ st[t] = "run"
  /\ CountRound(t)
  /\ NewId(t)
  /\ st' = [st EXCEPT ![t] = "lock"]
  /\ UNCHANGED <<execVars, is_locked, waiters, condVars, parked, stopVars>>

(* Mutant: is_locked is not tested.                                        *)
AcquireBlindMutant(id) ==
  /\ is_locked' = TRUE
  /\ \/ \E i \in DOMAIN waiters :
          waiters[i].id = id /\ waiters' = RemoveAt(waiters, i)
     \/ /\ \A i \in DOMAIN waiters : waiters[i].id # id
        /\ UNCHANGED waiters

(* Mutant: the entry stays in the queue.                                   *)
AcquireMutant(id) ==
  /\ ~is_locked
  /\ is_locked' = TRUE
  /\ UNCHANGED waiters

(* LockFuture::poll finds the mutex free and takes the entry with its      *)
(* identifier, if there is one, out of the queue ...                       *)
Acquire(id) ==
  /\ ~is_locked
  /\ is_locked' = TRUE
  /\ \/ \E i \in DOMAIN waiters :
          /\ waiters[i].id = id
          /\ \A j \in 1 .. i - 1 : waiters[j].id # id
          /\ waiters' = RemoveAt(waiters, i)
     \/ /\ \A i \in DOMAIN waiters : waiters[i].id # id
        /\ UNCHANGED waiters

(* Mutant: any entry counts as found.                                      *)
EnqueueMutant(id, t) ==
  /\ is_locked
  /\ waiters' = IF waiters # <<>> THEN waiters
                ELSE <<[id |-> id, task |-> t]>>
  /\ UNCHANGED is_locked

(* ... or finds it taken and enters the queue, once.                       *)
Enqueue(id, t) ==
  /\ is_locked
  /\ waiters' = IF \E i \in DOMAIN waiters : waiters[i].id = id THEN waiters
                ELSE Append(waiters, [id |-> id, task |-> t])
  /\ UNCHANGED is_locked

PollLockAcquire(t) ==
  /\ ~panicked
  /\ running = t
  /\ st[t] \in {"lock", "relock"}
  /\ Acquire(fid[t])
  /\ st' = [st EXCEPT ![t] = "hold"]
  /\ UNCHANGED <<execVars, next_waiter_id, condVars, fid, parked, rounds,
                 stopVars>>

PollLockPending(t) ==
  /\ ~panicked
  /\ st[t] \in {"lock", "relock"}
  /\ Enqueue(fid[t], t)
  /\ ReturnPending(t)
  /\ UNCHANGED <<ready, next_waiter_id, condVars, taskVars, stopVars>>

(* Mutant: the last waiter is woken.                                       *)
DropGuardMutant ==
  /\ is_locked' = FALSE
  /\ IF waiters = <<>> THEN UNCHANGED ready ELSE Wake(Last(waiters).task)
  /\ UNCHANGED <<next_waiter_id, waiters>>

(* Drop of the LockGuard: wake the head of the queue and leave it there.   *)
DropGuard ==
  /\ is_locked' = FALSE
  /\ IF waiters = <<>> THEN UNCHANGED ready ELSE Wake(waiters[1].task)
  /\ UNCHANGED <<next_waiter_id, waiters>>

Unlock(t) ==
  /\ InTask(t)
  /\ st[t] = "hold"
  /\ DropGuard
  /\ st' = [st EXCEPT ![t] = "run"]
  /\ UNCHANGED <<batch, running, future, condVars, fid, parked, rounds,
                 stopVars>>

-----------------------------------------------------------------------------
(* The condition variable.                                                 *)

(* Mutant: the guard is taken apart without the wake of its drop.          *)
WaitMutant(t) ==
  /\ InTask(t)
  /\ st[t] = "hold"
  /\ CountRound(t)
  /\ is_locked' = FALSE
  /\ st' = [st EXCEPT ![t] = "cond"]
  /\ UNCHANGED <<execVars, next_waiter_id, waiters, condVars, fid, parked,
                 stopVars>>

(* Condvar::wait consumes the guard and makes a CondWait with a new flag.  *)
Wait(t) ==
  /\ InTask(t)
  /\ st[t] = "hold"
  /\ CountRound(t)
  /\ DropGuard
  /\ st' = [st EXCEPT ![t] = "cond"]
  /\ UNCHANGED <<batch, running, future, condVars, fid, parked, stopVars>>

(* CondWait::poll before a notification: register, again at every poll.    *)
PollCondPending(t) ==
  /\ ~panicked
  /\ st[t] = "cond"
  /\ fid[t] \notin woken
  /\ cond' = Append(cond, Entry(t))
  /\ ReturnPending(t)
  /\ UNCHANGED <<ready, lockVars, woken, notify, taskVars, stopVars>>

(* CondWait::poll after it: lock(), and poll the lock future at once.      *)
PollCondWoken(t) ==
  /\ ~panicked
  /\ running = t
  /\ st[t] = "cond"
  /\ fid[t] \in woken
  /\ NewId(t)
  /\ \/ /\ Acquire(next_waiter_id)
        /\ st' = [st EXCEPT ![t] = "hold"]
        /\ UNCHANGED execVars
     \/ /\ Enqueue(next_waiter_id, t)
        /\ st' = [st EXCEPT ![t] = "relock"]
        /\ ReturnPending(t)
        /\ UNCHANGED ready
  /\ UNCHANGED <<condVars, parked, rounds, stopVars>>

(* Condvar::notify_one and notify_all loop over the list from its head; an *)
(* empty list is left alone.                                               *)
Notify(t) ==
  /\ InTask(t)
  /\ cond # <<>>
  /\ notify' \in {"one", "all"}
  /\ UNCHANGED <<execVars, lockVars, cond, woken, taskVars, stopVars>>

(***************************************************************************)
(* An entry whose flag is set already is dropped with its waker.  A task   *)
(* that stop() removed from the ready queue may have its last reference    *)
(* there: it is dropped too, and the guard with it if it owns that.        *)
(***************************************************************************)
LastReference(u) ==
  /\ future[u] = "some"
  /\ ~Queued(u)
  /\ u \notin parked
  /\ \A i \in DOMAIN waiters : waiters[i].task # u
  /\ \A i \in 2 .. Len(cond) : cond[i].task # u

DropWaker(u) ==
  IF LastReference(u)
  THEN /\ future' = [future EXCEPT ![u] = "dropped"]
       /\ IF st[u] = "hold" THEN DropGuard ELSE UNCHANGED <<ready, lockVars>>
  ELSE UNCHANGED <<future, ready, lockVars>>

(* Mutant: notify_one takes the first entry, woken or not.                 *)
NotifyEntryMutant ==
  LET e == Head(cond)
  IN  /\ ~panicked
      /\ notify # "no"
      /\ cond # <<>>
      /\ cond' = Tail(cond)
      /\ woken' = woken \cup {e.id}
      /\ Wake(e.task)
      /\ notify' = IF notify = "one" THEN "no" ELSE notify
      /\ UNCHANGED <<batch, running, future, lockVars, taskVars, stopVars>>

(* Mutant: the entries after the one woken are not put back.               *)
NotifyEntryLossyMutant ==
  LET e == Head(cond)
  IN  /\ ~panicked
      /\ notify # "no"
      /\ cond # <<>>
      /\ \/ /\ e.id \notin woken
            /\ woken' = woken \cup {e.id}
            /\ Wake(e.task)
            /\ notify' = IF notify = "one" THEN "no" ELSE notify
            /\ cond' = IF notify = "one" THEN <<>> ELSE Tail(cond)
         \/ /\ e.id \in woken
            /\ cond' = Tail(cond)
            /\ UNCHANGED <<woken, notify, ready>>
      /\ UNCHANGED <<batch, running, future, lockVars, taskVars, stopVars>>

NotifyEntry ==
  LET e == Head(cond)
  IN  /\ ~panicked
      /\ notify # "no"
      /\ cond # <<>>
      /\ cond' = Tail(cond)
      /\ \/ /\ e.id \notin woken
            /\ woken' = woken \cup {e.id}
            /\ Wake(e.task)
            /\ notify' = IF notify = "one" THEN "no" ELSE notify
            /\ UNCHANGED <<future, lockVars>>
         \/ /\ e.id \in woken
            /\ DropWaker(e.task)
            /\ UNCHANGED <<woken, notify>>
      /\ UNCHANGED <<batch, running, taskVars, stopVars>>

NotifyEnd ==
  /\ ~panicked
  /\ notify # "no"
  /\ cond = <<>>
  /\ notify' = "no"
  /\ UNCHANGED <<execVars, lockVars, cond, woken, taskVars, stopVars>>

-----------------------------------------------------------------------------
(* Stopping the runtime.                                                   *)

(* The wakers stored outside the executor keep their tasks alive.          *)
Held ==
  parked \cup {waiters[i].task : i \in DOMAIN waiters}
         \cup {cond[i].task : i \in DOMAIN cond}

(***************************************************************************)
(* stop() drops the tasks that only the ready queue refers to while it     *)
(* borrows that queue.  If one of them holds the guard, the drop of the    *)
(* guard frees the mutex and wakes the head waiter, whose waker borrows    *)
(* the queue a second time: BorrowMutError.                                *)
(***************************************************************************)
Stop ==
  /\ CanStop
  /\ ~panicked
  /\ BatchDone \/ \E t \in Tasks : InTask(t)
  /\ ready # <<>>
  /\ ClearReady(Held)
  /\ stopped' = TRUE
  /\ IF \E t \in Orphans(Held) : st[t] = "hold"
     THEN is_locked' = FALSE /\ panicked' = (waiters # <<>>)
     ELSE UNCHANGED <<is_locked, panicked>>
  /\ UNCHANGED <<next_waiter_id, waiters, condVars, taskVars>>

-----------------------------------------------------------------------------
TaskStep(t) ==
  \/ Await(t) \/ Finish(t)
  \/ Lock(t) \/ PollLockAcquire(t) \/ PollLockPending(t) \/ Unlock(t)
  \/ Wait(t) \/ PollCondPending(t) \/ PollCondWoken(t)
  \/ Notify(t)

NotifyStep == NotifyEntry \/ NotifyEnd

ExecStep == Execute \/ BeginPoll

Next ==
  \/ ExecStep
  \/ NotifyStep
  \/ Stop
  \/ \E t \in Tasks : Spawn(t) \/ Fire(t) \/ TaskStep(t)

Spec == Init /\ [][Next]_vars

(***************************************************************************)
(* The driver keeps executing, a poll keeps going, and what a task awaits  *)
(* becomes ready.  A task that holds the guard gives it up in the end:     *)
(* that is up to the program and is assumed of it.                         *)
(***************************************************************************)
Fairness ==
  /\ WF_vars(ExecStep)
  /\ WF_vars(NotifyStep)
  /\ \A t \in Tasks : /\ WF_vars(TaskStep(t))
                      /\ WF_vars(Fire(t))
                      /\ SF_vars(Unlock(t) \/ Wait(t))

FairSpec == Spec /\ Fairness

-----------------------------------------------------------------------------
(* Properties.                                                             *)

(* t owns a LockGuard.                                                     *)
Guard(t) == st[t] = "hold" /\ future[t] # "dropped"

(* Mutual exclusion, and is_locked is the truth: at most one guard exists, *)
(* and the flag is set exactly while it does, with bargers, spurious polls *)
(* and guards dropped by stop().  A second guard would panic in the        *)
(* RefCell of the data.                                                    *)
MutualExclusion ==
  /\ \A t, u \in Tasks : Guard(t) /\ Guard(u) => t = u
  /\ is_locked <=> \E t \in Tasks : Guard(t)

(* t awaits a lock future and was polled at least once.                    *)
Blocked(t) == st[t] \in {"lock", "relock"} /\ future[t] = "some"

(* The queue of the mutex holds exactly the blocked tasks, each once.  A   *)
(* stale entry at its head would swallow every wake of DropGuard, a        *)
(* missing one would leave its task asleep for ever.                       *)
WaitersAreBlocked ==
  /\ \A i \in DOMAIN waiters :
       LET t == waiters[i].task
       IN  /\ st[t] \in {"lock", "relock"}
           /\ waiters[i] = Entry(t)
           /\ Blocked(t) \/ running = t
  /\ \A i, j \in DOMAIN waiters : waiters[i].id = waiters[j].id => i = j
  /\ \A t \in Tasks : Blocked(t) =>
       \E i \in DOMAIN waiters : waiters[i] = Entry(t)

(* No lost wakeup of the mutex: while it is free, its first waiter is      *)
(* about to be polled, although the wake came before bargers took the      *)
(* mutex and gave it back, and although the waker stored is the one of the *)
(* first poll.  stop() breaks this: it clears the wake from the queue.     *)
HeadWaiterScheduled ==
  ~stopped /\ ~is_locked /\ waiters # <<>> =>
    Queued(waiters[1].task) \/ running = waiters[1].task

(* t is suspended in a CondWait that was not notified.                     *)
Waiting(t) == st[t] = "cond" /\ future[t] = "some" /\ fid[t] \notin woken

(* No lost notification: a waiting task is registered with its own flag,   *)
(* and one that was notified is about to be polled (unless stop() cleared  *)
(* the wake).                                                              *)
NotifiedIsScheduled ==
  \A t \in Tasks : st[t] = "cond" /\ future[t] = "some" =>
    IF fid[t] \in woken THEN stopped \/ Queued(t)
    ELSE \E i \in DOMAIN cond : cond[i] = Entry(t)

(* notify_one wakes exactly one waiting task if there is one, although the *)
(* list holds several entries of a task that was polled spuriously and     *)
(* entries of tasks notified long ago; notify_all wakes them all.          *)
NotifyWakes ==
  [][LET before == {u \in Tasks : Waiting(u)}
         after == {u \in Tasks : Waiting(u)'}
     IN  /\ notify = "one" /\ notify' = "one" => after = before
         /\ notify = "one" /\ notify' = "no" =>
              before = {} \/ \E u \in before : after = before \ {u}
         /\ notify = "all" /\ notify' = "no" => after = {}]_vars

(* A suspended task has a waker somewhere, in spite of stop().             *)
NoLostWakeup ==
  ~panicked =>
    \A t \in Tasks : future[t] = "some" => Queued(t) \/ t \in Held

(* Whoever awaits the mutex, directly or after a notification, gets it,    *)
(* as long as no unbounded sequence of later callers overtakes it: the     *)
(* mutex is not fair, and MaxRounds bounds them here.                      *)
LockGranted ==
  \A t \in Tasks :
    st[t] \in {"lock", "relock"} \/ (st[t] = "cond" /\ fid[t] \in woken)
      ~> st[t] = "hold"

-----------------------------------------------------------------------------
(* What the documentation says and the code does not do.                   *)

(* "Drops all queued events" (runtime.rs): stop() returns.                 *)
StopReturns == ~panicked
=============================================================================
