----------------------------- MODULE SyncCondvar ----------------------------
(***************************************************************************)
(* SyncMutex and SyncCondvar under the executor and the timer: tasks that  *)
(* lock, unlock, sleep, wait with and without a timeout, notify and finish *)
(* in any order (src/src/sync/sync_mutex.rs).                              *)
(*                                                                         *)
(* The tasks keep the rule of the source, "Do not hold this lock while     *)
(* calling await".  A wait that is over may leave entries in the list of   *)
(* the condition variable and events in the heap of the timer; both wake   *)
(* its task later, during whatever it awaits then.                         *)
(***************************************************************************)
EXTENDS Executor, Timer, SequencesExt

CONSTANTS
  Durations,   \* the durations of sleeps and timeouts
  MaxWaits     \* bound: waits of each task

ASSUME CondvarAssumption ==
  /\ Durations \subseteq 1 .. MaxTime
  /\ MaxWaits \in Nat
  /\ None \notin Times

VARIABLES
  borrowed,    \* the RefCell of the SyncMutex is mutably borrowed
  waiters,     \* SyncCondvar.waiters: (flag, waker) pairs
  woken,       \* the flags that are true
  st,          \* what each task is doing (see States)
  waits,       \* how many waits each task has begun
  deadline,    \* SleepFut.wake_time of a timed wait or a sleep, otherwise 0
  panicked     \* the thread panicked

syncVars == <<borrowed, waiters, woken>>
taskVars == <<st, waits, deadline>>
vars == <<ready, batch, running, future, now, events, borrowed, waiters,
          woken, st, waits, deadline, panicked>>

(***************************************************************************)
(* run      in its own code, without the guard                             *)
(* hold     in its own code, with the SyncLockGuard                        *)
(* wait     awaiting a SyncCondWait                                        *)
(* timed    awaiting a SyncCondTimeoutWait                                 *)
(* sleep    awaiting a SleepFut                                            *)
(***************************************************************************)
States == {"run", "hold", "wait", "timed", "sleep"}

(* Every wait has a flag of its own (woken) and the waker of its task: an  *)
(* entry of the list is named by the task and the number of the wait.      *)
Entries == [task : Tasks, wait : Nat]

Entry(t) == [task |-> t, wait |-> waits[t]]

TypeOK ==
  /\ ExecTypeOK
  /\ TimerTypeOK
  /\ borrowed \in BOOLEAN
  /\ waiters \in Seq(Entries)
  /\ woken \in SUBSET Entries
  /\ st \in [Tasks -> States]
  /\ waits \in [Tasks -> 0 .. MaxWaits]
  /\ deadline \in [Tasks -> Times]
  /\ panicked \in BOOLEAN

Init ==
  /\ ExecInit
  /\ TimerInit
  /\ borrowed = FALSE
  /\ waiters = <<>>
  /\ woken = {}
  /\ st = [t \in Tasks |-> "run"]
  /\ waits = [t \in Tasks |-> 0]
  /\ deadline = [t \in Tasks |-> 0]
  /\ panicked = FALSE

-----------------------------------------------------------------------------
(* The executor and the rest of the program.                               *)

Spawn(t) ==
  /\ ~panicked
  /\ SpawnTask(t)
  /\ UNCHANGED <<timerVars, syncVars, taskVars, panicked>>

Execute ==
  /\ ~panicked
  /\ BatchDone
  /\ TakeReady
  /\ UNCHANGED <<timerVars, syncVars, taskVars, panicked>>

Advance ==
  /\ ~panicked
  /\ BatchDone
  /\ \E t \in Tasks, w \in Times : PopEvent(t, w) /\ Wake(t)
  /\ UNCHANGED <<batch, running, future, syncVars, taskVars, panicked>>

BeginPoll ==
  /\ ~panicked
  /\ PollNext \/ SkipCompleted
  /\ UNCHANGED <<timerVars, syncVars, taskVars, panicked>>

-----------------------------------------------------------------------------
(* The code of the task being polled.                                      *)

InTask(t) ==
  /\ ~panicked
  /\ running = t
  /\ st[t] \in {"run", "hold"}

(* SyncMutex::lock: RefCell::borrow_mut panics if a guard exists already.  *)
Borrow ==
  /\ borrowed' = TRUE
  /\ panicked' = borrowed

Lock(t) ==
  /\ InTask(t)
  /\ st[t] = "run"
  /\ Borrow
  /\ st' = [st EXCEPT ![t] = "hold"]
  /\ UNCHANGED <<execVars, timerVars, waiters, woken, waits, deadline>>

(* Drop of the guard.                                                      *)
Unlock(t) ==
  /\ InTask(t)
  /\ st[t] = "hold"
  /\ borrowed' = FALSE
  /\ st' = [st EXCEPT ![t] = "run"]
  /\ UNCHANGED <<execVars, timerVars, waiters, woken, waits, deadline,
                 panicked>>

Finish(t) ==
  /\ InTask(t)
  /\ st[t] = "run"
  /\ ReturnReady(t)
  /\ UNCHANGED <<ready, timerVars, syncVars, taskVars, panicked>>

(* crate::time::sleep, when the wake time does not overflow.               *)
NewSleep(t, d) ==
  /\ ~SleepOverflows(d)
  /\ deadline' = [deadline EXCEPT ![t] = TimeAdd(now, d)]

Sleep(t, d) ==
  /\ InTask(t)
  /\ st[t] = "run"
  /\ NewSleep(t, d)
  /\ st' = [st EXCEPT ![t] = "sleep"]
  /\ UNCHANGED <<execVars, timerVars, syncVars, waits, panicked>>

(* When it does, the assertion of sleep_for panics, in sleep() or in       *)
(* wait_with_timeout(), and unwinding drops the guard.                     *)
SleepPanics(t) ==
  /\ InTask(t)
  /\ st[t] = "run" \/ waits[t] < MaxWaits
  /\ \E d \in Durations : SleepOverflows(d)
  /\ panicked' = TRUE
  /\ borrowed' = FALSE
  /\ UNCHANGED <<execVars, timerVars, waiters, woken, taskVars>>

EndSleep(t) == deadline' = [deadline EXCEPT ![t] = 0]

PollSleepReady(t) ==
  /\ ~panicked
  /\ running = t
  /\ st[t] = "sleep"
  /\ Elapsed(deadline[t])
  /\ EndSleep(t)
  /\ st' = [st EXCEPT ![t] = "run"]
  /\ UNCHANGED <<execVars, timerVars, syncVars, waits, panicked>>

PollSleepPending(t) ==
  /\ ~panicked
  /\ st[t] = "sleep"
  /\ PushEvent(t, deadline[t])
  /\ ReturnPending(t)
  /\ UNCHANGED <<ready, syncVars, taskVars, panicked>>

(* A notification may come from a task or, between two batches, from the   *)
(* program that drives the runtime.                                        *)
InProgram == ~panicked /\ (BatchDone \/ \E t \in Tasks : InTask(t))

-----------------------------------------------------------------------------
(* The condition variable.                                                 *)

(* Mutant: the guard lives as long as the wait.                            *)
BeginWaitMutant(t) ==
  /\ InTask(t)
  /\ st[t] = "hold"
  /\ waits[t] < MaxWaits
  /\ waits' = [waits EXCEPT ![t] = @ + 1]
  /\ UNCHANGED borrowed

(* wait and wait_with_timeout consume the guard (into_mutex) and make a    *)
(* future with a new flag.                                                 *)
BeginWait(t) ==
  /\ InTask(t)
  /\ st[t] = "hold"
  /\ waits[t] < MaxWaits
  /\ waits' = [waits EXCEPT ![t] = @ + 1]
  /\ borrowed' = FALSE

Wait(t) ==
  /\ BeginWait(t)
  /\ st' = [st EXCEPT ![t] = "wait"]
  /\ UNCHANGED <<execVars, timerVars, waiters, woken, deadline, panicked>>

WaitWithTimeout(t, d) ==
  /\ BeginWait(t)
  /\ NewSleep(t, d)
  /\ st' = [st EXCEPT ![t] = "timed"]
  /\ UNCHANGED <<execVars, timerVars, waiters, woken, panicked>>

(* The poll of either future with the flag set: lock and return.           *)
PollWoken(t) ==
  /\ ~panicked
  /\ running = t
  /\ st[t] \in {"wait", "timed"}
  /\ Entry(t) \in woken
  /\ Borrow
  /\ EndSleep(t)
  /\ st' = [st EXCEPT ![t] = "hold"]
  /\ UNCHANGED <<execVars, timerVars, waiters, woken, waits>>

(* Mutant: any poll after the one that registered the wait ends it, as if  *)
(* only a notification or the timeout could have woken the task.           *)
PollTimedOutMutant(t) ==
  /\ ~panicked
  /\ running = t
  /\ st[t] \in {"wait", "timed"}
  /\ Contains(waiters, Entry(t))
  /\ Borrow
  /\ EndSleep(t)
  /\ st' = [st EXCEPT ![t] = "hold"]
  /\ UNCHANGED <<execVars, timerVars, waiters, woken, waits>>

(* Otherwise the timeout may have elapsed; the entries of this wait stay.  *)
PollTimedOut(t) ==
  /\ ~panicked
  /\ running = t
  /\ st[t] = "timed"
  /\ Entry(t) \notin woken
  /\ Elapsed(deadline[t])
  /\ Borrow
  /\ EndSleep(t)
  /\ st' = [st EXCEPT ![t] = "hold"]
  /\ UNCHANGED <<execVars, timerVars, waiters, woken, waits>>

(* Mutant: a wait is registered at its first poll only; one that timed out *)
(* and waits again counts as registered.                                   *)
RegisterMutant(t) ==
  waiters' = IF \E i \in DOMAIN waiters : waiters[i].task = t THEN waiters
             ELSE Append(waiters, Entry(t))

(* A pending poll registers the wait, again at every poll.                 *)
Register(t) == waiters' = Append(waiters, Entry(t))

PollWaitPending(t) ==
  /\ ~panicked
  /\ st[t] = "wait"
  /\ Entry(t) \notin woken
  /\ Register(t)
  /\ ReturnPending(t)
  /\ UNCHANGED <<ready, timerVars, borrowed, woken, taskVars, panicked>>

(* Mutant: the sleep of the timed wait is not polled.                      *)
PollTimedPendingMutant(t) ==
  /\ ~panicked
  /\ st[t] = "timed"
  /\ Entry(t) \notin woken
  /\ ~Elapsed(deadline[t])
  /\ Register(t)
  /\ ReturnPending(t)
  /\ UNCHANGED <<ready, timerVars, borrowed, woken, taskVars, panicked>>

(* The sleep of the timed wait is polled too and pushes its event.         *)
PollTimedPending(t) ==
  /\ ~panicked
  /\ st[t] = "timed"
  /\ Entry(t) \notin woken
  /\ PushEvent(t, deadline[t])
  /\ Register(t)
  /\ ReturnPending(t)
  /\ UNCHANGED <<ready, borrowed, woken, taskVars, panicked>>

(* The positions of the list whose flag is not set yet.                    *)
Unwoken == {i \in DOMAIN waiters : waiters[i] \notin woken}

(* Mutant: the first entry is taken, whether its flag is set or not.       *)
NotifyOneMutant ==
  /\ InProgram
  /\ waiters # <<>>
  /\ waiters' = Tail(waiters)
  /\ woken' = woken \cup {Head(waiters)}
  /\ Wake(Head(waiters).task)
  /\ UNCHANGED <<batch, running, future, timerVars, borrowed, taskVars,
                 panicked>>

(* notify_one drops the entries before the first one not woken yet, wakes  *)
(* that one, and puts the rest back.                                       *)
NotifyOne ==
  /\ InProgram
  /\ waiters # <<>>
  /\ \/ /\ Unwoken # {}
        /\ LET i == Min(Unwoken)
           IN  /\ waiters' = SubSeq(waiters, i + 1, Len(waiters))
               /\ woken' = woken \cup {waiters[i]}
               /\ Wake(waiters[i].task)
     \/ /\ Unwoken = {}
        /\ waiters' = <<>>
        /\ UNCHANGED <<woken, ready>>
  /\ UNCHANGED <<batch, running, future, timerVars, borrowed, taskVars,
                 panicked>>

(* The elements of list at the positions S, in its order: the k-th has     *)
(* k - 1 of them before it.                                                *)
InOrder(list, S) ==
  [k \in 1 .. Cardinality(S) |->
     list[CHOOSE i \in S : Cardinality({j \in S : j < i}) = k - 1]]

(* Where the waits of the list that are not woken stand first.             *)
Firsts(list) ==
  {i \in DOMAIN list : /\ list[i] \notin woken
                       /\ \A j \in 1 .. i - 1 : list[j] # list[i]}

(* Those waits, each once, in the order of the list.                       *)
UnwokenWaits(list) == InOrder(list, Firsts(list))

(* Mutant: the loop ends at an entry that is woken already.                *)
NotifyAllMutant ==
  LET old == {i \in DOMAIN waiters : waiters[i] \in woken}
      end == IF old = {} THEN Len(waiters) ELSE Min(old) - 1
      new == UnwokenWaits(SubSeq(waiters, 1, end))
  IN  /\ InProgram
      /\ waiters # <<>>
      /\ waiters' = <<>>
      /\ woken' = woken \cup ToSet(new)
      /\ ready' = ready \o [i \in DOMAIN new |-> new[i].task]
      /\ UNCHANGED <<batch, running, future, timerVars, borrowed, taskVars,
                     panicked>>

(* notify_all drains the list and wakes each wait once.                    *)
NotifyAll ==
  LET new == UnwokenWaits(waiters)
  IN  /\ InProgram
      /\ waiters # <<>>
      /\ waiters' = <<>>
      /\ woken' = woken \cup ToSet(new)
      /\ ready' = ready \o [i \in DOMAIN new |-> new[i].task]
      /\ UNCHANGED <<batch, running, future, timerVars, borrowed, taskVars,
                     panicked>>

-----------------------------------------------------------------------------
WaitStep(t) ==
  \/ Wait(t) \/ PollWoken(t) \/ PollTimedOut(t)
  \/ PollWaitPending(t) \/ PollTimedPending(t)
  \/ \E d \in Durations : WaitWithTimeout(t, d)

TaskStep(t) ==
  \/ Lock(t) \/ Unlock(t) \/ Finish(t)
  \/ PollSleepReady(t) \/ PollSleepPending(t) \/ SleepPanics(t)
  \/ WaitStep(t)
  \/ \E d \in Durations : Sleep(t, d)

ExecStep == Execute \/ BeginPoll

Next ==
  \/ ExecStep
  \/ Advance
  \/ NotifyOne \/ NotifyAll
  \/ \E t \in Tasks : Spawn(t) \/ TaskStep(t)

Spec == Init /\ [][Next]_vars

(***************************************************************************)
(* The driver executes and advances again and again, as the loop of        *)
(* block_on does, and a poll keeps going.  Locking and unlocking for ever  *)
(* within one poll is excluded by the program.                             *)
(***************************************************************************)
Suspend(t) ==
  \/ Finish(t)
  \/ PollSleepPending(t) \/ PollWaitPending(t) \/ PollTimedPending(t)

Fairness ==
  /\ WF_vars(ExecStep)
  /\ WF_vars(Advance)
  /\ \A t \in Tasks : WF_vars(TaskStep(t)) /\ SF_vars(Suspend(t))

FairSpec == Spec /\ Fairness

-----------------------------------------------------------------------------
(* Properties.                                                             *)

(* SyncMutex::lock never finds the RefCell borrowed, neither when a wait   *)
(* returns nor in a task's own code, as long as no task awaits with the    *)
(* guard: wait() gives the borrow back before it suspends.  The assertion  *)
(* of sleep_for is the only thing that panics.                             *)
NoBorrowPanic == [][panicked' => \E t \in Tasks : SleepPanics(t)]_vars

(* t is suspended in a wait whose flag is not set.                         *)
Waiting(t) ==
  st[t] \in {"wait", "timed"} /\ running # t /\ Entry(t) \notin woken

(* No wait is forgotten: a task suspended in a wait is registered under    *)
(* this very wait, and once notified it is about to be polled, although    *)
(* the list also holds duplicates and entries of waits that are over.      *)
WaitsRegistered ==
  \A t \in Tasks : st[t] \in {"wait", "timed"} /\ running # t =>
    Contains(waiters, Entry(t)) \/ (Entry(t) \in woken /\ Queued(t))

(* A timed wait that is suspended will be polled at its deadline: its      *)
(* event is in the heap, or the task is about to be polled anyway.         *)
TimeoutScheduled ==
  \A t \in Tasks :
    Waiting(t) /\ st[t] = "timed" => Scheduled(t, deadline[t]) \/ Queued(t)

(* notify_one meets the entry of a wait that timed out, which nobody marked*)
(* as woken, before that of any task that waits.                           *)
Intercepted ==
  \E i \in Unwoken :
    /\ \A j \in Unwoken : i <= j
    /\ \/ waiters[i] # Entry(waiters[i].task)
       \/ st[waiters[i].task] \notin {"wait", "timed"}

SomeTaskWaits == \E u \in Tasks : Waiting(u)

OneNotified == \E u \in Tasks : Waiting(u) /\ ~Waiting(u)'

(* The entry of a timed-out wait is the only thing that can keep a         *)
(* notify_one from the waiting tasks: neither the duplicates of a wait     *)
(* polled several times nor entries woken before do.                       *)
NotifyOneWakes ==
  [][NotifyOne /\ SomeTaskWaits /\ ~Intercepted => OneNotified]_vars

(* notify_all leaves no task waiting, with or without timeouts.            *)
NotifyAllWakes ==
  [][NotifyAll => \A u \in Tasks : ~Waiting(u)']_vars

(* Notifications reach the waiting tasks in the order in which they began  *)
(* to wait.  A wait returns only once it was notified or, with a timeout,  *)
(* once that time has come: a wake meant for an earlier wait or sleep of   *)
(* the task, an event left over in the heap or a duplicate entry in the    *)
(* list does not end it, and a timeout counts from the call of the wait.   *)
WaitQueue ==
  LET live == {i \in Firsts(waiters) :
                 LET t == waiters[i].task
                 IN  waiters[i] = Entry(t) /\ st[t] \in {"wait", "timed"}}
      queue == InOrder(waiters, live)
  IN  [k \in DOMAIN queue |-> queue[k].task]

Fifo == INSTANCE FifoCondvar WITH
          queue <- WaitQueue,
          notified <- {t \in Tasks : /\ st[t] \in {"wait", "timed"}
                                     /\ Entry(t) \in woken},
          limit <- [t \in Tasks |->
                      IF st[t] = "timed" THEN deadline[t] ELSE None]

ImplementsFifo == Fifo!FifoSpec

(* A wait that was notified or that has a timeout returns, unless the      *)
(* assertion of some sleep stops the program.                              *)
WaitsReturn ==
  \A t \in Tasks :
    st[t] = "timed" \/ (st[t] = "wait" /\ Entry(t) \in woken)
      ~> st[t] = "hold" \/ panicked
-----------------------------------------------------------------------------
(* What the source says and the code does not do.                          *)

(* "Find one waker that has not been woken yet" (sync_mutex.rs):           *)
(* notify_one notifies a waiting task whenever one waits.                  *)
NotifyReachesWaiter ==
  [][NotifyOne /\ SomeTaskWaits => OneNotified]_vars
=============================================================================
