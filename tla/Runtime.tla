------------------------------- MODULE Runtime ------------------------------
(***************************************************************************)
(* asim's Runtime: the executor and the timer under their two drivers, the *)
(* block_on loop and a program that calls execute_tasks, advance, stop and *)
(* with_context itself (src/src/runtime.rs, src/src/time/timer.rs,         *)
(* src/src/lib.rs, src/src/time/mod.rs).                                   *)
(*                                                                         *)
(* Between two awaits a task may, in any order, spawn, wake parked tasks,  *)
(* stop the runtime and call advance; it suspends in a sleep or in another *)
(* primitive that stores its waker (park), one future at a time, or        *)
(* finishes.  Everything runs on one thread, so the steps of a poll are    *)
(* not interleaved with other polls.                                       *)
(***************************************************************************)
EXTENDS Executor, Timer

CONSTANTS
  Durations,  \* the durations tasks sleep for
  Parkers,    \* the tasks that may pend on a primitive other than a sleep
  MaxWakes,   \* bound: how many wakes may leave the waker in place
  Calls       \* what the program calls from outside the tasks, next to spawn
              \* and block_on; task_advance: its tasks call Timer::advance

ASSUME RuntimeAssumption ==
  /\ None \notin Times
  /\ Durations \subseteq Times
  /\ Parkers \subseteq Tasks
  /\ MaxWakes \in Nat
  /\ Calls \subseteq {"execute_tasks", "advance", "task_advance", "stop",
                     "with_context"}

VARIABLES
  sleep,   \* wake_time of the SleepFut each task awaits, or None
  parked,  \* tasks whose waker another primitive stores
  wakes,   \* wakes so far that left the waker in place (see MaxWakes)
  phase,   \* where the driving program is
  target   \* the task block_on waits for, or None

driverVars == <<phase, target>>
waitVars == <<sleep, parked, wakes>>
vars == <<ready, batch, running, future, now, events,
          sleep, parked, wakes, phase, target>>

(***************************************************************************)
(* idle     outside every context                                          *)
(* locked   the program holds the ContextLock of with_context              *)
(* loop     block_on is about to test its while condition                  *)
(* exec     execute_tasks iterates over its batch, holding a ContextLock   *)
(* advance  block_on is about to call Timer::advance                       *)
(* panic    the thread panicked                                            *)
(***************************************************************************)
Phases == {"idle", "locked", "loop", "exec", "advance", "panic"}

(* CONTEXT is Some: a ContextLock exists.                                  *)
InContext == phase \in {"locked", "exec"}

TypeOK ==
  /\ ExecTypeOK
  /\ TimerTypeOK
  /\ sleep \in [Tasks -> Times \cup {None}]
  /\ parked \in SUBSET Tasks
  /\ wakes \in 0 .. MaxWakes
  /\ phase \in Phases
  /\ target \in Tasks \cup {None}

Init ==
  /\ ExecInit
  /\ TimerInit
  /\ sleep = [t \in Tasks |-> None]
  /\ parked = {}
  /\ wakes = 0
  /\ phase = "idle"
  /\ target = None

-----------------------------------------------------------------------------
(* The block_on loop.                                                      *)

(* Runtime::block_on: push the wrapper task and enter the loop.            *)
BlockOn(t) ==
  /\ phase = "idle"
  /\ SpawnTask(t)
  /\ phase' = "loop"
  /\ target' = t
  /\ UNCHANGED <<timerVars, waitVars>>

(* while !done { execute_tasks ...                                         *)
LoopExecute ==
  /\ phase = "loop"
  /\ ~Completed(target)
  /\ TakeReady
  /\ phase' = "exec"
  /\ UNCHANGED <<timerVars, waitVars, target>>

(* ... which returns false at once when no task is ready ...               *)
LoopNothingReady ==
  /\ phase = "loop"
  /\ ~Completed(target)
  /\ ready = <<>>
  /\ phase' = "advance"
  /\ UNCHANGED <<execVars, timerVars, waitVars, target>>

(* Mutant: the popped event does not wake its task.                        *)
LoopAdvanceMutant ==
  /\ phase = "advance"
  /\ phase' = "loop"
  /\ \/ \E t \in Tasks, w \in Times : PopEvent(t, w)
     \/ NoEvents /\ UNCHANGED timerVars
  /\ UNCHANGED <<execVars, waitVars, target>>

(* Mutant: advance() is called until the heap is empty.                    *)
LoopAdvanceAllMutant ==
  /\ phase = "advance"
  /\ \/ /\ \E t \in Tasks, w \in Times : PopEvent(t, w) /\ Wake(t)
        /\ UNCHANGED phase
     \/ NoEvents /\ phase' = "loop" /\ UNCHANGED <<timerVars, ready>>
  /\ UNCHANGED <<batch, running, future, waitVars, target>>

(* ... and then timer.advance(), whatever execute_tasks left in ready.     *)
LoopAdvance ==
  /\ phase = "advance"
  /\ phase' = "loop"
  /\ \/ \E t \in Tasks, w \in Times : PopEvent(t, w) /\ Wake(t)
     \/ NoEvents /\ UNCHANGED <<timerVars, ready>>
  /\ UNCHANGED <<batch, running, future, waitVars, target>>

(* done is set: block_on returns to the program.                           *)
LoopExit ==
  /\ phase = "loop"
  /\ Completed(target)
  /\ phase' = "idle"
  /\ target' = None
  /\ UNCHANGED <<execVars, timerVars, waitVars>>

-----------------------------------------------------------------------------
(* Calls the program makes on the runtime from outside a task.             *)

(* Runtime::spawn, or asim::spawn while the program holds a ContextLock.   *)
Spawn(t) ==
  /\ phase \in {"idle", "locked"}
  /\ SpawnTask(t)
  /\ UNCHANGED <<timerVars, waitVars, driverVars>>

(* Runtime::execute_tasks with a task ready.                               *)
ExecuteTasks ==
  /\ "execute_tasks" \in Calls
  /\ phase = "idle"
  /\ TakeReady
  /\ phase' = "exec"
  /\ UNCHANGED <<timerVars, waitVars, target>>

(* Timer::advance, by the program or, through get_runtime().get_timer(),   *)
(* by a task; an empty heap changes nothing.                               *)
Advance ==
  /\ \/ "advance" \in Calls /\ phase \in {"idle", "locked"}
     \/ /\ "task_advance" \in Calls
        /\ phase = "exec" /\ running # None /\ sleep[running] = None
  /\ \E t \in Tasks, w \in Times : PopEvent(t, w) /\ Wake(t)
  /\ UNCHANGED <<batch, running, future, waitVars, driverVars>>

(* The wakers stored outside the queues keep their tasks alive.            *)
Held == parked \cup {t \in Tasks : \E w \in Times : Scheduled(t, w)}

(* Runtime::stop, or Handle::stop from within a task.                      *)
Stop ==
  /\ \/ "stop" \in Calls /\ phase \in {"idle", "locked"}
     \/ phase = "exec" /\ running # None /\ sleep[running] = None
  /\ ready # <<>>
  /\ ClearReady(Held)
  /\ UNCHANGED <<timerVars, waitVars, driverVars>>

(* Runtime::with_context and the drop of its ContextLock.                  *)
WithContext ==
  /\ "with_context" \in Calls
  /\ phase = "idle"
  /\ phase' = "locked"
  /\ UNCHANGED <<execVars, timerVars, waitVars, target>>

DropContext ==
  /\ phase = "locked"
  /\ phase' = "idle"
  /\ UNCHANGED <<execVars, timerVars, waitVars, target>>

(***************************************************************************)
(* ContextLock::new panics when CONTEXT is Some: a nested with_context, or *)
(* execute_tasks or block_on with a task ready, called by the holder of    *)
(* the lock or by a task.  execute_tasks has taken the queue by then, so   *)
(* the tasks in it are lost.                                               *)
(***************************************************************************)
Reenter ==
  /\ "with_context" \in Calls
  /\ \/ phase = "locked"
     \/ phase = "exec" /\ running # None /\ sleep[running] = None
  /\ ready' \in {ready, <<>>}
  /\ phase' = "panic"
  /\ UNCHANGED <<batch, running, future, timerVars, waitVars, target>>

-----------------------------------------------------------------------------
(* execute_tasks iterates over the batch.                                  *)

BeginPoll ==
  /\ phase = "exec"
  /\ PollNext \/ SkipCompleted
  /\ UNCHANGED <<timerVars, waitVars, driverVars>>

(* Mutant: the queue is cleared after the loop instead of taken before it. *)
EndExecuteMutant ==
  /\ phase = "exec"
  /\ BatchDone
  /\ phase' = IF target = None THEN "idle" ELSE "advance"
  /\ ready' = <<>>
  /\ UNCHANGED <<batch, running, future, timerVars, waitVars, target>>

(* The batch is exhausted: drop the ContextLock and return true.           *)
EndExecute ==
  /\ phase = "exec"
  /\ BatchDone
  /\ phase' = IF target = None THEN "idle" ELSE "advance"
  /\ UNCHANGED <<execVars, timerVars, waitVars, target>>

-----------------------------------------------------------------------------
(* Steps of the task being polled.                                         *)

(* The code of t has control and awaits nothing.                           *)
InTask(t) == phase = "exec" /\ running = t /\ sleep[t] = None

(* asim::spawn                                                             *)
TaskSpawn(t, u) ==
  /\ InTask(t)
  /\ SpawnTask(u)
  /\ UNCHANGED <<timerVars, waitVars, driverVars>>

(* asim::time::sleep(d): compute the wake time, or panic in the assertion. *)
SleepFor(t, d) ==
  /\ InTask(t)
  /\ \/ /\ ~SleepOverflows(d)
        /\ sleep' = [sleep EXCEPT ![t] = TimeAdd(now, d)]
        /\ UNCHANGED phase
     \/ /\ SleepOverflows(d)
        /\ phase' = "panic"
        /\ UNCHANGED sleep
  /\ UNCHANGED <<execVars, timerVars, parked, wakes, target>>

(* Mutant: any later poll of a SleepFut returns Ready.                     *)
PollSleepReadyMutant(t) ==
  /\ phase = "exec"
  /\ running = t
  /\ sleep[t] # None
  /\ Elapsed(sleep[t]) \/ t \in Held
  /\ sleep' = [sleep EXCEPT ![t] = None]
  /\ UNCHANGED <<execVars, timerVars, parked, wakes, driverVars>>

(* Mutant: no second event for a task that has one in the heap.            *)
PollSleepPendingMutant(t) ==
  /\ phase = "exec"
  /\ running = t
  /\ sleep[t] # None
  /\ IF \E w \in Times : Scheduled(t, w)
     THEN ~Elapsed(sleep[t]) /\ UNCHANGED timerVars
     ELSE PushEvent(t, sleep[t])
  /\ ReturnPending(t)
  /\ UNCHANGED <<ready, waitVars, driverVars>>

(* SleepFut::poll, on the first poll and on every later one.               *)
PollSleepReady(t) ==
  /\ phase = "exec"
  /\ running = t
  /\ sleep[t] # None
  /\ Elapsed(sleep[t])
  /\ sleep' = [sleep EXCEPT ![t] = None]
  /\ UNCHANGED <<execVars, timerVars, parked, wakes, driverVars>>

PollSleepPending(t) ==
  /\ phase = "exec"
  /\ running = t
  /\ sleep[t] # None
  /\ PushEvent(t, sleep[t])
  /\ ReturnPending(t)
  /\ UNCHANGED <<ready, waitVars, driverVars>>

(* The task stores its waker in another primitive and pends.               *)
Park(t) ==
  /\ t \in Parkers
  /\ InTask(t)
  /\ parked' = parked \cup {t}
  /\ ReturnPending(t)
  /\ UNCHANGED <<ready, timerVars, sleep, wakes, driverVars>>

(* A primitive wakes u and gives its waker up (Waker::wake), or keeps it   *)
(* (Waker::wake_by_ref), so that u can be queued more than once.           *)
Unpark(t, u) ==
  /\ InTask(t)
  /\ u \in parked
  /\ Wake(u)
  /\ \/ parked' = parked \ {u} /\ UNCHANGED wakes
     \/ wakes < MaxWakes /\ wakes' = wakes + 1 /\ UNCHANGED parked
  /\ UNCHANGED <<batch, running, future, timerVars, sleep, driverVars>>

(* The poll returns Ready; block_on's wrapper sets done in the same poll.  *)
Finish(t) ==
  /\ InTask(t)
  /\ ReturnReady(t)
  /\ UNCHANGED <<ready, timerVars, waitVars, driverVars>>

TaskStep(t) ==
  \/ \E u \in Tasks : TaskSpawn(t, u) \/ Unpark(t, u)
  \/ \E d \in Durations : SleepFor(t, d)
  \/ PollSleepReady(t)
  \/ PollSleepPending(t)
  \/ Park(t)
  \/ Finish(t)

ExecStep == BeginPoll \/ EndExecute

LoopStep == LoopExecute \/ LoopNothingReady \/ LoopAdvance \/ LoopExit

DriverStep ==
  \/ \E t \in Tasks : BlockOn(t) \/ Spawn(t)
  \/ ExecuteTasks \/ Advance \/ Stop \/ WithContext \/ DropContext \/ Reenter

Next ==
  \/ DriverStep
  \/ LoopStep
  \/ ExecStep
  \/ \E t \in Tasks : TaskStep(t)

Spec == Init /\ [][Next]_vars

(***************************************************************************)
(* block_on and execute_tasks are loops of one thread: once entered they   *)
(* keep going.  Whether the program calls the runtime again is up to it.   *)
(***************************************************************************)
Fairness ==
  /\ WF_vars(LoopStep)
  /\ WF_vars(ExecStep)
  /\ WF_vars(\E t \in Tasks : TaskStep(t))

FairSpec == Spec /\ Fairness

-----------------------------------------------------------------------------
(* Properties.                                                             *)

(* t was suspended in the middle of a sleep.                               *)
Sleeper(t) == future[t] = "some" /\ sleep[t] # None

(* No scheduled event lies in the past, whatever the driver: the heap is   *)
(* popped in time order and SleepFut::poll pushes future times only.       *)
EventsNotPast == \A t \in Tasks, w \in Times : Scheduled(t, w) => now <= w

(* An event that no longer belongs to the sleep of its task (the task was  *)
(* polled twice before the event fired) is due right now: it can wake the  *)
(* task for nothing but never moves the clock.                             *)
StaleEventsAreDue ==
  \A t \in Tasks, w \in Times :
    Scheduled(t, w) /\ sleep[t] # w =>
      now = w /\ (sleep[t] = None \/ now <= sleep[t])

(* No lost wakeup: a suspended task is queued, or the heap or another     *)
(* primitive holds its waker.  Wakes that come during the task's own poll, *)
(* for a task already queued, and before a stop() are the hard cases.      *)
NoLostWakeup ==
  phase # "panic" =>
    \A t \in Tasks : future[t] = "some" => Queued(t) \/ t \in Held

(* A sleeper in particular is queued or has the event of this very sleep   *)
(* in the heap.  A stop() between an advance() and the batch that runs     *)
(* what it woke can break this: it clears the clone that advance() queued  *)
(* and leaves the task alive when another waker of it is stored.  So the   *)
(* program does not call stop(), or the tasks do not call advance().       *)
SleepersScheduled ==
  phase # "panic" /\ Calls \cap {"stop", "task_advance"} = {} =>
    \A t \in Tasks : Sleeper(t) => Queued(t) \/ Scheduled(t, sleep[t])

(* Reference counting: a task that stop() dropped with the queue is not    *)
(* referred to by a queue, the poll in progress or a stored waker.         *)
NoUseAfterDrop ==
  \A t \in Tasks : future[t] = "dropped" =>
    ~Queued(t) /\ running # t /\ t \notin Held

(* block_on alone drives the clock and stop() comes from tasks only.       *)
BlockOnDrives == Calls \cap {"advance", "task_advance", "stop"} = {}

(* Under block_on the clock never passes the wake time of a sleeper, so a  *)
(* sleep ends exactly when it is due although advance() runs after every   *)
(* batch, whatever that batch made ready.                                  *)
NoOverdueSleeper ==
  BlockOnDrives => \A t \in Tasks : Sleeper(t) => now <= sleep[t]

(* Simulated time never runs backwards.                                    *)
TimeMonotone == [][now' >= now]_now

(* A future that returned Ready is never polled again, and one that was    *)
(* dropped never comes back, however many stale clones of the task are     *)
(* still queued.                                                           *)
FinishedForGood ==
  [][\A t \in Tasks :
       /\ Completed(t) => Completed(t)'
       /\ future[t] = "dropped" => future'[t] = "dropped"]_vars

(* block_on returns once its tasks only sleep and finish, unless a task    *)
(* stops the runtime while the awaited task is queued (then the loop spins *)
(* forever) or the thread panics.                                          *)
BlockOnReturns ==
  \A t \in Tasks :
    target = t ~> target # t \/ future[t] = "dropped" \/ phase = "panic"

(* Under block_on the runtime implements the promise of SleepClock.        *)
Clock == INSTANCE SleepClock WITH
           deadline <- sleep,
           gone <- {t \in Tasks : future[t] = "dropped"}

ImplementsClock == Clock!ClockSpec

-----------------------------------------------------------------------------
(* The parts that make the properties above inductive.                     *)

(* Between two batches nothing is polled, and the loop has a task.         *)
PhaseInv ==
  /\ phase \notin {"exec", "panic"} => BatchDone
  /\ phase \in {"loop", "advance"} => target # None

(* The task being polled has its future taken out; a task that was not     *)
(* spawned or that completed does not sleep.                               *)
PollInv ==
  /\ running # None => future[running] = "none"
  /\ \A t \in Tasks : future[t] = "unborn" \/ Completed(t) => sleep[t] = None

(* Under block_on a sleeper has its event in the heap, or is due and among *)
(* the tasks that run before the next advance().                           *)
NextToRun ==
  CASE phase = "exec" -> Range(batch)
    [] phase \in {"idle", "locked", "loop"} -> Range(ready)
    [] OTHER -> {}

SleepersDue ==
  phase # "panic" =>
    \A t \in Tasks : Sleeper(t) =>
      Scheduled(t, sleep[t]) \/ (sleep[t] = now /\ t \in NextToRun)

(* No sleep is overdue, not even the one of the task being polled.         *)
NoOverdueSleep ==
  \A t \in Tasks : sleep[t] # None /\ future[t] # "dropped" => now <= sleep[t]

BlockOnInv == BlockOnDrives => SleepersDue /\ NoOverdueSleep

-----------------------------------------------------------------------------
(* What the documentation says and the code does not do.                   *)

(* "Run all ready tasks" (runtime.rs): simulated time does not move while  *)
(* a task is ready to run at the current time.                             *)
ReadyTasksRunFirst == [][now' > now => ready = <<>>]_vars
=============================================================================
