------------------------------ MODULE Executor ------------------------------
(***************************************************************************)
(* The single-threaded executor of asim: the ready queue, the batch that   *)
(* one call of execute_tasks takes from it, and the poll in progress       *)
(* (src/src/runtime.rs, src/src/task.rs).                                  *)
(*                                                                         *)
(* The module has no specification of its own.  Runtime composes it with   *)
(* the timer and the block_on loop, AsyncMutex with the lock and the       *)
(* condition variable; both conjoin the actions below with the steps their *)
(* tasks take between two awaits.                                          *)
(***************************************************************************)
EXTENDS TaskIds, Naturals, Sequences, Functions

VARIABLES
  ready,    \* Runtime.ready_tasks: a Vec of Rc<Task>, duplicates allowed
  batch,    \* what is left of the Vec execute_tasks took with mem::take
  running,  \* the task whose future is being polled, or None
  future    \* Task.future: the Option behind the mutex of each task

execVars == <<ready, batch, running, future>>

(***************************************************************************)
(* A task is unborn until it is spawned.  Its future is Some between two   *)
(* polls and None (taken) during a poll and after it returned Ready.  A    *)
(* dropped task is one whose last Rc is gone.                              *)
(***************************************************************************)
FutureStates == {"unborn", "some", "none", "dropped"}

ExecTypeOK ==
  /\ ready \in Seq(Tasks)
  /\ batch \in Seq(Tasks)
  /\ running \in Tasks \cup {None}
  /\ future \in [Tasks -> FutureStates]

ExecInit ==
  /\ ready = <<>>
  /\ batch = <<>>
  /\ running = None
  /\ future = [t \in Tasks |-> "unborn"]

(* A clone of the Rc<Task> of t sits in one of the two queues.             *)
Queued(t) == t \in Range(ready) \/ t \in Range(batch)

(* The poll of t returned Ready: its future was not put back.              *)
Completed(t) == future[t] = "none" /\ running # t

(* execute_tasks is not iterating over a batch.                            *)
BatchDone == running = None /\ batch = <<>>

-----------------------------------------------------------------------------
(* Waker::wake and wake_by_ref push a clone of the Rc, whatever the state  *)
(* of the task: it may be queued already, running, or completed.           *)
Wake(t) == ready' = Append(ready, t)

(* Runtime::spawn, Handle::spawn and asim::spawn all do this.              *)
SpawnTask(t) ==
  /\ future[t] = "unborn"
  /\ future' = [future EXCEPT ![t] = "some"]
  /\ Wake(t)
  /\ UNCHANGED <<batch, running>>

(* mem::take of a queue that is not empty.                                 *)
TakeReady ==
  /\ ready # <<>>
  /\ batch' = ready
  /\ ready' = <<>>
  /\ UNCHANGED <<running, future>>

(* Mutant: a task is polled without testing that its future is Some.       *)
PollNextMutant ==
  /\ running = None
  /\ batch # <<>>
  /\ running' = Head(batch)
  /\ future' = [future EXCEPT ![Head(batch)] = "none"]
  /\ batch' = Tail(batch)
  /\ UNCHANGED ready

(* The next task of the batch still has its future: take it and poll it.   *)
PollNext ==
  /\ running = None
  /\ batch # <<>>
  /\ future[Head(batch)] = "some"
  /\ running' = Head(batch)
  /\ future' = [future EXCEPT ![Head(batch)] = "none"]
  /\ batch' = Tail(batch)
  /\ UNCHANGED ready

(* A stale clone of a task that completed earlier: nothing to poll.        *)
SkipCompleted ==
  /\ running = None
  /\ batch # <<>>
  /\ future[Head(batch)] # "some"
  /\ batch' = Tail(batch)
  /\ UNCHANGED <<ready, running, future>>

(* The poll of t returned Pending: the future is put back.                 *)
ReturnPending(t) ==
  /\ running = t
  /\ running' = None
  /\ future' = [future EXCEPT ![t] = "some"]
  /\ UNCHANGED batch

(* The poll of t returned Ready: the future is dropped.                    *)
ReturnReady(t) ==
  /\ running = t
  /\ running' = None
  /\ UNCHANGED <<batch, future>>

(* Mutant: the clones that wakers hold do not count as references.         *)
OrphansMutant(held) ==
  {t \in Range(ready) : t \notin Range(batch) \cup {running}}

(***************************************************************************)
(* Runtime::stop and Handle::stop clear the ready queue.  A task whose     *)
(* only references were there is dropped with its future; one the batch,   *)
(* the poll in progress or a waker stored elsewhere (held) still refers to *)
(* survives.                                                               *)
(***************************************************************************)
Orphans(held) ==
  {t \in Range(ready) : t \notin Range(batch) \cup {running} \cup held}

ClearReady(held) ==
  /\ ready' = <<>>
  /\ future' = [t \in Tasks |-> IF t \in Orphans(held) /\ future[t] = "some"
                                THEN "dropped" ELSE future[t]]
  /\ UNCHANGED <<batch, running>>
=============================================================================
