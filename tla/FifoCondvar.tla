---------------------------- MODULE FifoCondvar -----------------------------
(***************************************************************************)
(* What a condition variable with timeouts promises: notifications reach   *)
(* the waiting tasks in the order in which they began to wait, and a wait  *)
(* ends only with a notification or, if it was given a time limit, once    *)
(* that limit has passed.  Nothing else wakes a waiting task for good.     *)
(* SyncCondvar is shown to implement it.                                   *)
(***************************************************************************)
EXTENDS TaskIds, Naturals, Sequences, SequencesExt

CONSTANT MaxTime

VARIABLES
  now,        \* the time
  queue,      \* the tasks that wait, the longest first
  notified,   \* the tasks that were notified and did not return yet
  limit       \* when the wait of each task times out; None: never

fifoVars == <<now, queue, notified, limit>>

FifoInit ==
  /\ now = 0
  /\ queue = <<>>
  /\ notified = {}
  /\ limit = [t \in Tasks |-> None]

(* A wait with a timeout is called: its limit counts from here.            *)
SetLimit(t) ==
  /\ t \notin ToSet(queue) \cup notified
  /\ limit[t] = None
  /\ \E w \in now + 1 .. MaxTime : limit' = [limit EXCEPT ![t] = w]
  /\ UNCHANGED <<now, queue, notified>>

Enter(t) ==
  /\ t \notin ToSet(queue) \cup notified
  /\ queue' = Append(queue, t)
  /\ UNCHANGED <<now, notified, limit>>

NotifyFirst ==
  /\ queue # <<>>
  /\ notified' = notified \cup {Head(queue)}
  /\ queue' = Tail(queue)
  /\ UNCHANGED <<now, limit>>

NotifyEveryone ==
  /\ queue # <<>>
  /\ notified' = notified \cup ToSet(queue)
  /\ queue' = <<>>
  /\ UNCHANGED <<now, limit>>

Leave(t) == limit' = [limit EXCEPT ![t] = None] /\ UNCHANGED now

Return(t) ==
  /\ t \in notified
  /\ notified' = notified \ {t}
  /\ Leave(t)
  /\ UNCHANGED queue

TimeOut(t) ==
  /\ limit[t] # None
  /\ now >= limit[t]
  /\ \E i \in DOMAIN queue : queue[i] = t /\ queue' = RemoveAt(queue, i)
  /\ Leave(t)
  /\ UNCHANGED notified

Tick ==
  /\ now' \in now + 1 .. MaxTime
  /\ UNCHANGED <<queue, notified, limit>>

FifoNext ==
  \/ NotifyFirst
  \/ NotifyEveryone
  \/ Tick
  \/ \E t \in Tasks : SetLimit(t) \/ Enter(t) \/ Return(t) \/ TimeOut(t)

FifoSpec == FifoInit /\ [][FifoNext]_fifoVars
=============================================================================
