------------------------------- MODULE Timer --------------------------------
(***************************************************************************)
(* The simulated clock and its queue of time events (src/src/time/timer.rs)*)
(*                                                                         *)
(* time_events is a BinaryHeap ordered by wake_time alone, so the queue is *)
(* a bag of (task, wake time) pairs of which advance removes one with the  *)
(* least wake time.  The order among equal wake times is the heap's        *)
(* business (module TimerHeap).                                            *)
(***************************************************************************)
EXTENDS TaskIds, Naturals

CONSTANT
  MaxTime    \* the largest value of the u64 that holds a time

ASSUME MaxTimeAssumption == MaxTime \in Nat

VARIABLES
  now,       \* Timer.current_time
  events     \* Timer.time_events: how many events each (task, time) has

timerVars == <<now, events>>

Times == 0 .. MaxTime

TimerTypeOK ==
  /\ now \in Times
  /\ events \in [Tasks \X Times -> Nat]

TimerInit ==
  /\ now = 0
  /\ events = [e \in Tasks \X Times |-> 0]

(* Time + Duration on u64.  It wraps in a release build.                   *)
TimeAdd(a, d) == (a + d) % (MaxTime + 1)

(* Mutant: sleep_for without its assertion.                                *)
SleepOverflowsMutant(d) == FALSE

(* sleep_for asserts wake_time >= now.                                     *)
SleepOverflows(d) == TimeAdd(now, d) < now

Scheduled(t, w) == events[<<t, w>>] > 0

NoEvents == \A t \in Tasks, w \in Times : ~Scheduled(t, w)

(* SleepFut::poll has elapsed, or pushes an event and stays pending.       *)
Elapsed(w) == now >= w

(* Mutant: the event is pushed without looking at the clock.               *)
PushEventMutant(t, w) ==
  /\ events' = [events EXCEPT ![<<t, w>>] = @ + 1]
  /\ UNCHANGED now

PushEvent(t, w) ==
  /\ ~Elapsed(w)
  /\ events' = [events EXCEPT ![<<t, w>>] = @ + 1]
  /\ UNCHANGED now

(* Mutant: the heap without Reverse, a max-heap.                           *)
EarliestMutant(t, w) ==
  /\ Scheduled(t, w)
  /\ \A u \in Tasks, v \in Times : Scheduled(u, v) => w >= v

(* Mutant: an event is taken from the heap without testing that it has one.*)
EarliestOfNoneMutant(t, w) ==
  \A u \in Tasks, v \in Times : Scheduled(u, v) => w <= v

(* Timer::advance with a non-empty heap; the caller wakes t.               *)
Earliest(t, w) ==
  /\ Scheduled(t, w)
  /\ \A u \in Tasks, v \in Times : Scheduled(u, v) => w <= v

PopEvent(t, w) ==
  /\ Earliest(t, w)
  /\ events' = [events EXCEPT ![<<t, w>>] = @ - 1]
  /\ now' = w

-----------------------------------------------------------------------------
(***************************************************************************)
(* What the timer promises on its own, and what TimerHeap is shown to      *)
(* implement: only future times are scheduled, and time jumps to the       *)
(* earliest scheduled event.                                               *)
(***************************************************************************)
TimerNext ==
  \E t \in Tasks, w \in Times : PushEvent(t, w) \/ PopEvent(t, w)

TimerSpec == TimerInit /\ [][TimerNext]_timerVars
=============================================================================
