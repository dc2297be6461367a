----------------------------- MODULE SleepClock -----------------------------
(***************************************************************************)
(* What a discrete event simulator promises to a sleeping task: the clock  *)
(* jumps from one deadline to the next earliest one, never past a task     *)
(* that still sleeps, so that a sleep returns exactly at its deadline.     *)
(* Runtime is shown to implement it while block_on is the only driver.     *)
(***************************************************************************)
EXTENDS TaskIds, Naturals

CONSTANT MaxTime

VARIABLES
  now,       \* the simulated time
  deadline,  \* when the sleep of each task ends, None if it does not sleep
  gone       \* tasks that were dropped before their sleep ended

clockVars == <<now, deadline, gone>>

ClockInit ==
  /\ now = 0
  /\ deadline = [t \in Tasks |-> None]
  /\ gone = {}

FallAsleep(t) ==
  /\ deadline[t] = None
  /\ \E w \in now .. MaxTime : deadline' = [deadline EXCEPT ![t] = w]
  /\ UNCHANGED <<now, gone>>

(* Neither early nor late.                                                 *)
WakeUp(t) ==
  /\ t \notin gone
  /\ deadline[t] = now
  /\ deadline' = [deadline EXCEPT ![t] = None]
  /\ UNCHANGED <<now, gone>>

Tick(t) ==
  /\ t \notin gone
  /\ deadline[t] # None
  /\ \A u \in Tasks \ gone : deadline[u] # None => deadline[t] <= deadline[u]
  /\ now < deadline[t]
  /\ now' = deadline[t]
  /\ UNCHANGED <<deadline, gone>>

Discard ==
  /\ gone' \in SUBSET Tasks
  /\ gone \subseteq gone'
  /\ UNCHANGED <<now, deadline>>

ClockNext == Discard \/ \E t \in Tasks : FallAsleep(t) \/ WakeUp(t) \/ Tick(t)

ClockSpec == ClockInit /\ [][ClockNext]_clockVars
=============================================================================
