---------------------------- MODULE RuntimeProofs ---------------------------
(***************************************************************************)
(* Proofs about Runtime, for every set of tasks, range of times, set of    *)
(* durations and choice of calls.                                          *)
(***************************************************************************)
EXTENDS Runtime, ExecutorProofs

-----------------------------------------------------------------------------
(* Types.                                                                  *)

LEMMA TypeInit == Init => TypeOK
BY NoneAssumption, MaxTimeAssumption, RuntimeAssumption
   DEF Init, TypeOK, ExecInit, ExecTypeOK, FutureStates, TimerInit,
       TimerTypeOK, Times, Phases

(* The sum of two times stays in the range of the counter.                 *)
LEMMA TimeAddType ==
  ASSUME NEW a \in Times, NEW d \in Times
  PROVE  TimeAdd(a, d) \in Times
BY MaxTimeAssumption DEF Times, TimeAdd

LEMMA TypeNext == TypeOK /\ [Next]_vars => TypeOK'
<1> SUFFICES ASSUME TypeOK, [Next]_vars
             PROVE  TypeOK'
  OBVIOUS
<1> USE NoneAssumption, MaxTimeAssumption, RuntimeAssumption
    DEF TypeOK, ExecTypeOK, TimerTypeOK, FutureStates, Phases,
        execVars, timerVars, waitVars, driverVars
<1>0. <<>> \in Seq(Tasks)
  OBVIOUS
<1>1. ASSUME NEW t \in Tasks, Wake(t)
      PROVE  ready' \in Seq(Tasks)
  BY <1>1, RangeAppend DEF Wake
<1>2. ASSUME NEW t \in Tasks, SpawnTask(t)
      PROVE  ExecTypeOK'
  BY <1>1, <1>2 DEF SpawnTask
<1>3. ASSUME NEW t \in Tasks, NEW w \in Times, PopEvent(t, w)
      PROVE  TimerTypeOK'
  BY <1>3 DEF PopEvent, Earliest, Scheduled
<1>4. CASE \E t \in Tasks : BlockOn(t)
  BY <1>2, <1>4 DEF BlockOn
<1>5. CASE \E t \in Tasks : Spawn(t)
  BY <1>2, <1>5 DEF Spawn
<1>6. CASE ExecuteTasks \/ LoopExecute
  BY <1>0, <1>6 DEF ExecuteTasks, LoopExecute, TakeReady
<1>7. CASE Advance
  BY <1>1, <1>3, <1>7 DEF Advance
<1>8. CASE Stop
  BY <1>0, <1>8 DEF Stop, ClearReady
<1>9. CASE WithContext \/ DropContext \/ Reenter
  BY <1>0, <1>9 DEF WithContext, DropContext, Reenter
<1>10. CASE LoopNothingReady \/ LoopExit \/ EndExecute
  BY <1>10 DEF LoopNothingReady, LoopExit, EndExecute
<1>11. CASE LoopAdvance
  BY <1>1, <1>3, <1>11 DEF LoopAdvance
<1>12. CASE BeginPoll
  <2>1. batch # <<>>
    BY <1>12 DEF BeginPoll, PollNext, SkipCompleted
  <2>2. Head(batch) \in Tasks /\ Tail(batch) \in Seq(Tasks)
    BY <2>1, RangeTail
  <2> QED
    BY <1>12, <2>2 DEF BeginPoll, PollNext, SkipCompleted
<1>13. CASE \E t, u \in Tasks : TaskSpawn(t, u)
  BY <1>2, <1>13 DEF TaskSpawn
<1>14. CASE \E t, u \in Tasks : Unpark(t, u)
  BY <1>1, <1>14 DEF Unpark
<1>15. ASSUME NEW t \in Tasks, NEW d \in Durations, SleepFor(t, d)
       PROVE  TypeOK'
  BY <1>15, TimeAddType DEF SleepFor
<1>16. CASE \E t \in Tasks : PollSleepReady(t)
  BY <1>16 DEF PollSleepReady
<1>17. CASE \E t \in Tasks : PollSleepPending(t)
  BY <1>17 DEF PollSleepPending, PushEvent, ReturnPending
<1>18. CASE \E t \in Tasks : Park(t) \/ Finish(t)
  BY <1>18 DEF Park, Finish, ReturnPending, ReturnReady
<1>19. CASE UNCHANGED vars
  BY <1>19 DEF vars
<1> QED
  BY <1>4, <1>5, <1>6, <1>7, <1>8, <1>9, <1>10, <1>11, <1>12, <1>13, <1>14,
     <1>15, <1>16, <1>17, <1>18, <1>19
     DEF Next, DriverStep, LoopStep, ExecStep, TaskStep

(* Every reachable state of the runtime is well typed: in particular no    *)
(* time leaves the range of the u64.                                       *)
THEOREM TypeCorrect == Spec => []TypeOK
BY TypeInit, TypeNext, PTL DEF Spec

-----------------------------------------------------------------------------
(* The clock and its events.                                               *)

(* Only five actions touch the clock, the events or a sleep.               *)
LEMMA TimerCases ==
  ASSUME [Next]_vars
  PROVE  \/ UNCHANGED <<now, events, sleep>>
         \/ /\ Advance \/ LoopAdvance
            /\ \E t \in Tasks, w \in Times : PopEvent(t, w)
            /\ UNCHANGED <<sleep, future>>
         \/ \E t \in Tasks, d \in Durations : SleepFor(t, d)
         \/ \E t \in Tasks : PollSleepReady(t) \/ PollSleepPending(t)
<1> USE DEF execVars, timerVars, waitVars, driverVars
<1>1. CASE DriverStep
  BY <1>1 DEF DriverStep, BlockOn, Spawn, ExecuteTasks, Advance, Stop,
              WithContext, DropContext, Reenter
<1>2. CASE LoopStep \/ ExecStep
  BY <1>2 DEF LoopStep, ExecStep, LoopExecute, LoopNothingReady, LoopAdvance,
              LoopExit, BeginPoll, EndExecute
<1>3. ASSUME NEW t \in Tasks, TaskStep(t)
      PROVE  \/ UNCHANGED <<now, events, sleep>>
             \/ \E d \in Durations : SleepFor(t, d)
             \/ PollSleepReady(t) \/ PollSleepPending(t)
  BY <1>3 DEF TaskStep, TaskSpawn, Unpark, Park, Finish
<1>4. CASE UNCHANGED vars
  BY <1>4 DEF vars
<1> QED
  BY <1>1, <1>2, <1>3, <1>4 DEF Next

LEMMA TimeInit == Init => EventsNotPast /\ StaleEventsAreDue
BY DEF Init, TimerInit, EventsNotPast, StaleEventsAreDue, Scheduled, Times

LEMMA TimeNext ==
  TypeOK /\ EventsNotPast /\ StaleEventsAreDue /\ [Next]_vars
    => EventsNotPast' /\ StaleEventsAreDue'
<1> SUFFICES ASSUME TypeOK, EventsNotPast, StaleEventsAreDue, [Next]_vars
             PROVE  EventsNotPast' /\ StaleEventsAreDue'
  OBVIOUS
<1> USE MaxTimeAssumption, RuntimeAssumption
    DEF TypeOK, TimerTypeOK, EventsNotPast, StaleEventsAreDue, Scheduled
<1>1. CASE UNCHANGED <<now, events, sleep>>
  BY <1>1
<1>2. ASSUME NEW t \in Tasks, NEW w \in Times, PopEvent(t, w), UNCHANGED sleep
      PROVE  EventsNotPast' /\ StaleEventsAreDue'
  <2>1. \A u \in Tasks, v \in Times : Scheduled(u, v)' => Scheduled(u, v)
    BY <1>2 DEF PopEvent, Earliest
  <2>2. \A u \in Tasks, v \in Times : Scheduled(u, v) => w <= v
    BY <1>2 DEF PopEvent, Earliest
  <2>3. now <= w /\ now' = w
    BY <1>2 DEF PopEvent, Earliest
  <2>4. EventsNotPast'
    BY <2>1, <2>2, <2>3
  <2>5. ASSUME NEW u \in Tasks, NEW v \in Times, Scheduled(u, v), sleep[u] # v
        PROVE  now' = now
    BY <2>2, <2>3, <2>5 DEF Times
  <2>6. StaleEventsAreDue'
    BY <1>2, <2>1, <2>5
  <2> QED
    BY <2>4, <2>6
<1>3. ASSUME NEW t \in Tasks, NEW d \in Durations, SleepFor(t, d)
      PROVE  EventsNotPast' /\ StaleEventsAreDue'
  <2>1. UNCHANGED <<now, events>>
    BY <1>3 DEF SleepFor, timerVars
  <2>2. CASE UNCHANGED sleep
    BY <2>1, <2>2
  <2>3. CASE ~SleepOverflows(d) /\ sleep' = [sleep EXCEPT ![t] = TimeAdd(now, d)]
    <3>1. TimeAdd(now, d) \in Times /\ now <= TimeAdd(now, d)
      BY <2>3, TimeAddType DEF SleepOverflows, Times
    <3>2. sleep[t] = None
      BY <1>3 DEF SleepFor, InTask
    <3>3. \A v \in Times : Scheduled(t, v) => now = v
      BY <3>2
    <3> QED
      BY <2>1, <2>3, <3>1, <3>3
  <2> QED
    BY <1>3, <2>2, <2>3 DEF SleepFor
<1>4. ASSUME NEW t \in Tasks, PollSleepReady(t)
      PROVE  EventsNotPast' /\ StaleEventsAreDue'
  <2>1. \A v \in Times : Scheduled(t, v) => now = v
    BY <1>4 DEF PollSleepReady, Elapsed, Times
  <2> QED
    BY <1>4, <2>1 DEF PollSleepReady, timerVars
<1>5. ASSUME NEW t \in Tasks, PollSleepPending(t)
      PROVE  EventsNotPast' /\ StaleEventsAreDue'
  <2>1. sleep[t] \in Times /\ now <= sleep[t]
    BY <1>5 DEF PollSleepPending, PushEvent, Elapsed, Times
  <2>2. UNCHANGED <<now, sleep>>
    BY <1>5 DEF PollSleepPending, PushEvent, waitVars
  <2>3. \A u \in Tasks, v \in Times :
          Scheduled(u, v)' => Scheduled(u, v) \/ (u = t /\ v = sleep[t])
    BY <1>5, <2>1 DEF PollSleepPending, PushEvent
  <2> QED
    BY <2>1, <2>2, <2>3
<1> QED
  BY <1>1, <1>2, <1>3, <1>4, <1>5, TimerCases

LEMMA TimeInvariant == Spec => [](TypeOK /\ EventsNotPast /\ StaleEventsAreDue)
<1>1. Init => TypeOK /\ EventsNotPast /\ StaleEventsAreDue
  BY TypeInit, TimeInit
<1>2. TypeOK /\ EventsNotPast /\ StaleEventsAreDue /\ [Next]_vars
        => (TypeOK /\ EventsNotPast /\ StaleEventsAreDue)'
  BY TypeNext, TimeNext
<1> QED
  BY <1>1, <1>2, PTL DEF Spec

(* No event lies in the past, whoever drives the clock.                    *)
THEOREM EventsCorrect == Spec => []EventsNotPast
BY TimeInvariant, PTL

(* An event left over from an earlier sleep never moves the clock.         *)
THEOREM StaleEventsHarmless == Spec => []StaleEventsAreDue
BY TimeInvariant, PTL

(* Simulated time never runs backwards, because advance() only ever pops   *)
(* an event that is not in the past.                                       *)
THEOREM TimeNeverDecreases == Spec => TimeMonotone
<1>1. TypeOK /\ EventsNotPast /\ [Next]_vars => [now' >= now]_now
  <2> SUFFICES ASSUME TypeOK, EventsNotPast, [Next]_vars
               PROVE  now' >= now \/ now' = now
    BY DEF vars
  <2>1. ASSUME NEW t \in Tasks, NEW w \in Times, PopEvent(t, w)
        PROVE  now' >= now
    BY <2>1 DEF PopEvent, Earliest, EventsNotPast, TypeOK, TimerTypeOK, Times
  <2>2. ASSUME NEW t \in Tasks, NEW d \in Durations, SleepFor(t, d)
        PROVE  now' = now
    BY <2>2 DEF SleepFor, timerVars
  <2>3. ASSUME NEW t \in Tasks, PollSleepReady(t) \/ PollSleepPending(t)
        PROVE  now' = now
    BY <2>3 DEF PollSleepReady, PollSleepPending, PushEvent, timerVars
  <2> QED
    BY <2>1, <2>2, <2>3, TimerCases
<1> QED
  BY <1>1, TimeInvariant, PTL DEF Spec, TimeMonotone

-----------------------------------------------------------------------------
(* References to tasks: what each step of the timer does to the set of     *)
(* tasks that a waker holds (ExecutorProofs has those that are queued).    *)

LEMMA PopHeld ==
  ASSUME TypeOK, NEW t \in Tasks, NEW w \in Times, PopEvent(t, w),
         UNCHANGED parked
  PROVE  t \in Held /\ Held' \subseteq Held /\ Held \subseteq Held' \cup {t}
<1>1. Scheduled(t, w)
  BY DEF PopEvent, Earliest
<1>2. \A u \in Tasks, v \in Times : Scheduled(u, v)' => Scheduled(u, v)
  BY <1>1 DEF PopEvent, Scheduled, TypeOK, TimerTypeOK
<1>3. \A u \in Tasks \ {t}, v \in Times : Scheduled(u, v) => Scheduled(u, v)'
  BY DEF PopEvent, Scheduled, TypeOK, TimerTypeOK
<1> QED
  BY <1>1, <1>2, <1>3 DEF Held

LEMMA PushHeld ==
  ASSUME TypeOK, NEW t \in Tasks, NEW w \in Times, PushEvent(t, w),
         UNCHANGED parked
  PROVE  Held' = Held \cup {t}
<1>1. Scheduled(t, w)'
  BY DEF PushEvent, Scheduled, TypeOK, TimerTypeOK
<1>2. \A u \in Tasks \ {t}, v \in Times : Scheduled(u, v)' <=> Scheduled(u, v)
  BY DEF PushEvent, Scheduled, TypeOK, TimerTypeOK
<1> QED
  BY <1>1, <1>2 DEF Held, TypeOK

LEMMA SameHeld ==
  ASSUME UNCHANGED <<events, parked>>
  PROVE  Held' = Held
BY DEF Held, Scheduled

-----------------------------------------------------------------------------
(* Tasks.                                                                  *)

TaskInv == PhaseInv /\ PollInv /\ NoUseAfterDrop /\ NoLostWakeup

LEMMA TaskInit == Init => TaskInv
BY RangeEmpty
   DEF Init, ExecInit, TimerInit, TaskInv, PhaseInv, PollInv, BatchDone,
       NoUseAfterDrop, NoLostWakeup, Completed

LEMMA TaskNext == TypeOK /\ TaskInv /\ [Next]_vars => TaskInv'
<1> SUFFICES ASSUME TypeOK, TaskInv, [Next]_vars
             PROVE  TaskInv'
  OBVIOUS
<1> USE NoneAssumption
    DEF TaskInv, PhaseInv, PollInv, NoUseAfterDrop, NoLostWakeup, BatchDone,
        Completed, execVars, timerVars, waitVars, driverVars
<1>t. /\ future \in [Tasks -> FutureStates]
      /\ running \in Tasks \cup {None}
      /\ sleep \in [Tasks -> Times \cup {None}]
      /\ parked \subseteq Tasks
  BY DEF TypeOK, ExecTypeOK
<1>x. ExecTypeOK
  BY DEF TypeOK
<1>1. ASSUME NEW t \in Tasks, SpawnTask(t), UNCHANGED <<timerVars, waitVars>>,
             phase # "panic", PhaseInv'
      PROVE  TaskInv'
  <2>1. \A u \in Tasks : Queued(u)' <=> Queued(u) \/ u = t
    BY <1>1, <1>x, WakeQueued DEF SpawnTask
  <2>2. Held' = Held
    BY <1>1, SameHeld
  <2> QED
    BY <1>t, <1>1, <2>1, <2>2 DEF SpawnTask
<1>2. ASSUME TakeReady, BatchDone, UNCHANGED <<timerVars, waitVars>>,
             phase # "panic", PhaseInv'
      PROVE  TaskInv'
  <2>1. \A u \in Tasks : Queued(u)' <=> Queued(u)
    BY <1>2, <1>x, TakeQueued
  <2>2. Held' = Held
    BY <1>2, SameHeld
  <2> QED
    BY <1>t, <1>2, <2>1, <2>2 DEF TakeReady
<1>3. ASSUME NEW t \in Tasks, NEW w \in Times, PopEvent(t, w), Wake(t),
             UNCHANGED <<batch, running, future, waitVars, target>>,
             phase # "panic", PhaseInv'
      PROVE  TaskInv'
  <2>1. \A u \in Tasks : Queued(u)' <=> Queued(u) \/ u = t
    BY <1>3, <1>x, WakeQueued
  <2>2. t \in Held /\ Held' \subseteq Held /\ Held \subseteq Held' \cup {t}
    BY <1>3, PopHeld
  <2> QED
    BY <1>t, <1>3, <2>1, <2>2
<1>4. ASSUME UNCHANGED <<execVars, timerVars, waitVars>>, phase # "panic",
             PhaseInv'
      PROVE  TaskInv'
  <2>1. Held' = Held
    BY <1>4, SameHeld
  <2> QED
    BY <1>t, <1>4, <2>1 DEF Queued
<1>5. CASE \E t \in Tasks : BlockOn(t)
  BY <1>1, <1>5 DEF BlockOn, SpawnTask
<1>6. CASE \E t \in Tasks : Spawn(t)
  BY <1>1, <1>6 DEF Spawn, SpawnTask
<1>7. CASE ExecuteTasks \/ LoopExecute
  BY <1>2, <1>7 DEF ExecuteTasks, LoopExecute
<1>8. CASE Advance \/ LoopAdvance
  BY <1>3, <1>4, <1>8 DEF Advance, LoopAdvance
<1>9. CASE Stop
  <2>1. \A u \in Tasks : Queued(u)' <=> u \in Range(batch)
    BY <1>9, RangeEmpty DEF Stop, ClearReady, Queued
  <2>2. Held' = Held
    BY <1>9, SameHeld DEF Stop
  <2>3. \A u \in Tasks : u \in Orphans(Held) <=>
          u \in Range(ready) /\ u \notin Range(batch) \cup {running} \cup Held
    BY DEF Orphans
  <2>4. /\ UNCHANGED <<batch, running, timerVars, waitVars, driverVars>>
        /\ phase # "panic"
        /\ \A u \in Tasks : future'[u] =
             IF u \in Orphans(Held) /\ future[u] = "some" THEN "dropped"
             ELSE future[u]
    BY <1>9 DEF Stop, ClearReady
  <2>5. PhaseInv'
    BY <2>4
  <2>6. PollInv'
    BY <1>t, <2>4
  <2>7. NoUseAfterDrop'
    BY <1>t, <2>1, <2>2, <2>3, <2>4 DEF Queued
  <2>8. NoLostWakeup'
    BY <1>t, <2>1, <2>2, <2>3, <2>4 DEF Queued
  <2> QED
    BY <2>5, <2>6, <2>7, <2>8
<1>10. CASE WithContext \/ DropContext
  BY <1>4, <1>10 DEF WithContext, DropContext
<1>11. CASE Reenter
  <2>1. \A u \in Tasks : Queued(u)' => Queued(u)
    BY <1>11, RangeEmpty DEF Reenter, Queued
  <2>2. Held' = Held
    BY <1>11, SameHeld DEF Reenter
  <2> QED
    BY <1>t, <1>11, <2>1, <2>2 DEF Reenter
<1>12. CASE LoopNothingReady \/ LoopExit \/ EndExecute
  BY <1>4, <1>12 DEF LoopNothingReady, LoopExit, EndExecute
<1>13. CASE BeginPoll
  <2>1. batch # <<>> /\ batch' = Tail(batch) /\ UNCHANGED ready
    BY <1>13 DEF BeginPoll, PollNext, SkipCompleted
  <2>2. /\ Head(batch) \in Tasks
        /\ Queued(Head(batch))
        /\ \A u \in Tasks : Queued(u) <=> Queued(u)' \/ u = Head(batch)
    BY <2>1, <1>x, DequeueQueued
  <2>3. Held' = Held
    BY <1>13, SameHeld DEF BeginPoll
  <2>4. phase = "exec" /\ UNCHANGED <<timerVars, waitVars, driverVars>>
    BY <1>13 DEF BeginPoll
  <2>5. CASE PollNext
    BY <1>t, <2>2, <2>3, <2>4, <2>5 DEF PollNext
  <2>6. CASE SkipCompleted
    BY <1>t, <2>2, <2>3, <2>4, <2>6 DEF SkipCompleted
  <2> QED
    BY <1>13, <2>5, <2>6 DEF BeginPoll
<1>14. CASE \E t, u \in Tasks : TaskSpawn(t, u)
  BY <1>1, <1>14 DEF TaskSpawn, InTask, SpawnTask
<1>15. ASSUME NEW t \in Tasks, NEW u \in Tasks, Unpark(t, u)
       PROVE  TaskInv'
  <2>1. \A v \in Tasks : Queued(v)' <=> Queued(v) \/ v = u
    BY <1>15, <1>x, WakeQueued DEF Unpark
  <2>2. u \in Held /\ Held' \subseteq Held /\ Held \subseteq Held' \cup {u}
    BY <1>15 DEF Unpark, Held, Scheduled
  <2> QED
    BY <1>t, <1>15, <2>1, <2>2 DEF Unpark, InTask
<1>16. ASSUME NEW t \in Tasks, NEW d \in Durations, SleepFor(t, d)
       PROVE  TaskInv'
  <2>1. Held' = Held
    BY <1>16, SameHeld DEF SleepFor
  <2> QED
    BY <1>t, <1>16, <2>1 DEF SleepFor, InTask, Queued
<1>17. ASSUME NEW t \in Tasks, PollSleepReady(t)
       PROVE  TaskInv'
  <2>1. Held' = Held
    BY <1>17, SameHeld DEF PollSleepReady
  <2> QED
    BY <1>t, <1>17, <2>1 DEF PollSleepReady, Queued
<1>18. ASSUME NEW t \in Tasks, PollSleepPending(t)
       PROVE  TaskInv'
  <2>1. Held' = Held \cup {t}
    BY <1>t, <1>18, PushHeld DEF PollSleepPending
  <2> QED
    BY <1>t, <1>18, <2>1
       DEF PollSleepPending, ReturnPending, PushEvent, Queued
<1>19. ASSUME NEW t \in Tasks, Park(t)
       PROVE  TaskInv'
  <2>1. Held' = Held \cup {t}
    BY <1>19 DEF Park, Held, Scheduled
  <2> QED
    BY <1>t, <1>19, <2>1 DEF Park, InTask, ReturnPending, Queued
<1>20. ASSUME NEW t \in Tasks, Finish(t)
       PROVE  TaskInv'
  <2>1. Held' = Held
    BY <1>20, SameHeld DEF Finish
  <2> QED
    BY <1>t, <1>20, <2>1 DEF Finish, InTask, ReturnReady, Queued
<1>21. CASE UNCHANGED vars
  <2>1. Held' = Held
    BY <1>21, SameHeld DEF vars
  <2> QED
    BY <1>t, <1>21, <2>1 DEF vars, Queued
<1> QED
  BY <1>5, <1>6, <1>7, <1>8, <1>9, <1>10, <1>11, <1>12, <1>13, <1>14, <1>15,
     <1>16, <1>17, <1>18, <1>19, <1>20, <1>21
     DEF Next, DriverStep, LoopStep, ExecStep, TaskStep

LEMMA TaskInvariant == Spec => [](TypeOK /\ TaskInv)
<1>1. Init => TypeOK /\ TaskInv
  BY TypeInit, TaskInit
<1>2. TypeOK /\ TaskInv /\ [Next]_vars => (TypeOK /\ TaskInv)'
  BY TypeNext, TaskNext
<1> QED
  BY <1>1, <1>2, PTL DEF Spec

(* No wakeup is lost: a suspended task is queued or some waker refers to   *)
(* it, for every driver and in spite of stop().                            *)
THEOREM WakeupsNotLost == Spec => []NoLostWakeup
<1>1. TaskInv => NoLostWakeup
  BY DEF TaskInv
<1> QED
  BY <1>1, TaskInvariant, PTL

(* A task that stop() dropped is not referred to any more.                 *)
THEOREM DroppedNotUsed == Spec => []NoUseAfterDrop
<1>1. TaskInv => NoUseAfterDrop
  BY DEF TaskInv
<1> QED
  BY <1>1, TaskInvariant, PTL

(* What is finished or dropped stays so in every step.                     *)
LEMMA FinishedNext ==
  ASSUME TypeOK, TaskInv, [Next]_vars
  PROVE  \A t \in Tasks : /\ Completed(t) => Completed(t)'
                          /\ future[t] = "dropped" => future'[t] = "dropped"
<1> DEFINE Keep == \A t \in Tasks :
             /\ Completed(t) => Completed(t)'
             /\ future[t] = "dropped" => future'[t] = "dropped"
<1> USE NoneAssumption
    DEF Completed, execVars, timerVars, waitVars, driverVars
<1>1. /\ future \in [Tasks -> FutureStates]
      /\ running \in Tasks \cup {None}
      /\ running # None => future[running] = "none"
  BY DEF TypeOK, ExecTypeOK, TaskInv, PollInv
<1>2. ASSUME NEW t \in Tasks, SpawnTask(t)
      PROVE  Keep
  BY <1>1, <1>2 DEF SpawnTask
<1>3. CASE UNCHANGED <<running, future>>
  BY <1>3
<1>4. CASE Stop
  BY <1>1, <1>4 DEF Stop, ClearReady
<1>5. CASE BeginPoll
  <2>1. batch # <<>> => Head(batch) \in Tasks
    BY RangeTail DEF TypeOK, ExecTypeOK
  <2> QED
    BY <1>1, <1>5, <2>1 DEF BeginPoll, PollNext, SkipCompleted
<1>6. ASSUME NEW t \in Tasks, ReturnPending(t) \/ ReturnReady(t)
      PROVE  Keep
  BY <1>1, <1>6 DEF ReturnPending, ReturnReady
<1>7. CASE DriverStep
  BY <1>2, <1>3, <1>4, <1>7
     DEF DriverStep, BlockOn, Spawn, ExecuteTasks, TakeReady, Advance,
         WithContext, DropContext, Reenter
<1>8. CASE LoopStep \/ ExecStep
  BY <1>3, <1>5, <1>8
     DEF LoopStep, ExecStep, LoopExecute, TakeReady, LoopNothingReady,
         LoopAdvance, LoopExit, EndExecute
<1>9. ASSUME NEW t \in Tasks, TaskStep(t)
      PROVE  Keep
  BY <1>2, <1>3, <1>6, <1>9
     DEF TaskStep, TaskSpawn, Unpark, SleepFor, PollSleepReady,
         PollSleepPending, Park, Finish
<1>10. CASE UNCHANGED vars
  BY <1>3, <1>10 DEF vars
<1> QED
  BY <1>7, <1>8, <1>9, <1>10 DEF Next

(* A completed task is never polled again and a dropped one never returns, *)
(* however many clones of them are still queued.                           *)
THEOREM FinishedStaysFinished == Spec => FinishedForGood
<1>1. TypeOK /\ TaskInv /\ [Next]_vars =>
        [\A t \in Tasks :
           /\ Completed(t) => Completed(t)'
           /\ future[t] = "dropped" => future'[t] = "dropped"]_vars
  BY FinishedNext
<1> QED
  BY <1>1, TaskInvariant, PTL DEF Spec, FinishedForGood

-----------------------------------------------------------------------------
(* Sleeping under block_on.                                                *)

SleepInv == TypeOK /\ EventsNotPast /\ StaleEventsAreDue /\ TaskInv

LEMMA BlockOnInit == Init => BlockOnInv
BY DEF Init, ExecInit, BlockOnInv, SleepersDue, NoOverdueSleep, Sleeper

LEMMA BlockOnNext == SleepInv /\ BlockOnInv /\ [Next]_vars => BlockOnInv'
<1> SUFFICES ASSUME SleepInv, BlockOnDrives, SleepersDue, NoOverdueSleep,
                    [Next]_vars
             PROVE  SleepersDue' /\ NoOverdueSleep'
  BY DEF BlockOnInv, BlockOnDrives
<1> USE NoneAssumption, MaxTimeAssumption, RuntimeAssumption
    DEF SleepersDue, NoOverdueSleep, NextToRun, Sleeper,
        execVars, timerVars, waitVars, driverVars
<1>t. /\ future \in [Tasks -> FutureStates]
      /\ running \in Tasks \cup {None}
      /\ sleep \in [Tasks -> Times \cup {None}]
      /\ now \in Times
      /\ ready \in Seq(Tasks)
      /\ batch \in Seq(Tasks)
      /\ phase \in Phases
  BY DEF SleepInv, TypeOK, ExecTypeOK, TimerTypeOK
<1>p. PhaseInv /\ PollInv
  BY DEF SleepInv, TaskInv
<1>1. ASSUME NEW t \in Tasks, SpawnTask(t), UNCHANGED <<timerVars, waitVars>>,
             phase \in {"idle", "locked", "exec"},
             phase' = phase \/ (phase = "idle" /\ phase' = "loop")
      PROVE  SleepersDue' /\ NoOverdueSleep'
  <2>1. Range(ready') = Range(ready) \cup {t}
    BY <1>t, <1>1, RangeAppend DEF SpawnTask, Wake
  <2>2. sleep[t] = None
    BY <1>p, <1>1 DEF PollInv, SpawnTask
  <2> QED
    BY <1>t, <1>1, <2>1, <2>2 DEF SpawnTask, Scheduled
<1>2. CASE ExecuteTasks \/ LoopExecute
  <2>1. /\ phase \in {"idle", "loop"}
        /\ phase' = "exec"
        /\ batch' = ready
        /\ UNCHANGED <<future, timerVars, waitVars>>
    BY <1>2 DEF ExecuteTasks, LoopExecute, TakeReady
  <2> QED
    BY <1>t, <2>1 DEF Scheduled
<1>3. CASE LoopAdvance
  <2>1. phase = "advance" /\ phase' = "loop" /\ UNCHANGED <<future, sleep>>
    BY <1>3 DEF LoopAdvance
  <2>2. CASE NoEvents /\ UNCHANGED <<timerVars, ready>>
    BY <1>t, <2>1, <2>2 DEF Scheduled
  <2>3. ASSUME NEW t \in Tasks, NEW w \in Times, PopEvent(t, w), Wake(t)
        PROVE  SleepersDue' /\ NoOverdueSleep'
    <3>1. t \in Range(ready')
      BY <1>t, <2>3, RangeAppend DEF Wake
    <3>2. \A u \in Tasks : Sleeper(u) => Scheduled(u, sleep[u])
      BY <2>1
    <3>3. \A u \in Tasks, v \in Times :
            <<u, v>> # <<t, w>> => (Scheduled(u, v)' <=> Scheduled(u, v))
      BY <2>3 DEF PopEvent, Scheduled, SleepInv, TypeOK, TimerTypeOK
    <3>4. \A u \in Tasks, v \in Times : Scheduled(u, v) => w <= v
      BY <2>3 DEF PopEvent, Earliest
    <3>5. now' = w
      BY <2>3 DEF PopEvent
    <3>6. SleepersDue'
      BY <1>t, <2>1, <3>1, <3>2, <3>3, <3>5
    <3>7. \A u \in Tasks : sleep[u] # None /\ future[u] # "dropped" => Sleeper(u)
      BY <1>t, <1>p, <2>1
         DEF PhaseInv, PollInv, BatchDone, Completed, FutureStates
    <3>8. NoOverdueSleep'
      BY <1>t, <2>1, <3>2, <3>4, <3>5, <3>7
    <3> QED
      BY <3>6, <3>8
  <2> QED
    BY <1>3, <2>2, <2>3 DEF LoopAdvance
<1>4. CASE Advance
  BY <1>4 DEF Advance, BlockOnDrives
<1>5. CASE Stop
  <2>1. /\ phase = "exec"
        /\ UNCHANGED <<batch, timerVars, waitVars, phase>>
        /\ \A u \in Tasks : future'[u] \in {"dropped", future[u]}
        /\ \A u \in Tasks : future[u] = "dropped" => future'[u] = "dropped"
    BY <1>5 DEF Stop, ClearReady, BlockOnDrives
  <2> QED
    BY <1>t, <2>1 DEF Scheduled
<1>6. CASE WithContext \/ DropContext
  BY <1>t, <1>6 DEF WithContext, DropContext, Scheduled
<1>7. CASE Reenter
  BY <1>t, <1>7 DEF Reenter
<1>8. CASE LoopExit
  BY <1>t, <1>8 DEF LoopExit, Scheduled
<1>9. CASE LoopNothingReady
  BY <1>t, <1>9, RangeEmpty DEF LoopNothingReady, Scheduled
<1>10. CASE EndExecute
  BY <1>t, <1>10, RangeEmpty DEF EndExecute, BatchDone, Scheduled
<1>11. CASE BeginPoll
  <2>1. batch # <<>> /\ batch' = Tail(batch)
    BY <1>11 DEF BeginPoll, PollNext, SkipCompleted
  <2>2. Head(batch) \in Tasks /\ Range(batch) = {Head(batch)} \cup Range(batch')
    BY <1>t, <2>1, RangeTail
  <2>3. phase = "exec" /\ UNCHANGED <<timerVars, waitVars, phase>>
    BY <1>11 DEF BeginPoll
  <2>4. CASE PollNext
    BY <1>t, <2>2, <2>3, <2>4 DEF PollNext, Scheduled
  <2>5. CASE SkipCompleted
    BY <1>t, <2>2, <2>3, <2>5 DEF SkipCompleted, Scheduled
  <2> QED
    BY <1>11, <2>4, <2>5 DEF BeginPoll
<1>12. ASSUME NEW t \in Tasks, NEW u \in Tasks, Unpark(t, u)
       PROVE  SleepersDue' /\ NoOverdueSleep'
  BY <1>t, <1>12 DEF Unpark, InTask, Scheduled
<1>13. ASSUME NEW t \in Tasks, NEW d \in Durations, SleepFor(t, d)
       PROVE  SleepersDue' /\ NoOverdueSleep'
  <2>1. TimeAdd(now, d) \in Times
    BY <1>t, TimeAddType
  <2>2. future[t] = "none"
    BY <1>p, <1>13 DEF SleepFor, InTask, PollInv
  <2> QED
    BY <1>t, <1>13, <2>1, <2>2
       DEF SleepFor, InTask, SleepOverflows, Scheduled, Times
<1>14. ASSUME NEW t \in Tasks, PollSleepReady(t)
       PROVE  SleepersDue' /\ NoOverdueSleep'
  BY <1>t, <1>14 DEF PollSleepReady, Scheduled
<1>15. ASSUME NEW t \in Tasks, PollSleepPending(t)
       PROVE  SleepersDue' /\ NoOverdueSleep'
  <2>1. /\ phase = "exec"
        /\ future[t] = "none"
        /\ future' = [future EXCEPT ![t] = "some"]
        /\ UNCHANGED <<now, sleep, batch, phase>>
    BY <1>p, <1>15
       DEF PollSleepPending, ReturnPending, PushEvent, PollInv
  <2>2. /\ Scheduled(t, sleep[t])'
        /\ \A u \in Tasks, v \in Times : Scheduled(u, v) => Scheduled(u, v)'
    BY <1>t, <1>15
       DEF PollSleepPending, PushEvent, Scheduled, SleepInv, TypeOK, TimerTypeOK
  <2> QED
    BY <1>t, <2>1, <2>2
<1>16. ASSUME NEW t \in Tasks, Park(t)
       PROVE  SleepersDue' /\ NoOverdueSleep'
  BY <1>t, <1>16 DEF Park, InTask, ReturnPending, Scheduled
<1>17. ASSUME NEW t \in Tasks, Finish(t)
       PROVE  SleepersDue' /\ NoOverdueSleep'
  BY <1>t, <1>17 DEF Finish, ReturnReady, Scheduled
<1>18. CASE UNCHANGED vars
  BY <1>18 DEF vars, Scheduled
<1>19. CASE \E t \in Tasks : BlockOn(t) \/ Spawn(t)
  BY <1>1, <1>19 DEF BlockOn, Spawn
<1>20. CASE \E t, u \in Tasks : TaskSpawn(t, u)
  BY <1>1, <1>20 DEF TaskSpawn, InTask
<1> QED
  BY <1>2, <1>3, <1>4, <1>5, <1>6, <1>7, <1>8, <1>9, <1>10, <1>11, <1>12,
     <1>13, <1>14, <1>15, <1>16, <1>17, <1>18, <1>19, <1>20
     DEF Next, DriverStep, LoopStep, ExecStep, TaskStep

LEMMA SleepInvariant == Spec => [](SleepInv /\ BlockOnInv)
<1>1. Init => SleepInv /\ BlockOnInv
  BY TypeInit, TimeInit, TaskInit, BlockOnInit DEF SleepInv
<1>2. SleepInv /\ BlockOnInv /\ [Next]_vars => (SleepInv /\ BlockOnInv)'
  BY TypeNext, TimeNext, TaskNext, BlockOnNext DEF SleepInv
<1> QED
  BY <1>1, <1>2, PTL DEF Spec

(* Where stop() and advance() do not meet, a sleeper whose event fired is  *)
(* in the batch of execute_tasks or will be in its next one: stop() within *)
(* a task, which clears the queue the batch was taken from, misses it.     *)
SleepersQueued ==
  Calls \cap {"stop", "task_advance"} = {} /\ phase # "panic" =>
    \A t \in Tasks : Sleeper(t) =>
      \/ Scheduled(t, sleep[t])
      \/ t \in Range(batch)
      \/ phase # "exec" /\ t \in Range(ready)

LEMMA QueuedInit == Init => SleepersQueued
BY DEF Init, ExecInit, SleepersQueued, Sleeper

LEMMA QueuedNext == SleepInv /\ SleepersQueued /\ [Next]_vars => SleepersQueued'
<1> SUFFICES ASSUME SleepInv, SleepersQueued, [Next]_vars,
                    "stop" \notin Calls, "task_advance" \notin Calls
             PROVE  SleepersQueued'
  BY DEF SleepersQueued
<1> USE NoneAssumption, MaxTimeAssumption, RuntimeAssumption
    DEF SleepersQueued, Sleeper, execVars, timerVars, waitVars, driverVars
<1>t. /\ future \in [Tasks -> FutureStates]
      /\ running \in Tasks \cup {None}
      /\ sleep \in [Tasks -> Times \cup {None}]
      /\ ready \in Seq(Tasks)
      /\ batch \in Seq(Tasks)
  BY DEF SleepInv, TypeOK, ExecTypeOK, TimerTypeOK
<1>p. PhaseInv /\ PollInv
  BY DEF SleepInv, TaskInv
<1>1. ASSUME NEW t \in Tasks, SpawnTask(t), UNCHANGED <<timerVars, waitVars>>,
             phase # "panic", phase' = phase \/ phase' = "loop"
      PROVE  SleepersQueued'
  <2>1. Range(ready') = Range(ready) \cup {t}
    BY <1>t, <1>1, RangeAppend DEF SpawnTask, Wake
  <2>2. sleep[t] = None
    BY <1>p, <1>1 DEF PollInv, SpawnTask
  <2> QED
    BY <1>t, <1>1, <2>1, <2>2 DEF SpawnTask, Scheduled
<1>2. CASE ExecuteTasks \/ LoopExecute
  <2>1. /\ phase \in {"idle", "loop"}
        /\ batch' = ready
        /\ UNCHANGED <<future, timerVars, waitVars>>
    BY <1>2 DEF ExecuteTasks, LoopExecute, TakeReady
  <2>2. Range(batch) = {}
    BY <1>p, <2>1, RangeEmpty DEF PhaseInv, BatchDone
  <2> QED
    BY <2>1, <2>2 DEF Scheduled
<1>3. ASSUME NEW t \in Tasks, NEW w \in Times, PopEvent(t, w), Wake(t),
             UNCHANGED <<batch, future, sleep>>,
             phase \notin {"exec", "panic"}, phase' # "exec"
      PROVE  SleepersQueued'
  <2>1. Range(ready') = Range(ready) \cup {t}
    BY <1>t, <1>3, RangeAppend DEF Wake
  <2>2. \A u \in Tasks, v \in Times :
          u # t => (Scheduled(u, v)' <=> Scheduled(u, v))
    BY <1>3 DEF PopEvent, Scheduled, SleepInv, TypeOK, TimerTypeOK
  <2> QED
    BY <1>t, <1>3, <2>1, <2>2
<1>4. CASE Advance \/ LoopAdvance
  <2>1. CASE Advance
    BY <1>3, <2>1 DEF Advance
  <2>2. CASE LoopAdvance
    <3>1. CASE NoEvents /\ UNCHANGED <<timerVars, ready>>
      BY <2>2, <3>1 DEF LoopAdvance, Scheduled
    <3> QED
      BY <1>3, <2>2, <3>1 DEF LoopAdvance
  <2> QED
    BY <1>4, <2>1, <2>2
<1>5. CASE Stop
  <2>1. /\ phase = "exec"
        /\ UNCHANGED <<batch, timerVars, waitVars, phase>>
        /\ \A u \in Tasks : future'[u] \in {"dropped", future[u]}
    BY <1>5 DEF Stop, ClearReady
  <2> QED
    BY <1>t, <2>1 DEF Scheduled
<1>6. CASE WithContext \/ DropContext \/ LoopNothingReady \/ LoopExit
  BY <1>6 DEF WithContext, DropContext, LoopNothingReady, LoopExit, Scheduled
<1>7. CASE Reenter
  BY <1>7 DEF Reenter
<1>8. CASE EndExecute
  BY <1>8, RangeEmpty DEF EndExecute, BatchDone, Scheduled
<1>9. CASE BeginPoll
  <2>1. batch # <<>> /\ batch' = Tail(batch)
    BY <1>9 DEF BeginPoll, PollNext, SkipCompleted
  <2>2. Head(batch) \in Tasks /\ Range(batch) = {Head(batch)} \cup Range(batch')
    BY <1>t, <2>1, RangeTail
  <2>3. phase = "exec" /\ UNCHANGED <<timerVars, waitVars, phase>>
    BY <1>9 DEF BeginPoll
  <2>4. CASE PollNext
    BY <1>t, <2>2, <2>3, <2>4 DEF PollNext, Scheduled
  <2>5. CASE SkipCompleted
    BY <1>t, <2>2, <2>3, <2>5 DEF SkipCompleted, Scheduled
  <2> QED
    BY <1>9, <2>4, <2>5 DEF BeginPoll
<1>10. ASSUME NEW t \in Tasks, NEW u \in Tasks, Unpark(t, u)
       PROVE  SleepersQueued'
  BY <1>t, <1>10 DEF Unpark, InTask, Scheduled
<1>11. ASSUME NEW t \in Tasks, NEW d \in Durations, SleepFor(t, d)
       PROVE  SleepersQueued'
  <2>1. future[t] = "none" /\ phase = "exec"
    BY <1>p, <1>11 DEF SleepFor, InTask, PollInv
  <2> QED
    BY <1>t, <1>11, <2>1 DEF SleepFor, Scheduled
<1>12. ASSUME NEW t \in Tasks, PollSleepReady(t)
       PROVE  SleepersQueued'
  BY <1>t, <1>12 DEF PollSleepReady, Scheduled
<1>13. ASSUME NEW t \in Tasks, PollSleepPending(t)
       PROVE  SleepersQueued'
  <2>1. /\ phase = "exec" /\ sleep[t] # None
        /\ future' = [future EXCEPT ![t] = "some"]
        /\ UNCHANGED <<sleep, batch, phase>>
    BY <1>13 DEF PollSleepPending, ReturnPending, PushEvent
  <2>2. /\ Scheduled(t, sleep[t])'
        /\ \A u \in Tasks, v \in Times : Scheduled(u, v) => Scheduled(u, v)'
    BY <1>t, <1>13
       DEF PollSleepPending, PushEvent, Scheduled, SleepInv, TypeOK, TimerTypeOK
  <2> QED
    BY <1>t, <2>1, <2>2
<1>14. ASSUME NEW t \in Tasks, Park(t)
       PROVE  SleepersQueued'
  BY <1>t, <1>14 DEF Park, InTask, ReturnPending, Scheduled
<1>15. ASSUME NEW t \in Tasks, Finish(t)
       PROVE  SleepersQueued'
  BY <1>t, <1>15 DEF Finish, ReturnReady, Scheduled
<1>16. CASE UNCHANGED vars
  BY <1>16 DEF vars, Scheduled
<1>17. CASE \E t \in Tasks : BlockOn(t) \/ Spawn(t)
  BY <1>1, <1>17 DEF BlockOn, Spawn
<1>18. CASE \E t, u \in Tasks : TaskSpawn(t, u)
  BY <1>1, <1>18 DEF TaskSpawn, InTask
<1> QED
  BY <1>2, <1>4, <1>5, <1>6, <1>7, <1>8, <1>9, <1>10, <1>11, <1>12, <1>13,
     <1>14, <1>15, <1>16, <1>17, <1>18
     DEF Next, DriverStep, LoopStep, ExecStep, TaskStep

(* A sleeper is queued or has the event of this very sleep in the heap,    *)
(* under any driver that keeps stop() and advance() apart.                 *)
THEOREM SleepersWillWake == Spec => []SleepersScheduled
<1>1. SleepersQueued => SleepersScheduled
  BY DEF SleepersQueued, SleepersScheduled, Queued
<1>2. Spec => []SleepersQueued
  BY QueuedInit, QueuedNext, SleepInvariant, PTL DEF Spec
<1> QED
  BY <1>1, <1>2, PTL

(* Under block_on the clock never passes a sleeper.                        *)
THEOREM SleepersNotOverdue == Spec => []NoOverdueSleeper
<1>1. BlockOnInv => NoOverdueSleeper
  BY DEF BlockOnInv, NoOverdueSleep, NoOverdueSleeper, Sleeper
<1> QED
  BY <1>1, SleepInvariant, PTL

-----------------------------------------------------------------------------
(* The runtime implements the clock a sleeping task expects.               *)

LEMMA ClockInitStep == Init => Clock!ClockInit
BY DEF Init, ExecInit, TimerInit, Clock!ClockInit

LEMMA ClockNextStep ==
  ASSUME BlockOnDrives, SleepInv, BlockOnInv, [Next]_vars
  PROVE  [Clock!ClockNext]_(Clock!clockVars)
<1> DEFINE gone == {t \in Tasks : future[t] = "dropped"}
<1> USE NoneAssumption, MaxTimeAssumption, RuntimeAssumption
    DEF execVars, timerVars, waitVars, driverVars,
        Clock!ClockNext, Clock!clockVars
<1>t. /\ future \in [Tasks -> FutureStates]
      /\ running \in Tasks \cup {None}
      /\ sleep \in [Tasks -> Times \cup {None}]
      /\ now \in Times
  BY DEF SleepInv, TypeOK, ExecTypeOK, TimerTypeOK
<1>p. PhaseInv /\ PollInv /\ NoUseAfterDrop /\ SleepersDue /\ NoOverdueSleep
  BY DEF SleepInv, TaskInv, BlockOnInv
<1>1. CASE UNCHANGED <<now, sleep>>
  <2>1. gone \subseteq gone' /\ gone' \in SUBSET Tasks
    BY FinishedNext DEF SleepInv
  <2> QED
    BY <1>1, <2>1 DEF Clock!Discard
<1>2. CASE Advance
  BY <1>2 DEF Advance, BlockOnDrives
<1>3. ASSUME NEW t \in Tasks, NEW w \in Times, PopEvent(t, w), LoopAdvance,
             UNCHANGED <<sleep, future>>
      PROVE  [Clock!ClockNext]_(Clock!clockVars)
  <2>1. Scheduled(t, w) /\ now' = w /\ now <= w
    BY <1>3 DEF PopEvent, Earliest, SleepInv, EventsNotPast
  <2>2. CASE w = now
    BY <1>1, <1>3, <2>1, <2>2
  <2>3. CASE w # now
    <3>1. sleep[t] = w /\ now < w
      BY <1>t, <2>1, <2>3 DEF SleepInv, StaleEventsAreDue, Times
    <3>2. t \notin gone
      BY <1>p, <2>1 DEF NoUseAfterDrop, Held
    <3>3. ASSUME NEW u \in Tasks \ gone, sleep[u] # None
          PROVE  w <= sleep[u]
      <4>1. phase = "advance" /\ running = None
        BY <1>3, <1>p DEF LoopAdvance, PhaseInv, BatchDone
      <4>2. Sleeper(u)
        BY <1>t, <1>p, <3>3, <4>1 DEF Sleeper, PollInv, Completed, FutureStates
      <4>3. Scheduled(u, sleep[u])
        BY <1>p, <4>1, <4>2 DEF SleepersDue, NextToRun
      <4> QED
        BY <1>t, <1>3, <3>3, <4>3 DEF PopEvent, Earliest
    <3>4. Clock!Tick(t)
      BY <1>t, <1>3, <2>1, <3>1, <3>2, <3>3 DEF Clock!Tick
    <3> QED
      BY <3>4
  <2> QED
    BY <2>2, <2>3
<1>4. ASSUME NEW t \in Tasks, NEW d \in Durations, SleepFor(t, d)
      PROVE  [Clock!ClockNext]_(Clock!clockVars)
  <2>1. CASE UNCHANGED sleep
    BY <1>1, <1>4, <2>1 DEF SleepFor
  <2>2. CASE ~SleepOverflows(d) /\ sleep' = [sleep EXCEPT ![t] = TimeAdd(now, d)]
    <3>1. TimeAdd(now, d) \in now .. MaxTime
      BY <1>t, <2>2, TimeAddType DEF SleepOverflows, Times
    <3>2. sleep[t] = None /\ UNCHANGED <<now, future>>
      BY <1>4 DEF SleepFor, InTask
    <3>3. Clock!FallAsleep(t)
      BY <2>2, <3>1, <3>2 DEF Clock!FallAsleep
    <3> QED
      BY <3>3
  <2> QED
    BY <1>4, <2>1, <2>2 DEF SleepFor
<1>5. ASSUME NEW t \in Tasks, PollSleepReady(t)
      PROVE  [Clock!ClockNext]_(Clock!clockVars)
  <2>1. future[t] = "none" /\ UNCHANGED <<now, future>>
    BY <1>p, <1>5 DEF PollSleepReady, PollInv
  <2>2. sleep[t] = now
    BY <1>t, <1>p, <1>5, <2>1 DEF PollSleepReady, Elapsed, NoOverdueSleep, Times
  <2>3. Clock!WakeUp(t)
    BY <1>5, <2>1, <2>2 DEF PollSleepReady, Clock!WakeUp
  <2> QED
    BY <2>3
<1>6. ASSUME NEW t \in Tasks, PollSleepPending(t)
      PROVE  UNCHANGED <<now, sleep>>
  BY <1>6 DEF PollSleepPending, PushEvent
<1> QED
  BY <1>1, <1>2, <1>3, <1>4, <1>5, <1>6, TimerCases

(* While block_on alone drives the clock, every behaviour of the runtime   *)
(* is one of SleepClock: the clock jumps to the earliest deadline of the   *)
(* tasks that sleep, and every sleep returns exactly at its deadline.      *)
THEOREM ClockImplemented ==
  ASSUME BlockOnDrives
  PROVE  Spec => ImplementsClock
<1>1. SleepInv /\ BlockOnInv /\ [Next]_vars => [Clock!ClockNext]_(Clock!clockVars)
  BY ClockNextStep
<1> QED
  BY <1>1, ClockInitStep, SleepInvariant, PTL
     DEF Spec, ImplementsClock, Clock!ClockSpec
=============================================================================
