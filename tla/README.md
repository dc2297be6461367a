# A verification project for asim

asim is a discrete event simulator for Rust: a single-threaded async executor, a
simulated clock, synchronization primitives for the tasks that run on it, and a
small network model on top. This directory holds TLA+ modules translated from its
source, TLC configurations that model-check them, and proofs checked by TLAPS.

Paths below are relative to the repository (`src/runtime.rs` is the file
`src/src/runtime.rs` of `PROJECT.json`).

## 1. The system

| part | source | state | operations |
|---|---|---|---|
| executor | `src/runtime.rs`, `src/task.rs`, `src/lib.rs` | `ready_tasks` (a `Vec` of `Rc<Task>`), the batch `execute_tasks` took from it, the `Option` of each task's future, the thread-local `CONTEXT` | `spawn`, `execute_tasks`, `block_on`, `stop`, `with_context`, wake |
| timer | `src/time/timer.rs` | `current_time`, `time_events` (a `BinaryHeap`) | `advance`, `sleep_for`, poll of `SleepFut` |
| async mutex, condvar | `src/sync/mutex.rs` | `is_locked`, `next_waiter_id`, `waiters`; the condvar's `waiters` with an `AtomicBool` each | `lock`, poll of `LockFuture`, drop of `LockGuard`, `wait`, poll of `CondWait`, `notify_one`, `notify_all` |
| sync mutex, condvar | `src/sync/sync_mutex.rs` | a `RefCell`, `waiters` | `lock`, `wait`, `wait_with_timeout`, notifications |
| channel | `src/sync/mpsc.rs` | `messages`, one `waker` slot | `send`, `recv` |
| link | `src/network/link.rs` | counters of messages and active queues | `send`, activity callbacks |
| node | `src/network/node.rs` | `network_links`, the inbox channel | `new`, `connect`, `disconnect_all`, `send_to`, `broadcast`, the inbox loop, the handlers |
| arithmetic | `src/time/primitives.rs`, `src/network/mod.rs` | none | conversions, display, `get_size_delay` |

**How they interact.** A task is an `Rc<Task>`; a waker holds a clone of it and
waking pushes that clone on `ready_tasks`. `execute_tasks` takes the whole queue and
polls every task in it once; what a poll wakes goes to the next batch. `block_on`
alternates `execute_tasks` and `Timer::advance`; a program may also call the two
itself. Every primitive stores wakers: the timer in its heap, the mutex and the
condvars in lists, the channel in one slot. A message of the network is a relay of three
tasks: one that sleeps for the latency and sends on a channel, the inbox loop of the
destination, which sleeps for the transfer time, and one that runs the handler.

**What is hard.** Everything runs on one thread, so there are no data races; what is
delicate is *when* things run: between a wake and the poll it leads to other tasks
run; a task can be queued several times, polled without having been woken by what it
awaits, or woken after it completed; `advance` is called while tasks are ready; `stop`
drops an arbitrary part of the tasks; a dropped task runs destructors, which wake other
tasks. `PROJECT.json` lists these hazards with their lines and the properties that
cover them.

**What makes each part correct.**

- executor: no wake is lost, a completed or dropped task is never polled, `block_on` returns;
- timer: the clock never runs backwards, no event lies in the past, a sleep ends when it is due;
- mutex: one guard at a time, exactly the blocked tasks are in the queue, a free mutex has its first waiter scheduled;
- condvar: a notification reaches a task that waits, and exactly one for `notify_one`;
- channel: messages arrive once and in order, a pending receiver is woken;
- network: a link is active exactly while a message is under way, no message is stranded, delivery takes latency plus transfer time, transfers to one node do not overlap, both ends of a link agree that it exists;
- arithmetic: conversions agree with exact arithmetic up to the limits of `u64`, and what is printed of a time with the time up to the precision of an `f64`.

## 2. Modules

```
TaskIds ─┬─ Executor ─┐
         ├─ Timer ────┼── Runtime ──┬── MCRuntime (TLC)
         │            │             ├── RuntimeProofs
         │            │             └ INSTANCE SleepClock
         │            ├── SyncCondvar (TLC) ── SyncCondvarProofs
         │            │             └ INSTANCE FifoCondvar
         │  Executor ─┴── AsyncMutex ─┬ MCAsyncMutex (TLC)
         │                            └ AsyncMutexProofs
         └─ TimerHeap ┬── MCTimerHeap (TLC)
              │       ├── TimerHeapProofs
              │       └ INSTANCE Timer
              │
   Executor, Units ───┴── Network ──┬── MCNetwork (TLC)
              │                     ├── NetworkProofs
              │                     └ INSTANCE Transit
              └── TimeDisplay ── UnitsProofs
```

Two more modules hold lemmas that several proofs use. **ExecutorProofs** says what `Wake`, `TakeReady` and
a poll do to the queues (all proofs about executors extend it). **DataLemmas** has induction over
numbers in the form of statements about *sets* of numbers (`NatSetInduction`, `NatSetStrongInduction`),
and what removing an element of a sequence leaves.

**Executor** has the state of the executor and one operator per operation; `Runtime`,
`AsyncMutex`, `SyncCondvar` and `Network` conjoin them with what their tasks do. `future[t]` is the `Option`
behind `Task.future`: `"some"` between two polls, `"none"` during a poll and after
completion, plus `"unborn"` and `"dropped"` for a task that has no `Rc` yet or any more.
Reference counts are not stored: whether a clone exists is read off the queues and
the stored wakers (`Queued`, `Held`). `stop()` drops the tasks whose only clones it clears.

**Timer** models the heap as a bag of (task, wake time) from which `advance` takes one
with the least time. **TimerHeap** models the heap as std builds it (`SiftUp`, and
`SiftDownToBottom` with `GreaterChild`: the positions the hole passes are a recursive function, the
result one rearrangement of the `Vec`) and is shown to implement that bag, so that `Runtime` and
`SyncCondvar` need not carry the heap; `Network` does, because there the order of equal times
shows. Times are `0 .. MaxTime`: `MaxTime` stands for `u64::MAX` and
`TimeAdd` wraps as a release build does (a debug build panics in the addition instead
of in the assertion; both are the phase `"panic"`).

**Runtime** composes the two under their drivers. `phase` is the position of the driving
program (outside, inside a `ContextLock`, in the two halves of the `block_on` loop,
inside a batch, panicked) and `target` the task `block_on` waits for. One action per
call: `BlockOn`, the loop `LoopExecute`/`LoopNothingReady`/`LoopAdvance`/`LoopExit`,
`ExecuteTasks`, `Advance`, `Stop`, `WithContext`, `DropContext`, `Reenter` (the panic of
`ContextLock::new`), `BeginPoll`, `EndExecute`; and per step of a task: `TaskSpawn`,
`SleepFor`, `PollSleepReady`, `PollSleepPending`, `Park`, `Unpark`, `Finish`.
`Park`/`Unpark` stand for every primitive that stores a waker: the waker may be used up
by the wake (`Waker::wake`, the channel) or stay (`wake_by_ref`, the mutex), so
tasks are queued more than once. Between two awaits a task may spawn, wake parked tasks, call `stop`
and `advance` (through `get_runtime()`), in any order and number. It awaits one future at a time (no `join`,
no `select`), polls it to its end, and cannot drop it; it has no destructor of its own, which `AsyncMutex` adds for
the guard. `Calls` says what else the program does; `"task_advance"` among them lets tasks call `advance`.

**SleepClock** is the abstract specification: time jumps from one deadline to the next
earliest one and a sleep ends exactly at its deadline. `Runtime` implements it
(`ImplementsClock`, with `deadline <- sleep` and the dropped tasks as `gone`) as long as
`block_on` alone drives the clock. It does not promise when a task that is *ready* runs.

**AsyncMutex** is one mutex and one condvar on the executor. `st` says what each task
is doing (own code, `lock`, `hold`, `cond`, `relock`). `fid` is the identifier of its
last `LockFuture`; since identifiers are not reused, it also names the `AtomicBool` of
the `CondWait` that consumed the guard. `Await` is any other await, also with the guard;
`Fire` makes it ready. `Stop` drops guards with their tasks. `notify_one` and
`notify_all` are modelled entry by entry, because dropping a stale entry's waker may
drop the last reference to a task that `stop` had removed from the queue.
The protected data is left out.

**SyncCondvar** is one `SyncMutex` (a `RefCell`) and one `SyncCondvar` on executor and timer.
Every wait has a flag and stores only wakers of its own task, so an entry of the list is named by
task and number of the wait, and `woken` is the set of flags that are true. `wait` and
`wait_with_timeout` give the borrow back and suspend; `PollWoken` and `PollTimedOut` take it again
(`Borrow`, which panics if it is taken). `PollTimedOut` leaves the entries and events of the wait
behind, as the code does, and both poll the task during its next wait or sleep. Notifications come
from tasks or, between two batches, from the driver. The rule "Do not hold this lock while calling await" is assumed of programs.
The driver executes and advances in any order.
When a wake time overflows, in `sleep` or in `wait_with_timeout`, the assertion of `sleep_for` panics
(`SleepPanics`), which ends the run; unwinding drops the guard.
**FifoCondvar** is the abstract condition variable: a clock and a queue of waiting tasks. A notification takes
the first task, or all of them; a timeout takes its own task, and only when the clock has reached the limit that was set
when the wait began (`limit`, which an untimed wait does not have). Nothing else ends a wait, so a `poll` that
returned because of a stray wake, or of the event of an earlier wait, would not implement it; the mutant of
`ImplementsFifo` is such a poll.

**Network** is nodes, links and messages on executor and timer. The tasks are fixed by the code:
`InboxLoop(n)` of each node, `Delivery(m)` and `Handler(m)` of each message; a message is its number in
the order of sending. `NewNode`, `Connect`, `DisconnectAll`, `Send` and `Broadcast` are calls of the
program, made between two batches or in a handler. `SendTo` counts the message in its queue
(`CountSent`, with the announcement of `link_became_active`) and spawns the delivery task; a
broadcast takes the peers in any order, as the `HashMap` does. `DeliverPending`/`Deliver` are the
two polls of that task; `ChannelSend` puts the message into the channel of the destination and uses
up the waker. The inbox loop is `RecvPending`, `Recv` (it takes all messages), `TransferPending` and
`Receive`, which ends a transfer, lowers the counters (`NotifyDelivery`) and spawns the handler.
`wake_time` is the deadline of the sleep a task is in; a sleep of zero is skipped, as the two callers
do. `announced` counts the callbacks `link_became_active` less `link_became_inactive`. `free_at` and
`hasty` are history variables for `ExactTransfer` only: when a node finished its last transfer,
and whether a driver ever advanced the clock while a task was ready.

**Transit** is its abstract specification: messages depart, are under way until they are due and
arrive once, and a link is active exactly while it has one under way. It does not promise an order,
nor an arrival without delay, since the driver may be late.

**Units** has the conversions, the sums and differences of times, the
bandwidths and `get_size_delay`, all with the wrap of a `u64` (`Word` stands for 2^64). `Network`
computes its transfer times with it. **TimeDisplay** has what `Display` prints of a time. Hours, minutes and
seconds are `u64`; the milliseconds are an `f64` and rounded three times: `micros as f64`, the quotient by
1000.0 (both `Float`, to the nearest of the doubles around, which are `Ulp` apart), and the three digits printed. All
these doubles are multiples of 2^-62 (`Fraction`). Their numerals exceed TLC's integers, so the module is
only proved about.

**Mutants.** Operators whose name ends in `Mutant` are variants of the definition they
precede that no specification uses. Each stands for a plausible mistake (a poll that returns on a stray wake, an entry that
is not removed, a pop of an empty heap that moves the clock all the same); putting it in place of
the original violates the property named in `PROJECT.json`, so that
no property holds vacuously.

## 3. Runs

`tlc -config <run>.cfg <module>`; the distinct states (with symmetry, about) are in parentheses.

| run | module | bounds | shows |
|---|---|---|---|
| `runtime_manual` | MCRuntime | 3 tasks, times 0..3, durations 0..2, 2 wakes by reference, all calls (805k states) | `TypeOK`, `EventsNotPast`, `NoLostWakeup`, `NoUseAfterDrop`, `TimeMonotone`, `FinishedForGood` under every driver |
| `runtime_block_on` | MCRuntime | the same, without `advance` and `stop` from outside (337k) | `StaleEventsAreDue`, `SleepersScheduled`, `NoOverdueSleeper`, `ImplementsClock` |
| `runtime_live` | MCRuntime | 3 tasks that spawn, sleep, stop and finish (8k) | `BlockOnReturns` |
| `timer_heap` | MCTimerHeap | 2 tasks, times 0..3, 6 events (18k) | `HeapOrdered`, `ImplementsTimer` |
| `async_mutex` | MCAsyncMutex | 3 tasks, 2 calls of `lock`/`wait` each, `stop` (2.0M) | `TypeOK`, `MutualExclusion`, `WaitersAreBlocked`, `HeadWaiterScheduled`, `NotifiedIsScheduled`, `NoLostWakeup` |
| `async_mutex_live` | MCAsyncMutex | 2 tasks, 3 calls each, no `stop` (95k) | `NotifyWakes`, `LockGranted` |
| `sync_condvar` | SyncCondvar | 2 tasks, 2 waits each, times 0..2 (166k) | `TypeOK`, `NoBorrowPanic`, `TimeoutScheduled`, `WaitsRegistered`, `NotifyOneWakes`, `NotifyAllWakes`, `ImplementsFifo`, `WaitsReturn` |
| `network` | MCNetwork | 3 nodes, one of them slow, 2 links, 2 messages (306k) | `TypeOK`, `ActiveWhileUnderWay`, `LinksAgree`, `NoMessageStranded`, `ExactTransfer`, `ImplementsTransit`, `AllHandled` |
| `runtime_ready_first` | MCRuntime | 2 tasks | violation: `ReadyTasksRunFirst` |
| `async_mutex_stop_panic` | MCAsyncMutex | 2 tasks | violation: `StopReturns` |
| `sync_condvar_lost` | SyncCondvar | 2 tasks, timeouts | violation: `NotifyReachesWaiter` |
| `network_order` | MCNetwork | 2 nodes, 1 link, 4 messages | violation: `LinkKeepsOrder` |

**Why the bounds are enough.** Three tasks are a stopper or notifier, a task that holds
something, and one that waits; `block_on`'s target is one of them. Times 0..3 allow two
sleeps in a row, equal deadlines, a sleep of zero and the overflow. Two wakes by reference
queue a task three times. Six events make a heap of three levels, where the two sifts take
both branches. In `AsyncMutex` two rounds are a lock followed by a wait or by a second
lock; the alternation that leaves *stale* registrations (lock, wait, be polled
spuriously, be notified, wait again) needs three rounds of one task and two tasks,
which `async_mutex_live` has. `stopped` records that `stop` was called: it clears wakes, so
the two properties about scheduled waiters speak of the time before. In `SyncCondvar` an order of notifications
needs two waiting tasks and a notifier, which is the driver when both wait; two waits of one task leave
entries of an earlier wait in the list of a later one, and the event of a notified timed wait polls the
task during the next, which makes duplicates.
In `Network` two links are a path of three nodes, or a link that replaces one on which messages are
still under way; two messages are two directions of a link, two transfers that queue at the slow
node, a broadcast, or an answer from a handler. A message of 2 bytes takes no time to a node of
16 megabits per second and one microsecond to one of 8 (`OneSlow`). The same module with two nodes, two
links, three messages and latencies of 0 and 1 passes as well (428k states, outside the list of
runs for its time). An order that the heap disturbs needs four equal wake times.
Every named bound (`MaxWakes`, `MaxRounds`, `MaxWaits`, `MaxLinks`, `MaxMessages`, and `MaxHeap` of
`MCTimerHeap`) sits in a guard of the action it limits. `MaxTime` is not a bound of this kind but the
width of the clock; in `network` no message can reach it. `Word` is 2 000 000 000 in the runs, above
every product that occurs.

**Deadlock.** A program may finish, panic, or wait for ever, so `CHECK_DEADLOCK` is off:
in `timer_heap` because the clock reaches `MaxTime`, in the others because all tasks may
be done. That what must go on does go on is the business of the liveness properties.

**Fairness.** `Runtime`: the loop, the batch and a poll are code of one thread that
keeps running once entered (weak fairness of each); nothing is assumed of the calls of
the program. `runtime_live` leaves out parking, since nobody need wake a parked
task, and sleeps of zero, since a loop of them never leaves its poll.
`AsyncMutex`: the same for the executor and each task; what a task awaits becomes ready
(weak fairness of `Fire`); and a task that holds the guard gives it up eventually (strong
fairness of `Unlock` and `Wait`): that is an assumption about programs, since a task could
hold the mutex for ever. The mutex is not fair: a task that locks after the guard was
dropped and before the woken waiter was polled overtakes it. `MaxRounds` bounds these
calls; with infinitely many a waiter could starve.
`SyncCondvar`: the driver keeps executing and advancing, as `block_on` does (weak fairness), and a poll
ends eventually (strong fairness of `Suspend`): a program that locks and unlocks for ever inside one
poll never returns to the executor.
`Network`: the driver executes and advances again and again, a poll goes on, and a handler returns
(weak fairness of each); nothing is assumed of what the program calls.

**What some properties do not say.** `HeapOrdered` and `ImplementsTimer` allow any order of equal wake
times, as the bag does: that events of one time fire in an order of the heap's making is shown by `network_order`
only. `ExactTransfer` is about the moment at which a message is handed over, not about which of several messages goes
first, so it does not see that either. `NoLostWakeup` asks for *some* stored waker of a suspended task; that a sleeper has the right
one is `SleepersScheduled`. `stop` can break the latter when it comes between an `advance` and the batch that
runs what it woke: the sleeper's event is gone, its queued clone is cleared, and it survives if a
parked waker or another event refers to it. So `SleepersScheduled` is about programs that do not call `stop` from outside and whose
tasks do not call `advance`; a `stop` from a task is included.

**Divergences found.** The four violation runs: `block_on` moves the clock past tasks
that are ready (so a message or a task can start later than its simulated time says; `ExactTransfer`
is about drivers that do not, `hasty = FALSE`); `stop` panics when it drops the holder of a contended
guard; `notify_one` wakes the entry of a wait that timed out, and the task that still waits
is not notified (`NotifyOneWakes` says that nothing else intercepts a notification); a `LinkQueue`
does not keep the order of messages sent at the same time. `PROJECT.json` quotes the lines.

## 4. Proofs

`tlapm <module>.tla` checks a module's proofs. Every theorem holds for all values of the constants that
satisfy the assumptions of the modules: `None` is neither a task nor a time, `MaxTime` and the other
bounds are natural numbers, sets of nodes are finite, and the rest have their types.

**RuntimeProofs**, for every set of tasks, every `MaxTime`, `Durations`, `Parkers`, `MaxWakes` and `Calls`:

| theorem | statement |
|---|---|
| `TypeCorrect` | `Spec => []TypeOK` |
| `EventsCorrect`, `StaleEventsHarmless` | `Spec => []EventsNotPast`, `Spec => []StaleEventsAreDue` |
| `TimeNeverDecreases` | `Spec => TimeMonotone` |
| `WakeupsNotLost`, `DroppedNotUsed` | `Spec => []NoLostWakeup`, `Spec => []NoUseAfterDrop` |
| `FinishedStaysFinished` | `Spec => FinishedForGood` |
| `SleepersNotOverdue` | `Spec => []NoOverdueSleeper` |
| `SleepersWillWake` | `Spec => []SleepersScheduled` |
| `ClockImplemented` | `Spec => ImplementsClock`, given `BlockOnDrives` |

The argument has four layers. *Types.* *Time*: `EventsNotPast` and `StaleEventsAreDue`
support each other; an event that no longer belongs to a sleep is due now, so
popping it does not move the clock, and popping the earliest event leaves none in the past.
*Tasks*: `NoLostWakeup` and `NoUseAfterDrop` are not inductive alone. A batch must be
empty before `mem::take` replaces it (`PhaseInv`), and a polled task has its future taken
out (`PollInv`), else a returning poll could revive a dropped task. The lemmas `WakeQueued`,
`TakeQueued`, `DequeueQueued`, `PopHeld` and `PushHeld` say what each step does to the
references of tasks, and `TaskNext` has one step per action. *Sleeping*: `NoOverdueSleeper` needs `SleepersDue`: under
`block_on` a sleeper has the event of this very sleep in the heap, or its event was just popped and
it is among the tasks that run before the next `advance`. This is where the order "one batch, one
`advance`" matters. `SleepersScheduled` holds under more drivers and needs `SleepersQueued`, which also
says in which of the two queues the sleeper is: a `stop` from a task clears one of them only.
`ClockImplemented` combines all four: a pop that moves the clock pops the
event of a live sleeper whose deadline is least.

**TimerHeapProofs**, for every set of tasks, every `MaxTime` and every number of events:

| theorem | statement |
|---|---|
| `OrderKept` | `HeapSpec => []HeapOrdered` |
| `HeapIsTimer` | `HeapSpec => ImplementsTimer` |

`SiftUp` and `SiftDownToBottom` collect the positions the hole passes with a recursive function. `RisePath`
and `SinkPath` say what such a set of positions is (a path, and how the elements on it compare);
`SiftUpRise`/`RiseIsPath` and their counterparts show by strong induction that the functions compute one.
All else follows from the path without unfolding the functions again: the result is a permutation of the
old elements (`SiftUpPermutes`, `SunkPermutes`), and it is in order when the old heap was in order off the
path (`SiftUpOrders`, `SunkIsOrdered`). A push adds its event once and a pop takes the root once and nothing
else (`PushCorrect`, `PopCorrect`); the root is an earliest event (`RootIsEarliest`, induction along the parents).

**AsyncMutexProofs**, for every set of tasks, every `MaxRounds`, with and without `stop`:

| theorem | statement |
|---|---|
| `TypeCorrect` | `Spec => []TypeOK` |
| `GuardsExclude` | `Spec => []MutualExclusion` |
| `QueueIsBlocked` | `Spec => []WaitersAreBlocked` |
| `MutexWakesHead`, `CondvarWakes` | `Spec => []HeadWaiterScheduled`, `Spec => []NotifiedIsScheduled` |
| `SuspendedIsReachable` | `Spec => []NoLostWakeup` |
| `NotificationsWake` | `Spec => NotifyWakes` |

One inductive invariant, `Inv`, carries all of them. `ExecInv`: what a task can be doing while its future
is there, taken out or gone (`PollInv`), and that nothing refers to a task that does not exist (`RefInv`), else
dropping a stale waker could drop a task that is to be polled. `LockInv`: identifiers belong to one task
(`IdInv`), without which a poll could remove another task's entry from the queue, or take its turn. `WakeInv`: an entry
of the condition variable whose flag is not set is of a task that still waits for it (`CondInv`), hence stale entries are exactly
those that need no wake. `NotificationsWake` follows a notification over its several steps.

**SyncCondvarProofs**, for every set of tasks, every `MaxTime`, every `MaxWaits`:

| theorem | statement |
|---|---|
| `TypeCorrect`, `BorrowsNeverPanic` | `Spec => []TypeOK`, `Spec => NoBorrowPanic` |
| `WaitsNotForgotten`, `TimeoutsNotForgotten` | `Spec => []WaitsRegistered`, `Spec => []TimeoutScheduled` |
| `NotifyOneReachesOne`, `NotifyAllReachesAll` | `Spec => NotifyOneWakes`, `Spec => NotifyAllWakes` |
| `CondvarIsFifo` | `Spec => ImplementsFifo` |

`Inv` says that only the polled task holds the guard (`PollInv`, `LockInv`), and that a suspended wait is in the
list or its task is queued (`WaitInv`). For `CondvarIsFifo` the abstract queue is what remains of the list
when stale entries and later duplicates are left out (`QueueOf(waiters, LivePos)`). Lemmas say what
an append and the removal of a prefix do to it, by induction over the positions; `EntryInv` (no entry
belongs to a wait that has not begun) makes a new wait enter at the end. `ClockInv` (no event in the past) makes the
clock go forward only, and `FreshInv` (a timed wait that is not registered yet is not due, since its deadline lay in the
future when it was called and the clock stands still during a poll) means that a wait that times out is in the queue.

**NetworkProofs**, for every finite set of nodes, every latency, size and bandwidth, and every number of
links and messages:

| theorem | statement |
|---|---|
| `TypeCorrect` | `Spec => []TypeOK` |
| `LinksCorrect` | `Spec => []LinksAgree` |
| `ActivityCorrect` | `Spec => []ActiveWhileUnderWay` |
| `MessagesReachable` | `Spec => []NoMessageStranded` |
| `TimerInside` | `Spec => []HeapOrdered /\ ImplementsTimer` |
| `DeliveryImplemented` | `Spec => ImplementsTransit` |
| `TransfersExact` | `Spec => ExactTransfer` |

*Tables and counters.* `LinksInv` (types of the two tables and `LinksAgree`) is inductive alone, since only `Connect` and
`DisconnectAll` touch the tables. `StateInv` adds the types of everything but the counters, and
`MessagesKnown`: links of messages exist, what lies in a channel or with an inbox loop was sent, and a
message that was not sent has no handler; without the last a new message could count as handled. `CountsInv` adds
`ActiveWhileUnderWay`: all steps but two leave the messages under way and the counters alone
(`QuietCases`); a send adds exactly one message to the queue of each link it uses, because peers of one
broadcast are distinct and links of distinct peers are, by `LinksAgree`; `Receive` removes one. `OneMore`
says what that does to cardinalities, once for both directions.

*Places.* `NetInv` has three parts. `BaseInv`: the types, a heap in order, and `PollInv` (polled tasks have their
future taken out; a node that has a link or gets a message has an inbox loop). `PlaceInv`: a message is
with its delivery task, in the channel, with the inbox loop or handed over, in one of them only, and a
list never holds one twice, else two handlers would be spawned. `ReachInv`: who has a message runs, is
queued or has an event, and a channel that holds the waker of its receiver is empty. Since `WillRun` reads the
heap, `PushHolds` and `PopHolds` say that a push adds one event and a pop removes only the one it wakes;
they follow from `TimerHeapProofs`.

*Times.* `TimeInv`: no event lies in the past, the deadline of a delivery task is not before the latency of its
message has passed, that of an inbox loop not before the transfer of the first message it holds, and what
lies in a channel has its latency behind it. `LatencyPassed` and `TransferPassed` give the due time, and `DeliveryImplemented` maps
a send to `Depart`, `Receive` to `Arrive`, a pop that moves the clock to `Tick` and all else to a stutter.

*Drivers that are not hasty.* That nothing is early holds under every driver; that nothing is late needs one that
lets all ready tasks run before the clock moves. `AwakeInv` is about all drivers: a delivery task that has not begun to sleep is
running or queued, and so is an inbox loop that has nothing and no waker left; a loop that holds messages
sleeps unless it is being polled; a sleeper is running, queued or has the event of this very sleep. So when the
clock moves with `hasty = FALSE` everybody sleeps on an event that is not yet due (`AllAsleep`), and
nobody oversleeps (`NotOverdue`), delivery tasks sleep from the moment of the send (`OutOnTime`), and a
transfer begins when its message arrives or the one before it ends (`InOnTime`): `ExactInv`. `Receive`
then finds the clock at the deadline.

**UnitsProofs**, for every `Word`: `TimeShown` (the hours, minutes and seconds `Display` prints add up to
the whole seconds of the time, and none of its differences wraps), `DisplayExact` (with the milliseconds they add up to the time itself,
below 1000 * 2^43 microseconds, which is 278 years; from there on a double is too coarse for
microseconds), `HoursRoundTrip`, `DifferenceOfSum` (also when the sum
wrapped), `DelayExact` (for messages below 2^64 / 8 000 000 bytes) and `HugeMessageIsFree` (a message of
2^58 bytes takes no time). `DisplayExact` follows the roundings: the first changes nothing (`FloatOfInteger`), the second moves the
quotient by less than half a microsecond and not at all when it is whole (`MillisAreClose`), so the remainder keeps
that distance (`MillisOfSecond`) and the third finds the microsecond that is nearest (`NearestIsUnique`).

**Model-checked only.** Liveness (`BlockOnReturns`, `LockGranted`, `WaitsReturn`, `AllHandled`), which is out of the
prover's reach, and the four violations. Induction has no rule that the provers can apply to a formula, so
everything that needs it goes through the two lemmas about sets of numbers of `DataLemmas`.

## 5. Not modelled

The panics of calls made without a context (they change nothing); a program that catches a
panic and goes on; cancelled futures (`select`, dropped lock futures), which asim itself
never does; the wrap of `next_waiter_id`; the protected data of the mutexes; logging;
`as_seconds_f64` and the milliseconds of a `Duration` as an `f64`, which only their callers see; the `asim::test` macro, identifiers and re-exports; the example programs. In `SyncCondvar` also
`stop`, a guard held across an await, and the assertion on a zero timeout. In `Network`: `Runtime::stop`
(it drops delivery tasks, and the links of their messages stay active); calls that panic by their
arguments (a link to the node itself, a second link to a peer); callbacks of the program that call back
into the node or link that invoked them; a handler that suspends; `total_message_count`; and two receivers
of one channel, which asim never creates.

## 6. Plan

1. Done: the models `Executor`, `Timer`, `Runtime`, `SleepClock`, `TimerHeap`, `AsyncMutex`, `SyncCondvar`,
   `FifoCondvar`, `Units`, `Network` and `Transit`, and a module of proofs for each that has a specification of its own.
   Every safety invariant, action property and refinement of the passing runs is proved.
2. `stop` in `Network`: which links stay active, and that no other message is lost.
