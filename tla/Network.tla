------------------------------ MODULE Network -------------------------------
(***************************************************************************)
(* Nodes, links and messages over the executor and the timer               *)
(* (src/src/network, src/src/sync/mpsc.rs).  A message travels through     *)
(* three tasks: the delivery task of its link sleeps for the latency and   *)
(* puts it into the inbox (an mpsc channel) of its destination; the inbox  *)
(* loop of that node takes all that is there, sleeps for the transfer time *)
(* of one message after the other, announces its delivery to the link and  *)
(* spawns a third task, which runs the program's handler.                  *)
(*                                                                         *)
(* A message is its number in the order of sending, a link its number in   *)
(* the order of connecting; a LinkQueue is named by its link and source.   *)
(***************************************************************************)
EXTENDS Executor, TimerHeap, Units, SequencesExt

CONSTANTS
  Nodes,        \* every node the program may create
  Latencies,    \* the latencies of links
  Sizes,        \* the sizes of messages, in bytes
  Bandwidths,   \* Node.bandwidth: bits per second of each node
  MaxLinks,     \* bound: links created
  MaxMessages   \* bound: messages sent

LinkIds == 1 .. MaxLinks
MessageIds == 1 .. MaxMessages

InboxLoop(n) == <<"inbox", n>>
Delivery(m) == <<"deliver", m>>
Handler(m) == <<"handle", m>>

NetTasks ==
  {InboxLoop(n) : n \in Nodes} \cup {Delivery(m) : m \in MessageIds}
    \cup {Handler(m) : m \in MessageIds}

ASSUME NetworkAssumption ==
  /\ Tasks = NetTasks
  /\ IsFiniteSet(Nodes)
  /\ Latencies \subseteq Nat
  /\ Sizes \subseteq Nat
  /\ Bandwidths \in [Nodes -> Nat \ {0}]
  /\ MaxLinks \in Nat
  /\ MaxMessages \in Nat

VARIABLES
  links,           \* the Link objects in the order of their creation
  network_links,   \* Node.network_links: the link to each peer, or 0
  current_message_count,   \* LinkQueue.current_message_count
  active_queues,   \* Link.active_queues
  announced,       \* calls of link_became_active less those of .._inactive
  messages,        \* the messages sent so far
  inbox,           \* the messages in the mpsc channel of each node
  waker,           \* whether the channel holds the waker of the inbox loop
  drained,         \* what the inbox loop took and did not deliver yet
  wake_time,       \* SleepFut.wake_time of a sleeping task, otherwise 0
  free_at,         \* history: when the inbox loop last delivered a message
  hasty            \* history: the clock moved while tasks were ready

queueVars == <<current_message_count, active_queues, announced>>
inboxVars == <<inbox, waker, drained>>
topology == <<links, network_links>>
vars == <<ready, batch, running, future, now, heap, links, network_links,
          current_message_count, active_queues, announced, messages, inbox,
          waker, drained, wake_time, free_at, hasty>>

Links == [ends : SUBSET Nodes, latency : Latencies]

Messages == [link : LinkIds, source : Nodes, dest : Nodes, size : Sizes,
             sent : 0 .. MaxTime]

StateTypeOK ==
  /\ ExecTypeOK
  /\ now \in 0 .. MaxTime
  /\ heap \in Seq(Events)
  /\ links \in Seq(Links) /\ Len(links) <= MaxLinks
  /\ network_links \in [Nodes -> [Nodes -> 0 .. MaxLinks]]
  /\ messages \in Seq(Messages) /\ Len(messages) <= MaxMessages
  /\ inbox \in [Nodes -> Seq(MessageIds)]
  /\ waker \in [Nodes -> BOOLEAN]
  /\ drained \in [Nodes -> Seq(MessageIds)]
  /\ wake_time \in [Tasks -> 0 .. MaxTime]
  /\ free_at \in [Nodes -> 0 .. MaxTime]
  /\ hasty \in BOOLEAN

TypeOK ==
  /\ StateTypeOK
  /\ current_message_count \in [LinkIds -> [Nodes -> Nat]]
  /\ active_queues \in [LinkIds -> Nat]
  /\ announced \in [LinkIds -> {0, 1}]

Init ==
  /\ ExecInit
  /\ HeapInit
  /\ links = <<>>
  /\ network_links = [n \in Nodes |-> [p \in Nodes |-> 0]]
  /\ current_message_count = [l \in LinkIds |-> [n \in Nodes |-> 0]]
  /\ active_queues = [l \in LinkIds |-> 0]
  /\ announced = [l \in LinkIds |-> 0]
  /\ messages = <<>>
  /\ inbox = [n \in Nodes |-> <<>>]
  /\ waker = [n \in Nodes |-> FALSE]
  /\ drained = [n \in Nodes |-> <<>>]
  /\ wake_time = [t \in Tasks |-> 0]
  /\ free_at = [n \in Nodes |-> 0]
  /\ hasty = FALSE

-----------------------------------------------------------------------------
(* The executor and the timer.                                             *)

Execute ==
  /\ BatchDone
  /\ TakeReady
  /\ UNCHANGED <<heapVars, topology, queueVars, messages, inboxVars,
                 wake_time, free_at, hasty>>

BeginPoll ==
  /\ PollNext   \* no task is queued again after it completed
  /\ UNCHANGED <<heapVars, topology, queueVars, messages, inboxVars,
                 wake_time, free_at, hasty>>

Advance ==
  /\ BatchDone
  /\ Pop
  /\ Wake(heap[1].task)
  /\ hasty' = (hasty \/ ready # <<>>)
  /\ UNCHANGED <<batch, running, future, topology, queueVars, messages,
                 inboxVars, wake_time, free_at>>

(* sleep(d).await in task t: the wake time is set when the future is made, *)
(* in the same poll in which it is first awaited; a d of zero is skipped   *)
(* by the callers.                                                         *)
WakeTime(t, d) == IF wake_time[t] = 0 THEN now + d ELSE wake_time[t]

Slept(t, d) == d = 0 \/ now >= WakeTime(t, d)

SleepPending(t, d) ==
  /\ running = t
  /\ ~Slept(t, d)
  /\ WakeTime(t, d) <= MaxTime   \* sleep_for panics otherwise
  /\ Push([wake_time |-> WakeTime(t, d), task |-> t])
  /\ wake_time' = [wake_time EXCEPT ![t] = WakeTime(t, d)]
  /\ ReturnPending(t)
  /\ UNCHANGED <<ready, topology, queueVars, messages, inboxVars, free_at,
                 hasty>>

(* Mutant: the next sleep of the task finds the old wake time.             *)
EndSleepMutant(t) == UNCHANGED wake_time

EndSleep(t) == wake_time' = [wake_time EXCEPT ![t] = 0]

-----------------------------------------------------------------------------
(* What the program does, between two batches or in a handler.             *)

InProgram == BatchDone \/ \E m \in MessageIds : running = Handler(m)

Exists(n) == future[InboxLoop(n)] # "unborn"

(* Node::new spawns the inbox loop.                                        *)
NewNode(n) ==
  /\ InProgram
  /\ SpawnTask(InboxLoop(n))
  /\ UNCHANGED <<heapVars, topology, queueVars, messages, inboxVars,
                 wake_time, free_at, hasty>>

AddLinks(a, b, l) ==
  network_links' = [network_links EXCEPT ![a][b] = l, ![b][a] = l]

(* Node::connect and Link::new, which panics for one node (get_nodes) and  *)
(* for two nodes that have a link already (add_link).                      *)
Connect(a, b, latency) ==
  /\ InProgram
  /\ Exists(a) /\ Exists(b)
  /\ a # b /\ network_links[a][b] = 0 /\ network_links[b][a] = 0
  /\ Len(links) < MaxLinks
  /\ links' = Append(links, [ends |-> {a, b}, latency |-> latency])
  /\ AddLinks(a, b, Len(links) + 1)
  /\ UNCHANGED <<execVars, heapVars, queueVars, messages, inboxVars,
                 wake_time, free_at, hasty>>

(* Mutant: the peers keep their side of the links.                         *)
DisconnectAllMutant(n) ==
  /\ InProgram
  /\ \E p \in Nodes : network_links[n][p] # 0
  /\ network_links' = [network_links EXCEPT ![n] = [p \in Nodes |-> 0]]
  /\ UNCHANGED <<execVars, heapVars, links, queueVars, messages, inboxVars,
                 wake_time, free_at, hasty>>

(* Node::disconnect_all.  Messages under way are not affected: their       *)
(* delivery tasks hold the link.                                           *)
DisconnectAll(n) ==
  /\ InProgram
  /\ \E p \in Nodes : network_links[n][p] # 0
  /\ network_links' =
       [a \in Nodes |-> [b \in Nodes |->
          IF a = n \/ (b = n /\ network_links[n][a] # 0) THEN 0
          ELSE network_links[a][b]]]
  /\ UNCHANGED <<execVars, heapVars, links, queueVars, messages, inboxVars,
                 wake_time, free_at, hasty>>

(* Mutant: each of the two queues announces the link.                      *)
CountSentMutant(n, over) ==
  LET first == {l \in over : current_message_count[l][n] = 0}
  IN  /\ current_message_count' =
           [l \in LinkIds |-> [current_message_count[l] EXCEPT
                                 ![n] = IF l \in over THEN @ + 1 ELSE @]]
      /\ active_queues' =
           [l \in LinkIds |->
              active_queues[l] + (IF l \in first THEN 1 ELSE 0)]
      /\ announced' =
           [l \in LinkIds |-> announced[l] + (IF l \in first THEN 1 ELSE 0)]

(* LinkQueue::send, the counters: node n sends one message over each of a  *)
(* set of links.                                                           *)
CountSent(n, over) ==
  LET first == {l \in over : current_message_count[l][n] = 0}
      woken == {l \in first : active_queues[l] = 0}
  IN  /\ current_message_count' =
           [l \in LinkIds |-> [current_message_count[l] EXCEPT
                                 ![n] = IF l \in over THEN @ + 1 ELSE @]]
      /\ active_queues' =
           [l \in LinkIds |->
              active_queues[l] + (IF l \in first THEN 1 ELSE 0)]
      /\ announced' =
           [l \in LinkIds |-> announced[l] + (IF l \in woken THEN 1 ELSE 0)]

(* LinkQueue::send to each of a sequence of peers: count the message and   *)
(* spawn its delivery task.                                                *)
SendTo(n, peers, size) ==
  LET spawned == [i \in DOMAIN peers |-> Delivery(Len(messages) + i)]
  IN  /\ Len(messages) + Len(peers) <= MaxMessages
      /\ messages' = messages \o
           [i \in DOMAIN peers |->
              [link |-> network_links[n][peers[i]], source |-> n,
               dest |-> peers[i], size |-> size, sent |-> now]]
      /\ CountSent(n, {network_links[n][p] : p \in ToSet(peers)})
      /\ ready' = ready \o spawned
      /\ future' = [t \in Tasks |-> IF t \in ToSet(spawned) THEN "some"
                                    ELSE future[t]]
      /\ UNCHANGED <<batch, running, heapVars, topology, inboxVars, wake_time,
                     free_at, hasty>>

(* Node::send_to; without a link it returns false.                         *)
Send(n, p, size) ==
  /\ InProgram
  /\ network_links[n][p] # 0
  /\ SendTo(n, <<p>>, size)

(* Node::broadcast to all peers but the ignored ones, in the order of the  *)
(* HashMap; with no such peer it does nothing.                             *)
Broadcast(n, ignore, size) ==
  /\ InProgram
  /\ \E peers \in SetToSeqs({p \in Nodes \ ignore : network_links[n][p] # 0}) :
       SendTo(n, peers, size)

(* The handler of m returns.                                               *)
EndHandler(m) ==
  /\ ReturnReady(Handler(m))
  /\ UNCHANGED <<ready, heapVars, topology, queueVars, messages, inboxVars,
                 wake_time, free_at, hasty>>

-----------------------------------------------------------------------------
(* The delivery task of message m (the async block of LinkQueue::send).    *)

latency(m) == links[messages[m].link].latency

(* Mutant: the receiver is woken only by the first message in the channel. *)
ChannelSendMutant(n, m) ==
  /\ inbox' = [inbox EXCEPT ![n] = Append(@, m)]
  /\ waker' = [waker EXCEPT ![n] = FALSE]
  /\ IF waker[n] /\ Len(inbox[n]) = 1 THEN Wake(InboxLoop(n))
     ELSE UNCHANGED ready

(* mpsc::Sender::send wakes the receiver if it left its waker.             *)
ChannelSend(n, m) ==
  /\ inbox' = [inbox EXCEPT ![n] = Append(@, m)]
  /\ waker' = [waker EXCEPT ![n] = FALSE]
  /\ IF waker[n] THEN Wake(InboxLoop(n)) ELSE UNCHANGED ready

DeliverPending(m) == SleepPending(Delivery(m), latency(m))

Deliver(m) ==
  /\ running = Delivery(m)
  /\ Slept(Delivery(m), latency(m))
  /\ ChannelSend(messages[m].dest, m)
  /\ EndSleep(Delivery(m))
  /\ ReturnReady(Delivery(m))
  /\ UNCHANGED <<heapVars, topology, queueVars, messages, drained, free_at,
                 hasty>>

-----------------------------------------------------------------------------
(* The inbox loop of node n.                                               *)

(* Mutant: the receiver leaves no waker.                                   *)
RecvPendingMutant(n) ==
  /\ drained[n] = <<>>
  /\ inbox[n] = <<>>
  /\ ReturnPending(InboxLoop(n))
  /\ UNCHANGED <<ready, heapVars, topology, queueVars, messages, inboxVars,
                 wake_time, free_at, hasty>>

(* mpsc GetFut::poll without a message stores the waker.                   *)
RecvPending(n) ==
  /\ drained[n] = <<>>
  /\ inbox[n] = <<>>
  /\ waker' = [waker EXCEPT ![n] = TRUE]
  /\ ReturnPending(InboxLoop(n))
  /\ UNCHANGED <<ready, heapVars, topology, queueVars, messages, inbox,
                 drained, wake_time, free_at, hasty>>

(* Otherwise it takes them all.                                            *)
Recv(n) ==
  /\ running = InboxLoop(n)
  /\ drained[n] = <<>>
  /\ inbox[n] # <<>>
  /\ drained' = [drained EXCEPT ![n] = inbox[n]]
  /\ inbox' = [inbox EXCEPT ![n] = <<>>]
  /\ UNCHANGED <<execVars, heapVars, topology, queueVars, messages, waker,
                 wake_time, free_at, hasty>>

size_delay(m) == get_size_delay(messages[m].size, Bandwidths[messages[m].dest])

TransferPending(n) ==
  /\ drained[n] # <<>>
  /\ SleepPending(InboxLoop(n), size_delay(Head(drained[n])))

(* Mutant: the link is announced inactive when one queue is empty.         *)
NotifyDeliveryMutant(m) ==
  LET l == messages[m].link
      n == messages[m].source
      last == current_message_count[l][n] = 1
  IN  /\ current_message_count' =
           [current_message_count EXCEPT ![l][n] = @ - 1]
      /\ active_queues' =
           [active_queues EXCEPT ![l] = IF last THEN @ - 1 ELSE @]
      /\ announced' = [announced EXCEPT ![l] = IF last THEN @ - 1 ELSE @]

(* Mutant: the counter of the other direction is lowered.                  *)
NotifyOtherMutant(m) ==
  LET l == messages[m].link
      n == messages[m].dest
      last == current_message_count[l][n] = 1
  IN  /\ current_message_count' =
           [current_message_count EXCEPT ![l][n] = @ - 1]
      /\ active_queues' =
           [active_queues EXCEPT ![l] = IF last THEN @ - 1 ELSE @]
      /\ announced' = [announced EXCEPT ![l] =
                         IF last /\ active_queues[l] = 1 THEN @ - 1 ELSE @]

(* The notify_delivery_fn of LinkQueue::send.                              *)
NotifyDelivery(m) ==
  LET l == messages[m].link
      n == messages[m].source
      last == current_message_count[l][n] = 1
  IN  /\ current_message_count' =
           [current_message_count EXCEPT ![l][n] = @ - 1]
      /\ active_queues' =
           [active_queues EXCEPT ![l] = IF last THEN @ - 1 ELSE @]
      /\ announced' = [announced EXCEPT ![l] =
                         IF last /\ active_queues[l] = 1 THEN @ - 1 ELSE @]

(* One round of the for loop: the message arrived and is handed over.      *)
Receive(n) ==
  LET m == Head(drained[n])
  IN  /\ running = InboxLoop(n)
      /\ drained[n] # <<>>
      /\ Slept(InboxLoop(n), size_delay(m))
      /\ NotifyDelivery(m)
      /\ SpawnTask(Handler(m))
      /\ drained' = [drained EXCEPT ![n] = Tail(@)]
      /\ EndSleep(InboxLoop(n))
      /\ free_at' = [free_at EXCEPT ![n] = now]
      /\ UNCHANGED <<heapVars, topology, messages, inbox, waker, hasty>>

-----------------------------------------------------------------------------
ExecStep == Execute \/ BeginPoll

Program ==
  \/ \E n \in Nodes : NewNode(n) \/ DisconnectAll(n)
  \/ \E a, b \in Nodes, d \in Latencies : Connect(a, b, d)
  \/ \E n, p \in Nodes, s \in Sizes : Send(n, p, s) \/ Broadcast(n, {p}, s)
  \/ \E n \in Nodes, s \in Sizes : Broadcast(n, {}, s)

DeliveryStep(m) == DeliverPending(m) \/ Deliver(m)

InboxStep(n) == RecvPending(n) \/ Recv(n) \/ TransferPending(n) \/ Receive(n)

Next ==
  \/ ExecStep
  \/ Advance
  \/ Program
  \/ \E m \in DOMAIN messages : DeliveryStep(m) \/ EndHandler(m)
  \/ \E n \in Nodes : InboxStep(n)

Spec == Init /\ [][Next]_vars

(***************************************************************************)
(* The driver executes and advances again and again, as the loop of        *)
(* block_on does; polls go on and handlers return.  Nothing is assumed of  *)
(* what the program does.                                                  *)
(***************************************************************************)
Fairness ==
  /\ WF_vars(ExecStep)
  /\ WF_vars(Advance)
  /\ \A m \in MessageIds : WF_vars(DeliveryStep(m)) /\ WF_vars(EndHandler(m))
  /\ \A n \in Nodes : WF_vars(InboxStep(n))

FairSpec == Spec /\ Fairness

-----------------------------------------------------------------------------
(* Properties.                                                             *)

(* m was sent, and its handler was not spawned yet.                        *)
UnderWay(m) == m \in DOMAIN messages /\ future[Handler(m)] = "unborn"

InQueue(l, n) ==
  {m \in DOMAIN messages :
     UnderWay(m) /\ messages[m].link = l /\ messages[m].source = n}

(* The counters of a link, which senders raise and inbox loops lower one   *)
(* message later, agree with the messages under way in its two queues, and *)
(* the program heard of every change of is_active() exactly once.          *)
ActiveWhileUnderWay ==
  \A l \in LinkIds :
    /\ \A n \in Nodes :
         current_message_count[l][n] = Cardinality(InQueue(l, n))
    /\ active_queues[l] = Cardinality({n \in Nodes : InQueue(l, n) # {}})
    /\ announced[l] = IF \E n \in Nodes : InQueue(l, n) # {} THEN 1 ELSE 0

(* Both ends of a link know it, or neither does: disconnect_all finds the  *)
(* entry it expects at the peer, whatever was connected or disconnected    *)
(* before.                                                                 *)
LinksAgree ==
  \A a, b \in Nodes :
    /\ network_links[a][b] = network_links[b][a]
    /\ network_links[a][b] # 0 =>
         /\ network_links[a][b] \in DOMAIN links
         /\ links[network_links[a][b]].ends = {a, b}
         /\ a # b

(* Something will poll t: it is running, queued, or an event of the timer  *)
(* refers to it.                                                           *)
WillRun(t) ==
  running = t \/ Queued(t) \/ \E i \in DOMAIN heap : heap[i].task = t

(* No message is stranded: each one under way is with its delivery task,   *)
(* in the channel or with the inbox loop, in one of the three only, and    *)
(* whoever has it will run.  A receiver that went to sleep in recv() while *)
(* a message arrived, or was woken for an earlier one, would break it.     *)
NoMessageStranded ==
  \A m \in DOMAIN messages :
    LET n == messages[m].dest
        carriers == {c \in {"task", "inbox", "loop"} :
                       \/ c = "task" /\ (\/ future[Delivery(m)] = "some"
                                         \/ running = Delivery(m))
                       \/ c = "inbox" /\ Contains(inbox[n], m)
                       \/ c = "loop" /\ Contains(drained[n], m)}
    IN  /\ Cardinality(carriers) = IF UnderWay(m) THEN 1 ELSE 0
        /\ "task" \in carriers => WillRun(Delivery(m))
        /\ carriers \cap {"inbox", "loop"} # {} => WillRun(InboxLoop(n))

Latest(a, b) == IF a < b THEN b ELSE a

(* With a driver that lets all ready tasks run before it moves the clock,  *)
(* a message is handed over exactly its transfer time after it arrived or  *)
(* after the message before it was, as speed_test.rs counts on: latencies  *)
(* overlap, transfers to one node do not.                                  *)
ExactTransfer ==
  [][\A m \in MessageIds :
       UnderWay(m) /\ ~UnderWay(m)' /\ ~hasty =>
         now = Latest(messages[m].sent + latency(m), free_at[messages[m].dest])
                 + size_delay(m)]_vars

(* Under any driver a message arrives once, after it was sent, not before  *)
(* its latency and transfer time have passed, and the link is announced as *)
(* active exactly meanwhile.                                               *)
Promise == INSTANCE Transit WITH
  clock <- now,
  sent <- Len(messages),
  transit <- {[id |-> m, link |-> messages[m].link,
               due |-> messages[m].sent + latency(m) + size_delay(m)]
              : m \in {i \in DOMAIN messages : UnderWay(i)}},
  active <- {l \in LinkIds : announced[l] > 0}

ImplementsTransit == Promise!TransitSpec

(* Every message that is sent is handled, also when its link is gone.      *)
AllHandled ==
  \A m \in MessageIds :
    m \in DOMAIN messages ~>
      future[Handler(m)] = "none" /\ running # Handler(m)

-----------------------------------------------------------------------------
(* What the source says and the code does not do.                          *)

(* "Each link consists of two messages queues, one for each direction"     *)
(* (link.rs): messages of a direction are handed over in their order.      *)
LinkKeepsOrder ==
  \A m, o \in DOMAIN messages :
    /\ m < o
    /\ messages[m].link = messages[o].link
    /\ messages[m].source = messages[o].source
    => (UnderWay(m) => UnderWay(o))
=============================================================================
