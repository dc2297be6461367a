---------------------------- MODULE NetworkProofs ---------------------------
(***************************************************************************)
(* Proofs about Network, for every finite set of nodes, every topology and *)
(* every number of links and messages.                                     *)
(***************************************************************************)
EXTENDS Network, ExecutorProofs, TimerHeapProofs, FiniteSetTheorems,
        SequenceTheorems, TLAPS

-----------------------------------------------------------------------------
(* The heap.                                                               *)

(* Whatever positions the hole passes, the result holds old elements and e.*)
LEMMA SiftUpType ==
  ASSUME NEW S, NEW h \in Seq(S), NEW i, NEW e \in S
  PROVE  SiftUp(h, i, e) \in Seq(S) /\ Len(SiftUp(h, i, e)) = Len(h)
<1>1. ASSUME NEW R
      PROVE  [j \in 1 .. Len(h) |->
                IF j \notin R THEN h[j]
                ELSE IF j = 1 \/ j \div 2 \notin R THEN e ELSE h[j \div 2]]
               \in [1 .. Len(h) -> S]
  <2>1. \A j \in 1 .. Len(h) : j # 1 => j \div 2 \in 1 .. Len(h)
    OBVIOUS
  <2> QED BY <2>1
<1>2. SiftUp(h, i, e) \in [1 .. Len(h) -> S]
  BY <1>1, Zenon DEF SiftUp
<1> QED BY <1>2, IsASeq, LenProperties

(* So it does when the root sinks to a leaf first.                         *)
LEMMA SiftDownType ==
  ASSUME NEW S, NEW h \in Seq(S), h # <<>>
  PROVE  SiftDownToBottom(h) \in Seq(S)
<1>0. Len(h) \in Nat /\ Len(h) > 0 /\ h[1] \in S
  OBVIOUS
<1>1. ASSUME NEW R
      PROVE  [j \in 1 .. Len(h) |->
                IF j \notin R THEN h[j]
                ELSE IF 2 * j > Len(h) THEN h[1] ELSE h[GreaterChild(h, j)]]
               \in [1 .. Len(h) -> S]
  <2>1. \A j \in 1 .. Len(h) : 2 * j <= Len(h) =>
          GreaterChild(h, j) \in 1 .. Len(h)
    BY DEF GreaterChild
  <2> QED BY <1>0, <2>1
<1>2. ASSUME NEW R
      PROVE  [j \in 1 .. Len(h) |->
                IF j \notin R THEN h[j]
                ELSE IF 2 * j > Len(h) THEN h[1] ELSE h[GreaterChild(h, j)]]
               \in Seq(S)
  BY <1>0, <1>1, IsASeq
<1> QED BY <1>0, <1>2, SiftUpType, Zenon DEF SiftDownToBottom

(* push and pop of the heap keep its type.                                 *)
LEMMA HeapPushType ==
  ASSUME NEW S, NEW h \in Seq(S), NEW e \in S
  PROVE  HeapPush(h, e) \in Seq(S)
BY SiftUpType, AppendProperties DEF HeapPush

LEMMA HeapPopType ==
  ASSUME NEW S, NEW h \in Seq(S), h # <<>>
  PROVE  HeapPop(h) \in Seq(S)
<1> DEFINE rest == SubSeq(h, 1, Len(h) - 1)
           sunk == [rest EXCEPT ![1] = h[Len(h)]]
<1>1. rest \in Seq(S) /\ h[Len(h)] \in S
  OBVIOUS
<1>2. CASE rest = <<>>
  BY <1>2 DEF HeapPop
<1>3. CASE rest # <<>>
  <2>1. sunk \in Seq(S) /\ Len(sunk) = Len(rest)
    BY <1>1, <1>3, ExceptSeq
  <2>2. sunk # <<>>
    BY <1>1, <1>3, <2>1
  <2>3. HeapPop(h) = SiftDownToBottom(sunk)
    BY <1>3 DEF HeapPop
  <2> QED BY <2>1, <2>2, <2>3, SiftDownType
<1> QED BY <1>2, <1>3

-----------------------------------------------------------------------------
(* The tables of links.                                                    *)

TopologyType ==
  /\ links \in Seq(Links)
  /\ Len(links) <= MaxLinks
  /\ network_links \in [Nodes -> [Nodes -> 0 .. MaxLinks]]

LinksInv == TopologyType /\ LinksAgree

LEMMA LinksInit == Init => LinksInv
BY NetworkAssumption DEF Init, LinksInv, TopologyType, LinksAgree

(* Only Connect and DisconnectAll touch the tables.                        *)
LEMMA TopologyCases ==
  ASSUME [Next]_vars
  PROVE  \/ UNCHANGED topology
         \/ \E n \in Nodes : DisconnectAll(n)
         \/ \E a, b \in Nodes, d \in Latencies : Connect(a, b, d)
BY DEF Next, ExecStep, Program, DeliveryStep, InboxStep, Execute, BeginPoll,
       Advance, NewNode, Send, Broadcast, SendTo, EndHandler, DeliverPending,
       Deliver, RecvPending, Recv, TransferPending, SleepPending, Receive,
       topology, vars

LEMMA LinksNext == LinksInv /\ [Next]_vars => LinksInv'
<1> SUFFICES ASSUME LinksInv, [Next]_vars
             PROVE  LinksInv'
  OBVIOUS
<1> USE NetworkAssumption DEF LinksInv, TopologyType
<1>1. CASE UNCHANGED topology
  BY <1>1 DEF topology, LinksAgree
<1>2. ASSUME NEW n \in Nodes, DisconnectAll(n)
      PROVE  LinksInv'
  <2>1. /\ links' = links
        /\ \A a, b \in Nodes : network_links'[a][b] =
             IF a = n \/ (b = n /\ network_links[n][a] # 0) THEN 0
             ELSE network_links[a][b]
    BY <1>2 DEF DisconnectAll
  <2>2. network_links' \in [Nodes -> [Nodes -> 0 .. MaxLinks]]
    <3>1. 0 \in 0 .. MaxLinks
      OBVIOUS
    <3> QED BY <1>2, <3>1 DEF DisconnectAll
  <2>3. LinksAgree'
    <3> SUFFICES ASSUME NEW a \in Nodes, NEW b \in Nodes
                 PROVE  /\ network_links'[a][b] = network_links'[b][a]
                        /\ network_links'[a][b] # 0 =>
                             /\ network_links'[a][b] \in DOMAIN links
                             /\ links[network_links'[a][b]].ends = {a, b}
                             /\ a # b
      BY <2>1 DEF LinksAgree
    <3>1. /\ network_links[a][b] = network_links[b][a]
          /\ network_links[a][b] # 0 =>
               /\ network_links[a][b] \in DOMAIN links
               /\ links[network_links[a][b]].ends = {a, b}
               /\ a # b
      BY DEF LinksAgree
    <3>2. network_links'[a][b] = 0 \/ network_links'[a][b] = network_links[a][b]
      BY <2>1
    <3>3. network_links'[a][b] = network_links'[b][a]
      BY <2>1, <3>1
    <3> QED BY <3>1, <3>2, <3>3
  <2> QED BY <2>1, <2>2, <2>3
<1>3. ASSUME NEW a \in Nodes, NEW b \in Nodes, NEW d \in Latencies,
             Connect(a, b, d)
      PROVE  LinksInv'
  <2> DEFINE k == Len(links) + 1
  <2>1. /\ a # b /\ Len(links) < MaxLinks
        /\ links' = Append(links, [ends |-> {a, b}, latency |-> d])
        /\ network_links' = [network_links EXCEPT ![a][b] = k, ![b][a] = k]
    BY <1>3 DEF Connect, AddLinks
  <2>2. [ends |-> {a, b}, latency |-> d] \in Links
    BY DEF Links
  <2>3. /\ links' \in Seq(Links) /\ Len(links') = k
        /\ links'[k].ends = {a, b}
        /\ \A i \in DOMAIN links : i \in DOMAIN links' /\ links'[i] = links[i]
        /\ k \in DOMAIN links' /\ k \in 1 .. MaxLinks /\ k # 0
    <3>1. /\ links' \in Seq(Links) /\ Len(links') = k
          /\ links'[k] = [ends |-> {a, b}, latency |-> d]
          /\ \A i \in 1 .. Len(links) : links'[i] = links[i]
      BY <2>1, <2>2, AppendProperties
    <3>2. Len(links) \in Nat /\ DOMAIN links = 1 .. Len(links)
      BY LenProperties
    <3>3. DOMAIN links' = 1 .. k
      BY <3>1, LenProperties
    <3> QED BY <2>1, <3>1, <3>2, <3>3
  <2>4. network_links' \in [Nodes -> [Nodes -> 0 .. MaxLinks]]
    <3>1. k \in 0 .. MaxLinks
      BY <2>3
    <3> HIDE DEF k
    <3> QED BY <2>1, <3>1
  <2>5. \A x, y \in Nodes :
          network_links'[x][y] = IF {x, y} = {a, b} THEN k
                                 ELSE network_links[x][y]
    <3> SUFFICES ASSUME NEW x \in Nodes, NEW y \in Nodes
                 PROVE  network_links'[x][y] = IF {x, y} = {a, b} THEN k
                                               ELSE network_links[x][y]
      OBVIOUS
    <3>1. {x, y} = {a, b} <=> (x = a /\ y = b) \/ (x = b /\ y = a)
      BY <2>1
    <3> HIDE DEF k
    <3> QED BY <2>1, <3>1
  <2>6. LinksAgree'
    <3> SUFFICES ASSUME NEW x \in Nodes, NEW y \in Nodes
                 PROVE  /\ network_links'[x][y] = network_links'[y][x]
                        /\ network_links'[x][y] # 0 =>
                             /\ network_links'[x][y] \in DOMAIN links'
                             /\ links'[network_links'[x][y]].ends = {x, y}
                             /\ x # y
      BY DEF LinksAgree
    <3>1. {x, y} = {y, x}
      OBVIOUS
    <3>2. CASE {x, y} = {a, b}
      <4>1. network_links'[x][y] = k /\ network_links'[y][x] = k
        BY <2>5, <3>1, <3>2
      <4>2. x # y
        <5>1. (x = a /\ y = b) \/ (x = b /\ y = a)
          BY <3>2, Zenon
        <5> QED BY <2>1, <5>1
      <4> HIDE DEF k
      <4> QED BY <2>3, <3>2, <4>1, <4>2
    <3>3. CASE {x, y} # {a, b}
      <4>1. /\ network_links'[x][y] = network_links[x][y]
            /\ network_links'[y][x] = network_links[y][x]
        BY <2>5, <3>1, <3>3
      <4>2. /\ network_links[x][y] = network_links[y][x]
            /\ network_links[x][y] # 0 =>
                 /\ network_links[x][y] \in DOMAIN links
                 /\ links[network_links[x][y]].ends = {x, y}
                 /\ x # y
        BY DEF LinksAgree
      <4> HIDE DEF k
      <4> QED BY <2>3, <4>1, <4>2
    <3> QED BY <3>2, <3>3
  <2>7. Len(links') <= MaxLinks
    BY <2>3
  <2> QED BY <2>3, <2>4, <2>6, <2>7
<1> QED BY <1>1, <1>2, <1>3, TopologyCases

(***************************************************************************)
(* Both ends of a link know it, or neither does, whatever was connected    *)
(* and disconnected: the entry that disconnect_all expects at the peer is  *)
(* always there.                                                           *)
(***************************************************************************)
THEOREM LinksCorrect == Spec => []LinksAgree
<1>1. Init => LinksInv
  BY LinksInit
<1>2. LinksInv /\ [Next]_vars => LinksInv'
  BY LinksNext
<1>3. LinksInv => LinksAgree
  BY DEF LinksInv
<1> QED BY <1>1, <1>2, <1>3, PTL DEF Spec

-----------------------------------------------------------------------------
(* Types.                                                                  *)

(* Every message was sent over a link that exists, what lies in an inbox   *)
(* was sent, and a message that was not sent has no handler.               *)
MessagesKnown ==
  /\ \A m \in DOMAIN messages : messages[m].link \in DOMAIN links
  /\ \A n \in Nodes :
       /\ \A i \in DOMAIN inbox[n] : inbox[n][i] \in DOMAIN messages
       /\ \A i \in DOMAIN drained[n] : drained[n][i] \in DOMAIN messages
  /\ \A m \in MessageIds \ DOMAIN messages : future[Handler(m)] = "unborn"

StateInv == StateTypeOK /\ LinksInv /\ MessagesKnown

LEMMA TasksTyped ==
  /\ \A n \in Nodes : InboxLoop(n) \in Tasks
  /\ \A m \in MessageIds : Delivery(m) \in Tasks /\ Handler(m) \in Tasks
  /\ \A n \in Nodes, m \in MessageIds : InboxLoop(n) # Handler(m)
  /\ \A k, m \in MessageIds :
       Delivery(k) # Handler(m) /\ (Handler(k) = Handler(m) => k = m)
BY NetworkAssumption DEF NetTasks, InboxLoop, Delivery, Handler

LEMMA StateInit == Init => StateInv
<1> SUFFICES ASSUME Init PROVE StateInv
  OBVIOUS
<1>1. \A S : <<>> \in Seq(S)
  OBVIOUS
<1>2. StateTypeOK
  <2>1. ExecTypeOK
    BY <1>1 DEF Init, ExecTypeOK, ExecInit, FutureStates
  <2>2. now \in 0 .. MaxTime /\ heap \in Seq(Events)
    BY <1>1, HeapAssumption DEF Init, HeapInit
  <2>3. /\ links \in Seq(Links) /\ Len(links) <= MaxLinks
        /\ messages \in Seq(Messages) /\ Len(messages) <= MaxMessages
    BY <1>1, NetworkAssumption DEF Init
  <2>4. /\ inbox \in [Nodes -> Seq(MessageIds)]
        /\ drained \in [Nodes -> Seq(MessageIds)]
        /\ waker \in [Nodes -> BOOLEAN]
        /\ hasty \in BOOLEAN
    BY <1>1 DEF Init
  <2>5. /\ network_links \in [Nodes -> [Nodes -> 0 .. MaxLinks]]
        /\ wake_time \in [Tasks -> 0 .. MaxTime]
        /\ free_at \in [Nodes -> 0 .. MaxTime]
    BY NetworkAssumption, HeapAssumption DEF Init
  <2> QED BY <2>1, <2>2, <2>3, <2>4, <2>5 DEF StateTypeOK
<1>3. MessagesKnown
  BY TasksTyped DEF Init, MessagesKnown, ExecInit
<1> QED BY <1>2, <1>3, LinksInit DEF StateInv

(* A sleeping task leaves a well-typed event and wake time.                *)
LEMMA SleepTyped ==
  ASSUME StateTypeOK, NEW t \in Tasks, NEW d \in Int, SleepPending(t, d)
  PROVE  /\ heap' \in Seq(Events)
         /\ wake_time' \in [Tasks -> 0 .. MaxTime]
         /\ future' \in [Tasks -> FutureStates]
<1>1. WakeTime(t, d) \in 0 .. MaxTime
  BY HeapAssumption DEF StateTypeOK, SleepPending, Push, WakeTime
<1>2. [wake_time |-> WakeTime(t, d), task |-> t] \in Events
  BY <1>1 DEF Events
<1>3. heap' \in Seq(Events)
  BY <1>2, HeapPushType DEF StateTypeOK, SleepPending, Push
<1> QED
  BY <1>1, <1>3
     DEF StateTypeOK, SleepPending, ExecTypeOK, ReturnPending, FutureStates

LEMMA WokenTyped ==
  ASSUME StateTypeOK, NEW t, EndSleep(t)
  PROVE  wake_time' \in [Tasks -> 0 .. MaxTime]
<1>1. 0 \in 0 .. MaxTime
  BY HeapAssumption
<1>2. wake_time \in [Tasks -> 0 .. MaxTime]
  BY DEF StateTypeOK
<1>3. wake_time' = [wake_time EXCEPT ![t] = 0]
  BY DEF EndSleep
<1> QED BY <1>1, <1>2, <1>3

(* A message that is delivered or transferred takes an integer time.       *)
LEMMA DelaysTyped ==
  ASSUME StateInv, NEW m \in DOMAIN messages
  PROVE  /\ m \in MessageIds
         /\ messages[m] \in Messages
         /\ latency(m) \in Nat
         /\ size_delay(m) \in Nat
<1>1. m \in MessageIds /\ messages[m] \in Messages
  BY NetworkAssumption, LenProperties, ElementOfSeq
     DEF StateInv, StateTypeOK, MessageIds
<1>2. messages[m].link \in DOMAIN links
  BY DEF StateInv, MessagesKnown
<1>3. links[messages[m].link] \in Links
  BY <1>2, ElementOfSeq DEF StateInv, StateTypeOK
<1>4. latency(m) \in Nat
  BY <1>3, NetworkAssumption DEF latency, Links
<1>5. /\ messages[m].size \in Nat
      /\ Bandwidths[messages[m].dest] \in Nat \ {0}
  BY <1>1, NetworkAssumption DEF Messages
<1>6. size_delay(m) \in Nat
  <2>1. \A x \in Int : Wrap(x) \in Nat
    BY WordAssumption DEF Wrap
  <2>2. \A x \in Nat, b \in Nat \ {0} : x \div b \in Nat
    OBVIOUS
  <2>3. ASSUME NEW s \in Nat, NEW b \in Nat \ {0}
        PROVE  get_size_delay(s, b) \in Nat
    <3>1. Wrap(s * 8) \in Nat
      BY <2>1
    <3>2. Wrap(Wrap(s * 8) * 1000) \in Nat
      BY <2>1, <3>1
    <3>3. Wrap(Wrap(Wrap(s * 8) * 1000) * 1000) \in Nat
      BY <2>1, <3>2
    <3> QED BY <2>2, <3>3 DEF get_size_delay
  <2> QED BY <1>5, <2>3 DEF size_delay
<1> QED BY <1>1, <1>4, <1>6

LEMMA ExecuteState == StateInv /\ Execute => StateTypeOK' /\ MessagesKnown'
BY DEF StateInv, StateTypeOK, ExecTypeOK, MessagesKnown, Execute, TakeReady,
       heapVars, topology, queueVars, inboxVars

LEMMA BeginPollState == StateInv /\ BeginPoll => StateTypeOK' /\ MessagesKnown'
<1> SUFFICES ASSUME StateInv, BeginPoll PROVE StateTypeOK' /\ MessagesKnown'
  OBVIOUS
<1> USE DEF BeginPoll, PollNext, heapVars, topology, queueVars, inboxVars
<1>1. Head(batch) \in Tasks /\ Tail(batch) \in Seq(Tasks)
  BY DEF StateInv, StateTypeOK, ExecTypeOK
<1>2. StateTypeOK'
  BY <1>1 DEF StateInv, StateTypeOK, ExecTypeOK, FutureStates
<1>3. MessagesKnown'
  BY <1>1, TasksTyped DEF StateInv, StateTypeOK, ExecTypeOK, MessagesKnown
<1> QED BY <1>2, <1>3

LEMMA AdvanceState == StateInv /\ Advance => StateTypeOK' /\ MessagesKnown'
<1> SUFFICES ASSUME StateInv, Advance PROVE StateTypeOK' /\ MessagesKnown'
  OBVIOUS
<1> USE DEF Advance, Pop, Wake, topology, queueVars, inboxVars
<1>1. heap[1] \in Events
  BY DEF StateInv, StateTypeOK
<1>2. heap[1].wake_time \in 0 .. MaxTime /\ heap[1].task \in Tasks
  BY <1>1 DEF Events
<1>3. heap' \in Seq(Events)
  BY HeapPopType DEF StateInv, StateTypeOK
<1>4. ready' \in Seq(Tasks)
  BY <1>2, AppendProperties DEF StateInv, StateTypeOK, ExecTypeOK
<1>5. StateTypeOK'
  BY <1>2, <1>3, <1>4 DEF StateInv, StateTypeOK, ExecTypeOK
<1>6. MessagesKnown'
  BY DEF StateInv, MessagesKnown
<1> QED BY <1>5, <1>6

LEMMA NewNodeState ==
  ASSUME StateInv, NEW n \in Nodes, NewNode(n)
  PROVE  StateTypeOK' /\ MessagesKnown'
<1> USE DEF NewNode, SpawnTask, Wake, heapVars, topology, queueVars, inboxVars
<1>1. ready' \in Seq(Tasks)
  BY TasksTyped, AppendProperties DEF StateInv, StateTypeOK, ExecTypeOK
<1>2. StateTypeOK'
  BY <1>1, TasksTyped DEF StateInv, StateTypeOK, ExecTypeOK, FutureStates
<1>3. MessagesKnown'
  BY TasksTyped DEF StateInv, StateTypeOK, ExecTypeOK, MessagesKnown
<1> QED BY <1>2, <1>3

LEMMA TopologyState ==
  ASSUME StateInv, LinksInv',
         \/ \E n \in Nodes : DisconnectAll(n)
         \/ \E a, b \in Nodes, d \in Latencies : Connect(a, b, d)
  PROVE  StateTypeOK' /\ MessagesKnown'
<1>1. UNCHANGED <<execVars, heapVars, messages, inboxVars, wake_time, free_at,
                  hasty>>
  BY DEF DisconnectAll, Connect
<1> USE <1>1 DEF execVars, heapVars, inboxVars
<1>2. DOMAIN links \subseteq DOMAIN links'
  <2>1. CASE \E n \in Nodes : DisconnectAll(n)
    BY <2>1 DEF DisconnectAll
  <2>2. CASE \E a, b \in Nodes, d \in Latencies : Connect(a, b, d)
    <3>1. PICK a \in Nodes, b \in Nodes, d \in Latencies : Connect(a, b, d)
      BY <2>2
    <3>2. [ends |-> {a, b}, latency |-> d] \in Links
      BY DEF Links
    <3>3. links' = Append(links, [ends |-> {a, b}, latency |-> d])
      BY <3>1 DEF Connect
    <3>4. links \in Seq(Links)
      BY DEF StateInv, StateTypeOK
    <3> QED BY <3>2, <3>3, <3>4, AppendProperties, LenProperties
  <2> QED BY <2>1, <2>2
<1>3. StateTypeOK'
  BY DEF StateInv, StateTypeOK, ExecTypeOK, LinksInv, TopologyType
<1>4. MessagesKnown'
  BY <1>2 DEF StateInv, MessagesKnown
<1> QED BY <1>3, <1>4

LEMMA EndHandlerState ==
  ASSUME StateInv, NEW m, EndHandler(m)
  PROVE  StateTypeOK' /\ MessagesKnown'
BY DEF StateInv, StateTypeOK, ExecTypeOK, MessagesKnown, EndHandler,
       ReturnReady, heapVars, topology, queueVars, inboxVars

(* The peers of a broadcast or of send_to: no one twice, each with a link. *)
Peers(n, peers) ==
  /\ peers \in Seq(Nodes)
  /\ \A i, j \in DOMAIN peers : peers[i] = peers[j] => i = j
  /\ \A i \in DOMAIN peers : network_links[n][peers[i]] # 0

(* The messages of a send, one over the link to each peer.                 *)
Sent(n, peers) ==
  /\ messages' \in Seq(Messages) /\ Len(messages') <= MaxMessages
  /\ DOMAIN messages \subseteq DOMAIN messages'
  /\ DOMAIN messages' \subseteq MessageIds
  /\ \A i \in DOMAIN messages : messages'[i] = messages[i]
  /\ \A j \in DOMAIN peers :
       LET i == Len(messages) + j
       IN  /\ i \in DOMAIN messages' \ DOMAIN messages
           /\ messages'[i].link = network_links[n][peers[j]]
           /\ messages'[i].source = n
  /\ \A i \in DOMAIN messages' \ DOMAIN messages :
       \E j \in DOMAIN peers : i = Len(messages) + j
  /\ \A m \in MessageIds : future'[Handler(m)] = future[Handler(m)]

LEMMA SendToSends ==
  ASSUME StateInv, NEW n \in Nodes, NEW peers, Peers(n, peers),
         NEW size \in Sizes, SendTo(n, peers, size)
  PROVE  /\ Sent(n, peers)
         /\ \A j \in DOMAIN peers : network_links[n][peers[j]] \in DOMAIN links
         /\ ready' \in Seq(Tasks)
<1> DEFINE new == [i \in DOMAIN peers |->
                     [link |-> network_links[n][peers[i]], source |-> n,
                      dest |-> peers[i], size |-> size, sent |-> now]]
           spawned == [i \in DOMAIN peers |-> Delivery(Len(messages) + i)]
<1>1. /\ Len(messages) + Len(peers) <= MaxMessages
      /\ messages' = messages \o new
      /\ ready' = ready \o spawned
      /\ future' = [t \in Tasks |-> IF t \in ToSet(spawned) THEN "some"
                                    ELSE future[t]]
      /\ UNCHANGED <<batch, running, now, heap, links, network_links, inbox,
                     waker, drained, wake_time, free_at, hasty>>
  BY DEF SendTo, heapVars, topology, inboxVars
<1>2. /\ Len(peers) \in Nat /\ DOMAIN peers = 1 .. Len(peers)
      /\ Len(messages) \in Nat /\ DOMAIN messages = 1 .. Len(messages)
      /\ \A i \in DOMAIN peers : peers[i] \in Nodes
  BY LenProperties, ElementOfSeq DEF Peers, StateInv, StateTypeOK
<1>3. \A i \in DOMAIN peers : network_links[n][peers[i]] \in DOMAIN links
  BY <1>2 DEF Peers, StateInv, LinksInv, LinksAgree
<1>4. /\ new \in Seq(Messages)
      /\ Len(new) = Len(peers)
  <2>1. \A i \in DOMAIN peers : new[i] \in Messages
    <3>1. \A i \in DOMAIN peers : network_links[n][peers[i]] \in LinkIds
      BY <1>3, NetworkAssumption, LenProperties
         DEF StateInv, StateTypeOK, LinkIds
    <3> QED BY <1>2, <3>1 DEF StateInv, StateTypeOK, Messages
  <2>2. new \in [1 .. Len(peers) -> Messages]
    <3> HIDE DEF new
    <3>1. DOMAIN new = DOMAIN peers /\ new = [i \in DOMAIN peers |-> new[i]]
      BY DEF new
    <3> QED BY <1>2, <2>1, <3>1
  <2> HIDE DEF new
  <2> QED BY <1>2, <2>2, IsASeq, LenProperties
<1>5. /\ spawned \in Seq(Tasks)
      /\ Len(spawned) = Len(peers)
  <2>1. \A i \in DOMAIN peers : Len(messages) + i \in MessageIds
    BY <1>1, <1>2, NetworkAssumption DEF MessageIds
  <2>2. spawned \in [1 .. Len(peers) -> Tasks]
    BY <1>2, <2>1, TasksTyped
  <2> HIDE DEF spawned
  <2> QED BY <1>2, <2>2, IsASeq, LenProperties
<1> HIDE DEF new
<1>6. /\ messages' \in Seq(Messages)
      /\ Len(messages') = Len(messages) + Len(peers)
      /\ \A i \in DOMAIN messages : messages'[i] = messages[i]
      /\ \A i \in DOMAIN messages' \ DOMAIN messages :
           \E j \in DOMAIN peers : i = Len(messages) + j /\ messages'[i] = new[j]
  <2>1. messages \in Seq(Messages)
    BY DEF StateInv, StateTypeOK
  <2>2. /\ messages' \in Seq(Messages)
        /\ Len(messages') = Len(messages) + Len(peers)
        /\ \A i \in 1 .. Len(messages) + Len(peers) :
             messages'[i] = IF i <= Len(messages) THEN messages[i]
                            ELSE new[i - Len(messages)]
    <3>1. /\ messages \o new \in Seq(Messages)
          /\ Len(messages \o new) = Len(messages) + Len(new)
          /\ \A i \in 1 .. Len(messages) + Len(new) :
               (messages \o new)[i] = IF i <= Len(messages) THEN messages[i]
                                      ELSE new[i - Len(messages)]
      BY <1>4, <2>1, ConcatProperties, Zenon
    <3> QED BY <1>1, <1>4, <3>1, Zenon
  <2>3. DOMAIN messages' = 1 .. Len(messages) + Len(peers)
    BY <2>2, LenProperties
  <2>4. \A i \in DOMAIN messages' \ DOMAIN messages :
          /\ i - Len(messages) \in DOMAIN peers
          /\ i = Len(messages) + (i - Len(messages))
          /\ messages'[i] = new[i - Len(messages)]
    BY <1>2, <2>2, <2>3
  <2> QED BY <1>2, <2>2, <2>4
<1>7. DOMAIN messages \subseteq DOMAIN messages'
  BY <1>2, <1>6, LenProperties
<1>8. DOMAIN messages' \subseteq MessageIds
  BY <1>1, <1>2, <1>6, LenProperties, NetworkAssumption DEF MessageIds
<1>9. ASSUME NEW j \in DOMAIN peers
      PROVE  LET i == Len(messages) + j
             IN  /\ i \in DOMAIN messages' \ DOMAIN messages
                 /\ messages'[i].link = network_links[n][peers[j]]
                 /\ messages'[i].source = n
  <2> DEFINE i == Len(messages) + j
  <2>1. i \in DOMAIN messages' \ DOMAIN messages
    BY <1>2, <1>6, LenProperties
  <2>2. messages'[i] = new[j]
    BY <1>2, <1>6, <2>1
  <2>3. /\ new[j].link = network_links[n][peers[j]]
        /\ new[j].source = n
    BY DEF new
  <2> QED BY <2>1, <2>2, <2>3
<1>10. \A m \in MessageIds : future'[Handler(m)] = future[Handler(m)]
  <2>1. \A i \in DOMAIN peers : Len(messages) + i \in MessageIds
    BY <1>1, <1>2, NetworkAssumption DEF MessageIds
  <2>2. \A m \in MessageIds : Handler(m) \notin ToSet(spawned)
    BY <2>1, TasksTyped DEF ToSet
  <2> QED BY <1>1, <2>2, TasksTyped
<1>11. ready' \in Seq(Tasks)
  BY <1>1, <1>5, ConcatProperties DEF StateInv, StateTypeOK, ExecTypeOK
<1>12. Len(messages') <= MaxMessages
  BY <1>1, <1>6
<1>13. \A i \in DOMAIN messages' \ DOMAIN messages :
         \E j \in DOMAIN peers : i = Len(messages) + j
  BY <1>6
<1> HIDE DEF spawned
<1> QED BY <1>3, <1>6, <1>7, <1>8, <1>9, <1>10, <1>11, <1>12, <1>13 DEF Sent

LEMMA SendToState ==
  ASSUME StateInv, NEW n \in Nodes, NEW peers, Peers(n, peers),
         NEW size \in Sizes, SendTo(n, peers, size)
  PROVE  StateTypeOK' /\ MessagesKnown'
<1>1. /\ Sent(n, peers)
      /\ \A j \in DOMAIN peers : network_links[n][peers[j]] \in DOMAIN links
      /\ ready' \in Seq(Tasks)
  BY SendToSends, Zenon
<1>2. UNCHANGED <<batch, running, now, heap, links, network_links, inbox,
                  waker, drained, wake_time, free_at, hasty>>
  BY DEF SendTo, heapVars, topology, inboxVars
<1>3. future' \in [Tasks -> FutureStates]
  <2>1. "some" \in FutureStates /\ future \in [Tasks -> FutureStates]
    BY DEF StateInv, StateTypeOK, ExecTypeOK, FutureStates
  <2> QED BY <2>1 DEF SendTo
<1>4. StateTypeOK'
  BY <1>1, <1>2, <1>3 DEF StateInv, StateTypeOK, ExecTypeOK, Sent
<1>5. \A m \in DOMAIN messages' : messages'[m].link \in DOMAIN links
  <2> SUFFICES ASSUME NEW m \in DOMAIN messages'
               PROVE  messages'[m].link \in DOMAIN links
    OBVIOUS
  <2>1. CASE m \in DOMAIN messages
    BY <1>1, <2>1 DEF StateInv, MessagesKnown, Sent
  <2>2. CASE m \notin DOMAIN messages
    BY <1>1, <2>2 DEF Sent
  <2> QED BY <2>1, <2>2
<1>6. MessagesKnown'
  BY <1>1, <1>2, <1>5 DEF StateInv, MessagesKnown, Sent
<1> QED BY <1>4, <1>6

(* A task that falls asleep is a delivery task or an inbox loop.           *)
LEMMA Sleeper ==
  ASSUME StateInv,
         \/ \E m \in DOMAIN messages : DeliverPending(m)
         \/ \E n \in Nodes : TransferPending(n)
  PROVE  \E t \in Tasks, d \in Int : /\ SleepPending(t, d)
                                     /\ \A m \in MessageIds : t # Handler(m)
<1>1. CASE \E m \in DOMAIN messages : DeliverPending(m)
  BY <1>1, DelaysTyped, TasksTyped DEF DeliverPending
<1>2. CASE \E n \in Nodes : TransferPending(n)
  <2>1. PICK n \in Nodes : TransferPending(n)
    BY <1>2
  <2>2. Head(drained[n]) \in DOMAIN messages
    BY <2>1 DEF TransferPending, StateInv, StateTypeOK, MessagesKnown
  <2> QED BY <2>1, <2>2, DelaysTyped, TasksTyped DEF TransferPending
<1> QED BY <1>1, <1>2

LEMMA SleepEvent ==
  ASSUME StateTypeOK, NEW t \in Tasks, NEW d \in Int, SleepPending(t, d)
  PROVE  [wake_time |-> WakeTime(t, d), task |-> t] \in Events
<1>1. WakeTime(t, d) \in 0 .. MaxTime
  BY HeapAssumption DEF StateTypeOK, SleepPending, Push, WakeTime
<1> QED BY <1>1 DEF Events

LEMMA SleepState ==
  ASSUME StateInv,
         \/ \E m \in DOMAIN messages : DeliverPending(m)
         \/ \E n \in Nodes : TransferPending(n)
  PROVE  StateTypeOK' /\ MessagesKnown'
<1>1. PICK t \in Tasks, d \in Int :
        SleepPending(t, d) /\ \A m \in MessageIds : t # Handler(m)
  BY Sleeper
<1>2. /\ heap' \in Seq(Events)
      /\ wake_time' \in [Tasks -> 0 .. MaxTime]
      /\ future' \in [Tasks -> FutureStates]
  BY <1>1, SleepTyped DEF StateInv
<1> USE DEF SleepPending, Push, ReturnPending, topology, queueVars, inboxVars
<1>3. StateTypeOK'
  BY <1>1, <1>2 DEF StateInv, StateTypeOK, ExecTypeOK
<1>4. MessagesKnown'
  BY <1>1, TasksTyped DEF StateInv, StateTypeOK, ExecTypeOK, MessagesKnown
<1> QED BY <1>3, <1>4

LEMMA DeliverState ==
  ASSUME StateInv, NEW m \in DOMAIN messages, Deliver(m)
  PROVE  StateTypeOK' /\ MessagesKnown'
<1> USE DEF Deliver, ChannelSend, Wake, ReturnReady, heapVars,
            topology, queueVars
<1>1. m \in MessageIds /\ messages[m].dest \in Nodes
  BY DelaysTyped DEF Messages
<1>2. ready' \in Seq(Tasks)
  <2>1. ready \in Seq(Tasks) /\ InboxLoop(messages[m].dest) \in Tasks
    BY <1>1, TasksTyped DEF StateInv, StateTypeOK, ExecTypeOK
  <2>2. \/ ready' = ready
        \/ ready' = Append(ready, InboxLoop(messages[m].dest))
    OBVIOUS
  <2> QED BY <2>1, <2>2, AppendProperties
<1>3. /\ inbox' \in [Nodes -> Seq(MessageIds)]
      /\ waker' \in [Nodes -> BOOLEAN]
  <2>1. /\ inbox \in [Nodes -> Seq(MessageIds)]
        /\ waker \in [Nodes -> BOOLEAN]
    BY DEF StateInv, StateTypeOK
  <2>2. Append(inbox[messages[m].dest], m) \in Seq(MessageIds)
    BY <1>1, <2>1, AppendProperties
  <2> QED BY <2>1, <2>2
<1>4. wake_time' \in [Tasks -> 0 .. MaxTime]
  BY WokenTyped DEF StateInv
<1>5. StateTypeOK'
  BY <1>2, <1>3, <1>4 DEF StateInv, StateTypeOK, ExecTypeOK
<1>6. \A n \in Nodes : \A i \in DOMAIN inbox'[n] :
        inbox'[n][i] \in DOMAIN messages
  <2> SUFFICES ASSUME NEW n \in Nodes, NEW i \in DOMAIN inbox'[n]
               PROVE  inbox'[n][i] \in DOMAIN messages
    OBVIOUS
  <2>1. CASE n # messages[m].dest
    BY <1>1, <2>1 DEF StateInv, StateTypeOK, MessagesKnown
  <2>2. CASE n = messages[m].dest
    <3>1. /\ inbox[n] \in Seq(MessageIds)
          /\ inbox'[n] = Append(inbox[n], m)
      BY <1>1, <2>2 DEF StateInv, StateTypeOK
    <3>2. CASE i \in DOMAIN inbox[n]
      <4>1. inbox'[n][i] = inbox[n][i]
        BY <1>1, <3>1, <3>2, AppendProperties, LenProperties
      <4> QED BY <3>2, <4>1 DEF StateInv, MessagesKnown
    <3>3. CASE i \notin DOMAIN inbox[n]
      <4>1. i = Len(inbox[n]) + 1
        BY <1>1, <3>1, <3>3, AppendProperties, LenProperties
      <4> QED BY <1>1, <3>1, <4>1, AppendProperties
    <3> QED BY <3>2, <3>3
  <2> QED BY <2>1, <2>2
<1>7. MessagesKnown'
  BY <1>6 DEF StateInv, MessagesKnown
<1> QED BY <1>5, <1>7

LEMMA RecvState ==
  ASSUME StateInv, NEW n \in Nodes, RecvPending(n) \/ Recv(n)
  PROVE  StateTypeOK' /\ MessagesKnown'
<1>1. CASE RecvPending(n)
  BY <1>1, TasksTyped
     DEF RecvPending, ReturnPending, StateInv, StateTypeOK, ExecTypeOK,
         FutureStates, MessagesKnown, heapVars, topology, queueVars
<1>2. CASE Recv(n)
  BY <1>2
     DEF Recv, StateInv, StateTypeOK, ExecTypeOK, MessagesKnown, execVars,
         heapVars, topology, queueVars
<1> QED BY <1>1, <1>2

LEMMA ReceiveState ==
  ASSUME StateInv, NEW n \in Nodes, Receive(n)
  PROVE  StateTypeOK' /\ MessagesKnown'
<1> DEFINE m == Head(drained[n])
<1>1. /\ drained[n] \in Seq(MessageIds) /\ drained[n] # <<>>
      /\ SpawnTask(Handler(m))
      /\ drained' = [drained EXCEPT ![n] = Tail(@)]
      /\ EndSleep(InboxLoop(n))
      /\ free_at' = [free_at EXCEPT ![n] = now]
      /\ UNCHANGED <<now, heap, links, network_links, messages, inbox, waker,
                     hasty>>
  BY DEF Receive, StateInv, StateTypeOK, heapVars, topology
<1>2. m \in MessageIds /\ m \in DOMAIN messages
  BY <1>1 DEF StateInv, MessagesKnown
<1> HIDE DEF m
<1>3. /\ ready' \in Seq(Tasks)
      /\ future' \in [Tasks -> FutureStates]
  BY <1>1, <1>2, TasksTyped, AppendProperties
     DEF SpawnTask, Wake, StateInv, StateTypeOK, ExecTypeOK, FutureStates
<1>4. wake_time' \in [Tasks -> 0 .. MaxTime]
  BY <1>1, WokenTyped DEF StateInv
<1>5. /\ Tail(drained[n]) \in Seq(MessageIds)
      /\ \A i \in DOMAIN Tail(drained[n]) :
           i + 1 \in DOMAIN drained[n] /\ Tail(drained[n])[i] = drained[n][i + 1]
  BY <1>1
<1>6. StateTypeOK'
  BY <1>1, <1>3, <1>4, <1>5
     DEF SpawnTask, StateInv, StateTypeOK, ExecTypeOK
<1>7. MessagesKnown'
  <2>1. \A o \in Nodes : \A i \in DOMAIN drained'[o] :
          drained'[o][i] \in DOMAIN messages
    BY <1>1, <1>5 DEF StateInv, StateTypeOK, MessagesKnown
  <2>2. \A k \in MessageIds \ DOMAIN messages : future'[Handler(k)] = "unborn"
    BY <1>1, <1>2, TasksTyped
       DEF SpawnTask, StateInv, StateTypeOK, ExecTypeOK, MessagesKnown
  <2> QED BY <1>1, <2>1, <2>2 DEF StateInv, MessagesKnown
<1> QED BY <1>6, <1>7

(* A broadcast goes to each peer once.                                     *)
LEMMA BroadcastPeers ==
  ASSUME NEW n \in Nodes, NEW ignore,
         NEW peers \in SetToSeqs({p \in Nodes \ ignore : network_links[n][p] # 0})
  PROVE  Peers(n, peers)
<1> DEFINE S == {p \in Nodes \ ignore : network_links[n][p] # 0}
<1>1. Cardinality(S) \in Nat
  BY NetworkAssumption, FS_Subset, FS_CardinalityType
<1>2. /\ peers \in [1 .. Cardinality(S) -> S]
      /\ \A i, j \in 1 .. Cardinality(S) : i # j => peers[i] # peers[j]
  BY DEF SetToSeqs
<1> HIDE DEF S
<1>3. peers \in Seq(S) /\ DOMAIN peers = 1 .. Cardinality(S)
  BY <1>1, <1>2, IsASeq
<1>4. \A i \in DOMAIN peers :
        peers[i] \in Nodes /\ network_links[n][peers[i]] # 0
  BY <1>2, <1>3 DEF S
<1>5. peers \in [1 .. Cardinality(S) -> Nodes]
  BY <1>2, <1>3, <1>4
<1> QED BY <1>1, <1>2, <1>3, <1>4, <1>5, IsASeq DEF Peers

LEMMA SendCases ==
  ASSUME Program
  PROVE  \/ \E n \in Nodes : NewNode(n)
         \/ \E n \in Nodes : DisconnectAll(n)
         \/ \E a, b \in Nodes, d \in Latencies : Connect(a, b, d)
         \/ \E n \in Nodes, s \in Sizes : \E peers :
              Peers(n, peers) /\ SendTo(n, peers, s)
<1>1. ASSUME NEW n \in Nodes, NEW p \in Nodes, NEW s \in Sizes, Send(n, p, s)
      PROVE  \E peers : Peers(n, peers) /\ SendTo(n, peers, s)
  <2>1. Peers(n, <<p>>)
    BY <1>1 DEF Send, Peers
  <2> QED BY <1>1, <2>1 DEF Send
<1>2. ASSUME NEW n \in Nodes, NEW ignore, NEW s \in Sizes,
             Broadcast(n, ignore, s)
      PROVE  \E peers : Peers(n, peers) /\ SendTo(n, peers, s)
  BY <1>2, BroadcastPeers DEF Broadcast
<1> QED BY <1>1, <1>2 DEF Program

LEMMA StateNext == StateInv /\ [Next]_vars => StateInv'
<1> SUFFICES ASSUME StateInv, [Next]_vars
             PROVE  StateInv'
  OBVIOUS
<1>1. LinksInv'
  BY LinksNext DEF StateInv
<1>2. StateTypeOK' /\ MessagesKnown'
  <2>1. CASE ExecStep
    BY <2>1, ExecuteState, BeginPollState DEF ExecStep
  <2>2. CASE Advance
    BY <2>2, AdvanceState
  <2>3. CASE Program
    BY <1>1, <2>3, SendCases, NewNodeState, TopologyState, SendToState
  <2>4. CASE \E m \in DOMAIN messages : DeliveryStep(m) \/ EndHandler(m)
    BY <2>4, SleepState, DeliverState, EndHandlerState DEF DeliveryStep
  <2>5. CASE \E n \in Nodes : InboxStep(n)
    BY <2>5, SleepState, RecvState, ReceiveState DEF InboxStep
  <2>6. CASE UNCHANGED vars
    BY <2>6 DEF vars, StateInv, StateTypeOK, ExecTypeOK, MessagesKnown
  <2> QED BY <2>1, <2>2, <2>3, <2>4, <2>5, <2>6 DEF Next
<1> QED BY <1>1, <1>2 DEF StateInv

-----------------------------------------------------------------------------
(* The counters of a link against the messages under way.                  *)

(* The nodes whose queue of a link has a message under way, and what the   *)
(* counters of the link say of its queues Q.                               *)
Busy(Q) == {x \in Nodes : Q[x] # {}}

Counted(Q, count, active, heard) ==
  /\ \A x \in Nodes : count[x] = Cardinality(Q[x])
  /\ active = Cardinality(Busy(Q))
  /\ heard = IF Busy(Q) # {} THEN 1 ELSE 0

Queues(l) == [x \in Nodes |-> InQueue(l, x)]

AllCounted ==
  \A l \in LinkIds : Counted(Queues(l), current_message_count[l],
                             active_queues[l], announced[l])

LEMMA ActiveIsCounted == ActiveWhileUnderWay <=> AllCounted
<1>1. ASSUME NEW l \in LinkIds
      PROVE  Counted(Queues(l), current_message_count[l], active_queues[l],
                     announced[l])
             <=> /\ \A n \in Nodes :
                      current_message_count[l][n] = Cardinality(InQueue(l, n))
                 /\ active_queues[l]
                      = Cardinality({n \in Nodes : InQueue(l, n) # {}})
                 /\ announced[l] =
                      IF \E n \in Nodes : InQueue(l, n) # {} THEN 1 ELSE 0
  <2>1. \A n \in Nodes : Queues(l)[n] = InQueue(l, n)
    BY DEF Queues
  <2>2. Busy(Queues(l)) = {n \in Nodes : InQueue(l, n) # {}}
    BY <2>1, Zenon DEF Busy
  <2>3. Busy(Queues(l)) # {} <=> \E n \in Nodes : InQueue(l, n) # {}
    BY <2>2
  <2>4. Counted(Queues(l), current_message_count[l], active_queues[l],
                announced[l])
        <=> /\ \A n \in Nodes : current_message_count[l][n]
                                  = Cardinality(Queues(l)[n])
            /\ active_queues[l] = Cardinality(Busy(Queues(l)))
            /\ announced[l] = IF Busy(Queues(l)) # {} THEN 1 ELSE 0
    BY Zenon DEF Counted
  <2> QED BY <2>1, <2>2, <2>3, <2>4
<1> QED BY <1>1, Zenon DEF ActiveWhileUnderWay, AllCounted

(* Queues R have one message more than queues Q, in the queue of n.        *)
OneMore(Q, R, n, m) ==
  /\ Q \in [Nodes -> SUBSET MessageIds]
  /\ m \in MessageIds \ Q[n]
  /\ R = [Q EXCEPT ![n] = @ \cup {m}]

LEMMA OneMoreCounts ==
  ASSUME NEW Q, NEW R, NEW n \in Nodes, NEW m, OneMore(Q, R, n, m)
  PROVE  /\ \A x \in Nodes : Cardinality(Q[x]) \in Nat
         /\ \A x \in Nodes : Cardinality(R[x]) =
              IF x = n THEN Cardinality(Q[x]) + 1 ELSE Cardinality(Q[x])
         /\ Cardinality(Busy(Q)) \in Nat
         /\ Cardinality(Busy(R)) =
              IF Cardinality(Q[n]) = 0 THEN Cardinality(Busy(Q)) + 1
              ELSE Cardinality(Busy(Q))
         /\ Busy(Q) = {} <=> Cardinality(Busy(Q)) = 0
         /\ Cardinality(Q[n]) # 0 => Busy(Q) # {}
         /\ Busy(R) # {}
<1>1. \A x \in Nodes : IsFiniteSet(Q[x])
  <2>1. IsFiniteSet(MessageIds)
    BY NetworkAssumption, FS_Interval DEF MessageIds
  <2> QED BY <2>1, FS_Subset DEF OneMore
<1>2. IsFiniteSet(Busy(Q))
  BY NetworkAssumption, FS_Subset DEF Busy
<1>3. \A x \in Nodes : R[x] = IF x = n THEN Q[x] \cup {m} ELSE Q[x]
  BY DEF OneMore
<1>4. Busy(R) = Busy(Q) \cup {n}
  BY <1>3 DEF Busy
<1>5. n \in Busy(Q) <=> Cardinality(Q[n]) # 0
  BY <1>1, FS_EmptySet DEF Busy
<1>6. \A x \in Nodes : Cardinality(Q[x]) \in Nat
  BY <1>1, FS_CardinalityType
<1>7. Cardinality(Busy(Q)) \in Nat
  BY <1>2, FS_CardinalityType
<1>8. Cardinality(Q[n] \cup {m}) = Cardinality(Q[n]) + 1
  BY <1>1, FS_AddElement DEF OneMore
<1>9. Cardinality(Busy(R)) = IF n \in Busy(Q) THEN Cardinality(Busy(Q))
                             ELSE Cardinality(Busy(Q)) + 1
  BY <1>2, <1>4, FS_AddElement
<1>10. Busy(Q) = {} <=> Cardinality(Busy(Q)) = 0
  BY <1>2, FS_EmptySet
<1>11. \A x \in Nodes : Cardinality(R[x]) =
         IF x = n THEN Cardinality(Q[x]) + 1 ELSE Cardinality(Q[x])
  BY <1>3, <1>8
<1> QED BY <1>4, <1>5, <1>6, <1>7, <1>9, <1>10, <1>11

(* What CountSent does when a message enters a queue.                      *)
LEMMA Raised ==
  ASSUME NEW Q, NEW R, NEW n \in Nodes, NEW m, OneMore(Q, R, n, m),
         NEW c, NEW a, NEW b, Counted(Q, c, a, b),
         NEW d, \A x \in Nodes : d[x] = IF x = n THEN c[x] + 1 ELSE c[x]
  PROVE  Counted(R, d, IF c[n] = 0 THEN a + 1 ELSE a,
                 IF c[n] = 0 /\ a = 0 THEN b + 1 ELSE b)
<1>0. /\ \A x \in Nodes : Cardinality(Q[x]) \in Nat
      /\ \A x \in Nodes : Cardinality(R[x]) =
           IF x = n THEN Cardinality(Q[x]) + 1 ELSE Cardinality(Q[x])
      /\ Cardinality(Busy(Q)) \in Nat
      /\ Cardinality(Busy(R)) =
           IF Cardinality(Q[n]) = 0 THEN Cardinality(Busy(Q)) + 1
           ELSE Cardinality(Busy(Q))
      /\ Busy(Q) = {} <=> Cardinality(Busy(Q)) = 0
      /\ Cardinality(Q[n]) # 0 => Busy(Q) # {}
      /\ Busy(R) # {}
  BY OneMoreCounts, Zenon
<1>1. \A x \in Nodes : d[x] = Cardinality(R[x])
  BY <1>0 DEF Counted
<1> QED BY <1>0, <1>1 DEF Counted

(* What NotifyDelivery does when it leaves.                                *)
LEMMA Lowered ==
  ASSUME NEW Q, NEW R, NEW n \in Nodes, NEW m, OneMore(Q, R, n, m),
         NEW c, NEW a, NEW b, Counted(R, c, a, b),
         NEW d, \A x \in Nodes : d[x] = IF x = n THEN c[x] - 1 ELSE c[x]
  PROVE  Counted(Q, d, IF c[n] = 1 THEN a - 1 ELSE a,
                 IF c[n] = 1 /\ a = 1 THEN b - 1 ELSE b)
<1>0. /\ \A x \in Nodes : Cardinality(Q[x]) \in Nat
      /\ \A x \in Nodes : Cardinality(R[x]) =
           IF x = n THEN Cardinality(Q[x]) + 1 ELSE Cardinality(Q[x])
      /\ Cardinality(Busy(Q)) \in Nat
      /\ Cardinality(Busy(R)) =
           IF Cardinality(Q[n]) = 0 THEN Cardinality(Busy(Q)) + 1
           ELSE Cardinality(Busy(Q))
      /\ Busy(Q) = {} <=> Cardinality(Busy(Q)) = 0
      /\ Cardinality(Q[n]) # 0 => Busy(Q) # {}
      /\ Busy(R) # {}
  BY OneMoreCounts, Zenon
<1>1. \A x \in Nodes : d[x] = Cardinality(Q[x])
  BY <1>0 DEF Counted
<1> QED BY <1>0, <1>1 DEF Counted

CountsShape ==
  /\ current_message_count \in [LinkIds -> [Nodes -> Int]]
  /\ active_queues \in [LinkIds -> Int]
  /\ announced \in [LinkIds -> Int]

CountsInv == StateInv /\ CountsShape /\ ActiveWhileUnderWay

LEMMA CountsInit == Init => CountsShape /\ ActiveWhileUnderWay
<1> SUFFICES ASSUME Init PROVE CountsShape /\ ActiveWhileUnderWay
  OBVIOUS
<1>1. CountsShape
  BY DEF Init, CountsShape
<1>2. \A l \in LinkIds, n \in Nodes : InQueue(l, n) = {}
  BY DEF Init, InQueue
<1>3. \A l \in LinkIds : {n \in Nodes : InQueue(l, n) # {}} = {}
  BY <1>2
<1>4. ActiveWhileUnderWay
  BY <1>2, <1>3, FS_EmptySet DEF Init, ActiveWhileUnderWay
<1> QED BY <1>1, <1>4

(* A step that neither sends a message nor hands one over.                 *)
LEMMA QuietCounts ==
  ASSUME CountsInv, UNCHANGED <<queueVars, messages>>,
         \A m \in MessageIds :
           future'[Handler(m)] = "unborn" <=> future[Handler(m)] = "unborn"
  PROVE  CountsShape' /\ ActiveWhileUnderWay'
<1>1. \A m \in DOMAIN messages : m \in MessageIds
  BY DelaysTyped DEF CountsInv
<1>2. \A l, n : InQueue(l, n)' = InQueue(l, n)
  BY <1>1 DEF InQueue, UnderWay
<1> QED
  BY <1>2, Zenon DEF CountsInv, CountsShape, ActiveWhileUnderWay, queueVars

LEMMA QuietCases ==
  ASSUME StateInv, [Next]_vars
  PROVE  \/ /\ UNCHANGED <<queueVars, messages>>
            /\ \A m \in MessageIds :
                 future'[Handler(m)] = "unborn" <=> future[Handler(m)] = "unborn"
         \/ \E n \in Nodes, s \in Sizes : \E peers :
              Peers(n, peers) /\ SendTo(n, peers, s)
         \/ \E n \in Nodes : Receive(n)
<1> DEFINE Quiet == /\ UNCHANGED <<queueVars, messages>>
                    /\ \A m \in MessageIds : future'[Handler(m)] = "unborn"
                                               <=> future[Handler(m)] = "unborn"
<1>1. ASSUME NEW t \in Tasks, \A m \in MessageIds : t # Handler(m),
             NEW s, future' = [future EXCEPT ![t] = s],
             UNCHANGED <<queueVars, messages>>
      PROVE  Quiet
  BY <1>1, TasksTyped DEF StateInv, StateTypeOK, ExecTypeOK
<1>2. ASSUME UNCHANGED <<future, queueVars, messages>>
      PROVE  Quiet
  BY <1>2
<1>3. CASE ExecStep
  <2>1. CASE Execute
    BY <1>2, <2>1 DEF Execute, TakeReady
  <2>2. CASE BeginPoll
    <3>1. Head(batch) \in Tasks
      BY <2>2 DEF BeginPoll, PollNext, StateInv, StateTypeOK, ExecTypeOK
    <3> QED BY <2>2, <3>1, TasksTyped
            DEF BeginPoll, PollNext, StateInv, StateTypeOK, ExecTypeOK
  <2> QED BY <1>3, <2>1, <2>2 DEF ExecStep
<1>4. CASE Advance
  BY <1>2, <1>4 DEF Advance
<1>5. CASE Program
  <2>1. ASSUME NEW n \in Nodes, NewNode(n)
        PROVE  Quiet
    BY <1>1, <2>1, TasksTyped DEF NewNode, SpawnTask
  <2>2. ASSUME NEW n \in Nodes, DisconnectAll(n)
        PROVE  Quiet
    BY <1>2, <2>2 DEF DisconnectAll, execVars
  <2>3. ASSUME NEW a, NEW b, NEW d, Connect(a, b, d)
        PROVE  Quiet
    BY <1>2, <2>3 DEF Connect, execVars
  <2> HIDE DEF Quiet
  <2> QED BY <1>5, <2>1, <2>2, <2>3, SendCases DEF Quiet
<1>6. ASSUME NEW m \in DOMAIN messages, DeliveryStep(m) \/ EndHandler(m)
      PROVE  Quiet
  <2>1. CASE DeliverPending(m)
    BY <1>1, <2>1, DelaysTyped, TasksTyped
       DEF DeliverPending, SleepPending, ReturnPending
  <2>2. CASE Deliver(m)
    BY <1>2, <2>2 DEF Deliver, ReturnReady
  <2>3. CASE EndHandler(m)
    BY <1>2, <2>3 DEF EndHandler, ReturnReady
  <2> QED BY <1>6, <2>1, <2>2, <2>3 DEF DeliveryStep
<1>7. ASSUME NEW n \in Nodes, InboxStep(n), ~Receive(n)
      PROVE  Quiet
  <2>1. CASE RecvPending(n)
    BY <1>1, <2>1, TasksTyped DEF RecvPending, ReturnPending
  <2>2. CASE Recv(n)
    BY <1>2, <2>2 DEF Recv, execVars
  <2>3. CASE TransferPending(n)
    BY <1>1, <2>3, TasksTyped DEF TransferPending, SleepPending, ReturnPending
  <2> QED BY <1>7, <2>1, <2>2, <2>3 DEF InboxStep
<1>8. CASE UNCHANGED vars
  BY <1>2, <1>8 DEF vars, queueVars
<1> HIDE DEF Quiet
<1> QED BY <1>3, <1>4, <1>5, <1>6, <1>7, <1>8 DEF Next, Quiet

LEMMA QueuesTyped ==
  ASSUME StateInv, NEW l
  PROVE  Queues(l) \in [Nodes -> SUBSET MessageIds]
BY DelaysTyped DEF Queues, InQueue

(* After a send, exactly the new messages over l are more under way on l.  *)
LEMMA SendToQueues ==
  ASSUME StateInv, NEW n \in Nodes, NEW peers, Peers(n, peers),
         NEW size \in Sizes, SendTo(n, peers, size), NEW l, NEW x \in Nodes
  PROVE  \A i : i \in InQueue(l, x)' <=>
           \/ i \in InQueue(l, x)
           \/ /\ x = n
              /\ \E j \in DOMAIN peers : /\ network_links[n][peers[j]] = l
                                        /\ i = Len(messages) + j
<1>1. Sent(n, peers)
  BY SendToSends, Zenon
<1>2. ASSUME NEW i \in DOMAIN messages
      PROVE  i \in InQueue(l, x)' <=> i \in InQueue(l, x)
  <2>1. i \in MessageIds /\ i \in DOMAIN messages' /\ messages'[i] = messages[i]
    BY <1>1, DelaysTyped DEF Sent
  <2>2. future'[Handler(i)] = future[Handler(i)]
    BY <1>1, <2>1 DEF Sent
  <2> QED BY <2>1, <2>2 DEF InQueue, UnderWay
<1>3. ASSUME NEW j \in DOMAIN peers
      PROVE  /\ Len(messages) + j \notin DOMAIN messages
             /\ Len(messages) + j \in InQueue(l, x)'
                  <=> network_links[n][peers[j]] = l /\ x = n
  <2> DEFINE i == Len(messages) + j
  <2>1. /\ i \in DOMAIN messages' \ DOMAIN messages
        /\ i \in MessageIds
        /\ messages'[i].link = network_links[n][peers[j]]
        /\ messages'[i].source = n
        /\ future'[Handler(i)] = future[Handler(i)]
    BY <1>1 DEF Sent
  <2>2. future[Handler(i)] = "unborn"
    BY <2>1 DEF StateInv, MessagesKnown
  <2> HIDE DEF i
  <2>3. i \in InQueue(l, x)' <=> network_links[n][peers[j]] = l /\ x = n
    BY <2>1, <2>2 DEF InQueue, UnderWay
  <2> QED BY <2>1, <2>3 DEF i
<1>4. \A i : i \in InQueue(l, x)' =>
        \/ i \in DOMAIN messages
        \/ \E j \in DOMAIN peers : i = Len(messages) + j
  BY <1>1 DEF Sent, InQueue
<1>5. \A i \in InQueue(l, x) : i \in DOMAIN messages
  BY DEF InQueue
<1> QED BY <1>2, <1>3, <1>4, <1>5

LEMMA SendToCounts ==
  ASSUME CountsInv, NEW n \in Nodes, NEW peers, Peers(n, peers),
         NEW size \in Sizes, SendTo(n, peers, size)
  PROVE  CountsShape' /\ ActiveWhileUnderWay'
<1> DEFINE over == {network_links[n][p] : p \in ToSet(peers)}
           first == {l \in over : current_message_count[l][n] = 0}
           woken == {l \in first : active_queues[l] = 0}
<1>1. /\ current_message_count' =
           [l \in LinkIds |-> [current_message_count[l] EXCEPT
                                 ![n] = IF l \in over THEN @ + 1 ELSE @]]
      /\ active_queues' =
           [l \in LinkIds |-> active_queues[l] + (IF l \in first THEN 1 ELSE 0)]
      /\ announced' =
           [l \in LinkIds |-> announced[l] + (IF l \in woken THEN 1 ELSE 0)]
  BY DEF SendTo, CountSent
<1>2. StateInv /\ CountsShape
  BY DEF CountsInv
<1>3. \A l : l \in over <=>
        \E j \in DOMAIN peers : network_links[n][peers[j]] = l
  BY DEF ToSet
<1> HIDE DEF over
<1>4. CountsShape'
  BY <1>1, <1>2 DEF CountsShape
<1>5. ASSUME NEW l \in LinkIds
      PROVE  Counted(Queues(l)', current_message_count'[l], active_queues'[l],
                     announced'[l])
  <2>1. Counted(Queues(l), current_message_count[l], active_queues[l],
                announced[l])
    BY ActiveIsCounted DEF CountsInv, AllCounted
  <2>2. \A x \in Nodes : current_message_count'[l][x] =
          IF l \in over /\ x = n THEN current_message_count[l][x] + 1
          ELSE current_message_count[l][x]
    BY <1>1, <1>2 DEF CountsShape
  <2>3. \A x \in Nodes : \A i : i \in InQueue(l, x)' <=>
           \/ i \in InQueue(l, x)
           \/ /\ x = n
              /\ \E j \in DOMAIN peers : /\ network_links[n][peers[j]] = l
                                        /\ i = Len(messages) + j
    BY <1>2, SendToQueues
  <2>4. CASE l \notin over
    <3>1. Queues(l)' = Queues(l)
      <4>1. \A x \in Nodes : InQueue(l, x)' = InQueue(l, x)
        BY <1>3, <2>3, <2>4
      <4> QED BY <4>1, Zenon DEF Queues
    <3>2. /\ active_queues'[l] = active_queues[l]
          /\ announced'[l] = announced[l]
      BY <1>1, <1>2, <2>4 DEF CountsShape
    <3> QED BY <2>1, <2>2, <2>4, <3>1, <3>2, Zenon DEF Counted
  <2>5. CASE l \in over
    <3>1. PICK j \in DOMAIN peers : network_links[n][peers[j]] = l
      BY <1>3, <2>5
    <3>2. ASSUME NEW k \in DOMAIN peers, network_links[n][peers[k]] = l
          PROVE  k = j
      <4>1. peers[j] \in Nodes /\ peers[k] \in Nodes
        BY ElementOfSeq, LenProperties DEF Peers
      <4>2. /\ links[l].ends = {n, peers[j]} /\ n # peers[j]
            /\ links[l].ends = {n, peers[k]} /\ n # peers[k]
        BY <1>2, <3>1, <3>2, <4>1 DEF Peers, StateInv, LinksInv, LinksAgree
      <4>3. peers[k] = peers[j]
        BY <4>2
      <4> QED BY <4>3 DEF Peers
    <3> DEFINE m == Len(messages) + j
    <3>3. m \in MessageIds \ DOMAIN messages
      BY <1>2, SendToSends DEF Sent
    <3>4. \A x \in Nodes : InQueue(l, x)' =
            IF x = n THEN InQueue(l, x) \cup {m} ELSE InQueue(l, x)
      <4>1. \A x \in Nodes : \A i : i \in InQueue(l, x)' <=>
              i \in InQueue(l, x) \/ (x = n /\ i = m)
        BY <2>3, <3>1, <3>2
      <4> HIDE DEF m
      <4> QED BY <4>1
    <3> HIDE DEF m
    <3>5. OneMore(Queues(l), Queues(l)', n, m)
      <4>1. m \notin Queues(l)[n]
        BY <3>3 DEF Queues, InQueue
      <4>2. Queues(l)' = [x \in Nodes |-> IF x = n THEN Queues(l)[x] \cup {m}
                                         ELSE Queues(l)[x]]
        BY <3>4 DEF Queues
      <4>3. Queues(l) \in [Nodes -> SUBSET MessageIds]
        BY <1>2, QueuesTyped
      <4>4. Queues(l)' = [Queues(l) EXCEPT ![n] = @ \cup {m}]
        BY <4>2, <4>3
      <4> QED BY <3>3, <4>1, <4>3, <4>4 DEF OneMore
    <3>6. Counted(Queues(l)', current_message_count'[l],
                  IF current_message_count[l][n] = 0 THEN active_queues[l] + 1
                  ELSE active_queues[l],
                  IF current_message_count[l][n] = 0 /\ active_queues[l] = 0
                  THEN announced[l] + 1 ELSE announced[l])
      BY <2>1, <2>2, <2>5, <3>5, Raised
    <3>7. /\ active_queues'[l] =
               IF current_message_count[l][n] = 0 THEN active_queues[l] + 1
               ELSE active_queues[l]
          /\ announced'[l] =
               IF current_message_count[l][n] = 0 /\ active_queues[l] = 0
               THEN announced[l] + 1 ELSE announced[l]
      BY <1>1, <1>2, <2>5 DEF CountsShape
    <3> QED BY <3>6, <3>7
  <2> QED BY <2>4, <2>5
<1>6. ActiveWhileUnderWay'
  <2>1. AllCounted'
    BY <1>5, Zenon DEF AllCounted
  <2> QED BY <2>1, ActiveIsCounted, PTL
<1> QED BY <1>4, <1>6

LEMMA ReceiveCounts ==
  ASSUME CountsInv, NEW n \in Nodes, Receive(n)
  PROVE  CountsShape' /\ ActiveWhileUnderWay'
<1> DEFINE m == Head(drained[n])
           link == messages[m].link
           source == messages[m].source
           last == current_message_count[link][source] = 1
<1>1. /\ drained[n] \in Seq(MessageIds) /\ drained[n] # <<>>
      /\ SpawnTask(Handler(m))
      /\ messages' = messages
      /\ current_message_count' =
           [current_message_count EXCEPT ![link][source] = @ - 1]
      /\ active_queues' =
           [active_queues EXCEPT ![link] = IF last THEN @ - 1 ELSE @]
      /\ announced' = [announced EXCEPT ![link] =
                         IF last /\ active_queues[link] = 1 THEN @ - 1 ELSE @]
  BY DEF Receive, NotifyDelivery, CountsInv, StateInv, StateTypeOK
<1>2. StateInv /\ CountsShape
  BY DEF CountsInv
<1>3. m \in MessageIds /\ m \in DOMAIN messages
  BY <1>1 DEF CountsInv, StateInv, MessagesKnown
<1> HIDE DEF m
<1>4. link \in LinkIds /\ source \in Nodes
  BY <1>2, <1>3, DelaysTyped DEF Messages
<1>5. /\ future[Handler(m)] = "unborn"
      /\ \A k \in MessageIds : future'[Handler(k)] =
           IF k = m THEN "some" ELSE future[Handler(k)]
  BY <1>1, <1>2, <1>3, TasksTyped
     DEF SpawnTask, StateInv, StateTypeOK, ExecTypeOK
<1>6. ASSUME NEW l, NEW x
      PROVE  \A i : i \in InQueue(l, x) <=>
               i \in InQueue(l, x)' \/ (l = link /\ x = source /\ i = m)
  <2>1. \A i \in DOMAIN messages : i \in MessageIds
    BY <1>2, DelaysTyped
  <2> QED BY <1>1, <1>3, <1>5, <2>1 DEF InQueue, UnderWay
<1>7. ASSUME NEW l, NEW x
      PROVE  m \notin InQueue(l, x)'
  BY <1>3, <1>5 DEF InQueue, UnderWay
<1> HIDE DEF link, source
<1>8. CountsShape'
  BY <1>1, <1>2, <1>4 DEF CountsShape
<1>9. ASSUME NEW l \in LinkIds
      PROVE  Counted(Queues(l)', current_message_count'[l], active_queues'[l],
                     announced'[l])
  <2>1. Counted(Queues(l), current_message_count[l], active_queues[l],
                announced[l])
    BY ActiveIsCounted DEF CountsInv, AllCounted
  <2>2. CASE l # link
    <3>1. Queues(l)' = Queues(l)
      <4>1. \A x \in Nodes : InQueue(l, x)' = InQueue(l, x)
        BY <1>6, <2>2
      <4> QED BY <4>1, Zenon DEF Queues
    <3>2. /\ current_message_count'[l] = current_message_count[l]
          /\ active_queues'[l] = active_queues[l]
          /\ announced'[l] = announced[l]
      BY <1>1, <1>2, <2>2 DEF CountsShape
    <3> QED BY <2>1, <3>1, <3>2
  <2>3. CASE l = link
    <3>1. \A x \in Nodes : current_message_count'[l][x] =
            IF x = source THEN current_message_count[l][x] - 1
            ELSE current_message_count[l][x]
      BY <1>1, <1>2, <1>4, <2>3 DEF CountsShape
    <3>2. \A x \in Nodes : InQueue(l, x) =
            IF x = source THEN InQueue(l, x)' \cup {m} ELSE InQueue(l, x)'
      BY <1>6, <2>3
    <3>3. OneMore(Queues(l)', Queues(l), source, m)
      <4>1. m \notin Queues(l)'[source]
        <5>1. \A x \in Nodes : m \notin Queues(l)'[x]
          BY <1>7 DEF Queues
        <5> QED BY <1>4, <5>1
      <4>2. Queues(l) = [x \in Nodes |->
                           IF x = source THEN Queues(l)'[x] \cup {m}
                           ELSE Queues(l)'[x]]
        BY <3>2 DEF Queues
      <4>3. Queues(l)' \in [Nodes -> SUBSET MessageIds]
        <5>1. \A x \in Nodes : InQueue(l, x)' \subseteq InQueue(l, x)
          BY <1>6
        <5>2. \A x \in Nodes : InQueue(l, x) \subseteq MessageIds
          BY <1>2, DelaysTyped DEF InQueue
        <5> QED BY <5>1, <5>2 DEF Queues
      <4>4. Queues(l) = [Queues(l)' EXCEPT ![source] = @ \cup {m}]
        BY <4>2, <4>3
      <4> QED BY <1>3, <4>1, <4>3, <4>4 DEF OneMore
    <3>4. Counted(Queues(l)', current_message_count'[l],
                  IF current_message_count[l][source] = 1
                  THEN active_queues[l] - 1 ELSE active_queues[l],
                  IF current_message_count[l][source] = 1
                     /\ active_queues[l] = 1
                  THEN announced[l] - 1 ELSE announced[l])
      BY <1>4, <2>1, <3>1, <3>3, Lowered
    <3>5. /\ active_queues'[l] =
               IF current_message_count[l][source] = 1
               THEN active_queues[l] - 1 ELSE active_queues[l]
          /\ announced'[l] =
               IF current_message_count[l][source] = 1 /\ active_queues[l] = 1
               THEN announced[l] - 1 ELSE announced[l]
      BY <1>1, <1>2, <1>4, <2>3 DEF CountsShape
    <3> QED BY <3>4, <3>5
  <2> QED BY <2>2, <2>3
<1>10. ActiveWhileUnderWay'
  <2>1. AllCounted'
    BY <1>9, Zenon DEF AllCounted
  <2> QED BY <2>1, ActiveIsCounted, PTL
<1> QED BY <1>8, <1>10

LEMMA CountsNext == CountsInv /\ [Next]_vars => CountsInv'
<1> SUFFICES ASSUME CountsInv, [Next]_vars
             PROVE  CountsInv'
  OBVIOUS
<1>1. StateInv'
  BY StateNext DEF CountsInv
<1>2. CountsShape' /\ ActiveWhileUnderWay'
  BY QuietCases, QuietCounts, SendToCounts, ReceiveCounts DEF CountsInv
<1> QED BY <1>1, <1>2 DEF CountsInv

(***************************************************************************)
(* Whatever is sent over whatever links in whatever order, the counters of *)
(* a link, which many tasks update, agree with the messages under way, and *)
(* the link is announced as active exactly while there is one.             *)
(***************************************************************************)
THEOREM ActivityCorrect == Spec => []ActiveWhileUnderWay
<1>1. Init => CountsInv
  BY StateInit, CountsInit DEF CountsInv
<1>2. CountsInv => ActiveWhileUnderWay
  BY DEF CountsInv
<1> QED BY <1>1, <1>2, CountsNext, PTL DEF Spec

(***************************************************************************)
(* Every variable keeps its type; the unsigned counters of a link in       *)
(* particular never go below zero.                                         *)
(***************************************************************************)
THEOREM TypeCorrect == Spec => []TypeOK
<1>1. Init => CountsInv
  BY StateInit, CountsInit DEF CountsInv
<1>2. CountsInv => TypeOK
  <2> SUFFICES ASSUME CountsInv PROVE TypeOK
    OBVIOUS
  <2>1. ASSUME NEW l \in LinkIds, NEW n \in Nodes
        PROVE  IsFiniteSet(InQueue(l, n))
    <3>1. InQueue(l, n) \subseteq MessageIds
      BY DelaysTyped DEF CountsInv, InQueue
    <3>2. IsFiniteSet(MessageIds)
      BY NetworkAssumption, FS_Interval DEF MessageIds
    <3> QED BY <3>1, <3>2, FS_Subset
  <2>2. \A l \in LinkIds, n \in Nodes : current_message_count[l][n] \in Nat
    BY <2>1, FS_CardinalityType DEF CountsInv, ActiveWhileUnderWay
  <2>3. \A l \in LinkIds : active_queues[l] \in Nat
    <3> SUFFICES ASSUME NEW l \in LinkIds PROVE active_queues[l] \in Nat
      OBVIOUS
    <3>1. IsFiniteSet({n \in Nodes : InQueue(l, n) # {}})
      BY NetworkAssumption, FS_Subset
    <3> QED BY <3>1, FS_CardinalityType DEF CountsInv, ActiveWhileUnderWay
  <2>4. \A l \in LinkIds : announced[l] \in {0, 1}
    BY DEF CountsInv, ActiveWhileUnderWay
  <2>5. /\ current_message_count \in [LinkIds -> [Nodes -> Nat]]
        /\ active_queues \in [LinkIds -> Nat]
        /\ announced \in [LinkIds -> {0, 1}]
    BY <2>2, <2>3, <2>4 DEF CountsInv, CountsShape
  <2> QED BY <2>5 DEF TypeOK, CountsInv, StateInv
<1> QED BY <1>1, <1>2, CountsNext, PTL DEF Spec

-----------------------------------------------------------------------------
(* The heap inside the network.                                            *)

(* e is one of the events in h.                                            *)
Holds(h, e) == \E i \in 1 .. Len(h) : h[i] = e

(* A push adds its event to those in the heap, ...                         *)
LEMMA PushHolds ==
  ASSUME NEW h \in Seq(Events), NEW e \in Events, Ordered(h)
  PROVE  \A x : Holds(HeapPush(h, e), x) <=> Holds(h, x) \/ x = e
<1>1. PICK g \in Seq(Events) : g = HeapPush(h, e)
  BY PushCorrect
<1>2. \A x : HeapCount(g, x) = HeapCount(h, x) + (IF x = e THEN 1 ELSE 0)
  BY <1>1, PushCorrect
<1> SUFFICES ASSUME NEW x
             PROVE  Holds(g, x) <=> Holds(h, x) \/ x = e
  BY <1>1
<1>3. /\ HeapCount(g, x) \in Nat
      /\ HeapCount(g, x) > 0 <=> Holds(g, x)
  BY HeapCountType DEF Holds
<1>4. /\ HeapCount(h, x) \in Nat
      /\ HeapCount(h, x) > 0 <=> Holds(h, x)
  BY HeapCountType DEF Holds
<1> QED BY <1>2, <1>3, <1>4

(* ... and a pop takes away its root at most.                              *)
LEMMA PopHolds ==
  ASSUME NEW h \in Seq(Events), h # <<>>, Ordered(h)
  PROVE  /\ \A x : Holds(HeapPop(h), x) => Holds(h, x)
         /\ \A x : Holds(h, x) => x = h[1] \/ Holds(HeapPop(h), x)
<1>1. PICK g \in Seq(Events) : g = HeapPop(h)
  BY PopCorrect
<1>2. \A x : HeapCount(g, x) = HeapCount(h, x) - (IF x = h[1] THEN 1 ELSE 0)
  BY <1>1, PopCorrect
<1> SUFFICES ASSUME NEW x
             PROVE  /\ Holds(g, x) => Holds(h, x)
                    /\ Holds(h, x) => x = h[1] \/ Holds(g, x)
  BY <1>1
<1>3. /\ HeapCount(g, x) \in Nat
      /\ HeapCount(g, x) > 0 <=> Holds(g, x)
  BY HeapCountType DEF Holds
<1>4. /\ HeapCount(h, x) \in Nat
      /\ HeapCount(h, x) > 0 <=> Holds(h, x)
  BY HeapCountType DEF Holds
<1> QED BY <1>2, <1>3, <1>4

(* Every step of the network is one of the timer or leaves it alone.       *)
LEMMA HeapCases == StateInv /\ [Next]_vars => [HeapNext]_heapVars
<1> SUFFICES ASSUME StateInv, [Next]_vars, ~UNCHANGED heapVars
             PROVE  HeapNext
  OBVIOUS
<1>1. \/ Advance
      \/ \E m \in DOMAIN messages : DeliverPending(m)
      \/ \E n \in Nodes : TransferPending(n)
  BY DEF Next, ExecStep, Program, DeliveryStep, InboxStep, Execute, BeginPoll,
         NewNode, DisconnectAll, Connect, Send, Broadcast, SendTo, EndHandler,
         Deliver, RecvPending, Recv, Receive, vars, heapVars
<1>2. CASE Advance
  BY <1>2 DEF Advance, HeapNext
<1>3. CASE ~Advance
  <2>1. PICK t \in Tasks, d \in Int : SleepPending(t, d)
    BY <1>1, <1>3, Sleeper
  <2>2. [wake_time |-> WakeTime(t, d), task |-> t] \in Events
    BY <2>1, SleepEvent DEF StateInv
  <2> QED BY <2>1, <2>2 DEF SleepPending, HeapNext
<1> QED BY <1>2, <1>3

(* So the heap of the network is the heap whose order is proved.           *)
LEMMA NetHeapNext ==
  StateInv /\ Ordered(heap) /\ [Next]_vars => Ordered(heap)'
<1> SUFFICES ASSUME StateInv, Ordered(heap), [Next]_vars
             PROVE  Ordered(heap)'
  OBVIOUS
<1>1. HeapInv
  BY DEF HeapInv, StateInv, StateTypeOK
<1>2. HeapInv'
  BY <1>1, HeapCases, HeapInvNext
<1> QED BY <1>2 DEF HeapInv

-----------------------------------------------------------------------------
(* What a step does to the tasks.                                          *)

LEMMA TasksDiffer ==
  /\ \A n \in Nodes, m \in MessageIds : InboxLoop(n) # Delivery(m)
  /\ \A n, p \in Nodes : InboxLoop(n) = InboxLoop(p) => n = p
  /\ \A k, m \in MessageIds : Delivery(k) = Delivery(m) => k = m
BY DEF InboxLoop, Delivery

(* Some queue or event refers to t.                                        *)
Waits(t) == Queued(t) \/ \E i \in DOMAIN heap : heap[i].task = t

(* Whoever waits goes on waiting.                                          *)
StillWaits == \A t \in Tasks : Waits(t) => Waits(t)'

LEMMA SameWaits ==
  ASSUME \A t \in Tasks : Queued(t) => Queued(t)', UNCHANGED heap
  PROVE  StillWaits
BY DEF StillWaits, Waits

(* A push keeps the events of all tasks and adds one of the sleeper.       *)
LEMMA SleepWaits ==
  ASSUME StateInv, Ordered(heap), NEW t \in Tasks, NEW d \in Int,
         SleepPending(t, d)
  PROVE  StillWaits /\ Waits(t)'
<1> DEFINE e == [wake_time |-> WakeTime(t, d), task |-> t]
<1>1. e \in Events /\ e.task = t
  BY SleepEvent DEF StateInv
<1>2. heap' = HeapPush(heap, e) /\ UNCHANGED <<ready, batch>>
  BY DEF SleepPending, Push, ReturnPending
<1> HIDE DEF e
<1>3. heap \in Seq(Events) /\ heap' \in Seq(Events)
  BY <1>1, <1>2, PushCorrect DEF StateInv, StateTypeOK
<1>4. DOMAIN heap = 1 .. Len(heap) /\ DOMAIN (heap') = 1 .. Len(heap')
  BY <1>3, LenProperties
<1>5. \A x : Holds(heap', x) <=> Holds(heap, x) \/ x = e
  BY <1>1, <1>2, <1>3, PushHolds
<1>6. \A u \in Tasks : Queued(u)' <=> Queued(u)
  BY <1>2, SameQueued
<1>7. ASSUME NEW i \in DOMAIN heap
      PROVE  \E j \in DOMAIN heap' : heap'[j].task = heap[i].task
  BY <1>4, <1>5 DEF Holds
<1>8. \E j \in DOMAIN heap' : heap'[j].task = t
  BY <1>1, <1>4, <1>5 DEF Holds
<1> QED BY <1>6, <1>7, <1>8 DEF StillWaits, Waits

(* A pop queues the task whose event it takes.                             *)
LEMMA AdvanceWaits ==
  ASSUME StateInv, Ordered(heap), Advance
  PROVE  StillWaits
<1>1. /\ heap # <<>> /\ heap' = HeapPop(heap)
      /\ Wake(heap[1].task) /\ UNCHANGED batch
  BY DEF Advance, Pop
<1>2. heap \in Seq(Events) /\ heap' \in Seq(Events)
  BY <1>1, PopCorrect DEF StateInv, StateTypeOK
<1>3. heap[1] \in Events
  BY <1>1, <1>2
<1>4. DOMAIN heap = 1 .. Len(heap) /\ DOMAIN (heap') = 1 .. Len(heap')
  BY <1>2, LenProperties
<1>5. \A x : Holds(heap, x) => x = heap[1] \/ Holds(heap', x)
  BY <1>1, <1>2, PopHolds
<1>6. \A u \in Tasks : Queued(u)' <=> Queued(u) \/ u = heap[1].task
  <2>1. heap[1].task \in Tasks
    BY <1>3 DEF Events
  <2>2. ExecTypeOK
    BY DEF StateInv, StateTypeOK
  <2> QED BY <1>1, <2>1, <2>2, WakeQueued
<1>7. ASSUME NEW i \in DOMAIN heap
      PROVE  \/ heap[i].task = heap[1].task
             \/ \E j \in DOMAIN heap' : heap'[j].task = heap[i].task
  BY <1>4, <1>5 DEF Holds
<1> QED BY <1>6, <1>7 DEF StillWaits, Waits

(* A send leaves a delivery task for each new message, ready to run, to a  *)
(* peer that the sender has a link to.                                     *)
Spawned(n) ==
  /\ \A m \in DOMAIN messages' \ DOMAIN messages :
       /\ messages'[m].dest \in Nodes
       /\ network_links[n][messages'[m].dest] # 0
       /\ messages'[m].sent = now
       /\ future'[Delivery(m)] = "some"
       /\ Queued(Delivery(m))'
  /\ \A t \in Tasks :
       \/ future'[t] = future[t]
       \/ \E m \in DOMAIN messages' \ DOMAIN messages : t = Delivery(m)
  /\ \A t \in Tasks : Queued(t) => Queued(t)'
  /\ UNCHANGED <<running, heap>>

LEMMA SendToSpawns ==
  ASSUME StateInv, NEW n \in Nodes, NEW peers, Peers(n, peers),
         NEW size \in Sizes, SendTo(n, peers, size)
  PROVE  Spawned(n)
<1> DEFINE new == [i \in DOMAIN peers |->
                     [link |-> network_links[n][peers[i]], source |-> n,
                      dest |-> peers[i], size |-> size, sent |-> now]]
           spawned == [i \in DOMAIN peers |-> Delivery(Len(messages) + i)]
<1>1. /\ Len(messages) + Len(peers) <= MaxMessages
      /\ messages' = messages \o new
      /\ ready' = ready \o spawned
      /\ future' = [t \in Tasks |-> IF t \in ToSet(spawned) THEN "some"
                                    ELSE future[t]]
      /\ UNCHANGED <<batch, running, heap>>
  BY DEF SendTo, heapVars
<1>2. /\ Len(peers) \in Nat /\ DOMAIN peers = 1 .. Len(peers)
      /\ Len(messages) \in Nat /\ DOMAIN messages = 1 .. Len(messages)
      /\ Len(ready) \in Nat /\ DOMAIN ready = 1 .. Len(ready)
      /\ \A i \in DOMAIN peers : peers[i] \in Nodes
  BY LenProperties, ElementOfSeq DEF Peers, StateInv, StateTypeOK, ExecTypeOK
<1>3. Sent(n, peers)
  BY SendToSends
<1>4. \A i \in DOMAIN peers : /\ Len(messages) + i \in MessageIds
                              /\ Delivery(Len(messages) + i) \in Tasks
  BY <1>3, TasksTyped DEF Sent
<1>5. /\ Len(new) = Len(peers) /\ DOMAIN new = DOMAIN peers
      /\ Len(spawned) = Len(peers) /\ DOMAIN spawned = DOMAIN peers
  BY <1>2
<1>6. \A j \in DOMAIN peers : messages'[Len(messages) + j] = new[j]
  <2> HIDE DEF new, spawned
  <2> QED BY <1>1, <1>2, <1>5
<1>7. DOMAIN ready' = 1 .. Len(ready) + Len(peers)
  BY <1>1, <1>2, <1>5
<1>8. \A i \in DOMAIN ready : ready'[i] = ready[i]
  BY <1>1, <1>2, <1>5
<1>9. \A j \in DOMAIN peers : ready'[Len(ready) + j] = spawned[j]
  BY <1>1, <1>2, <1>5
<1>10. \A j \in DOMAIN peers :
         /\ new[j].dest = peers[j] /\ new[j].sent = now
         /\ spawned[j] = Delivery(Len(messages) + j)
  OBVIOUS
<1>11. \A t : t \in ToSet(spawned) <=> \E j \in DOMAIN peers : t = spawned[j]
  BY <1>5 DEF ToSet
<1> HIDE DEF new, spawned
<1>12. \A t \in Tasks : Queued(t) => Queued(t)'
  BY <1>1, <1>2, <1>7, <1>8 DEF Queued, Range
<1>13. ASSUME NEW m \in DOMAIN messages' \ DOMAIN messages
       PROVE  /\ messages'[m].dest \in Nodes
              /\ network_links[n][messages'[m].dest] # 0
              /\ messages'[m].sent = now
              /\ future'[Delivery(m)] = "some"
              /\ Queued(Delivery(m))'
  <2>1. PICK j \in DOMAIN peers : m = Len(messages) + j
    BY <1>3 DEF Sent
  <2>2. messages'[m].dest = peers[j] /\ messages'[m].sent = now
    BY <1>6, <1>10, <2>1
  <2>3. future'[Delivery(m)] = "some"
    BY <1>1, <1>4, <1>10, <1>11, <2>1
  <2>4. Queued(Delivery(m))'
    <3>1. Len(ready) + j \in DOMAIN ready' /\ ready'[Len(ready) + j] = Delivery(m)
      BY <1>2, <1>7, <1>9, <1>10, <2>1
    <3> QED BY <3>1 DEF Queued, Range
  <2> QED BY <1>2, <2>1, <2>2, <2>3, <2>4 DEF Peers
<1>14. ASSUME NEW t \in Tasks, t \in ToSet(spawned)
       PROVE  \E m \in DOMAIN messages' \ DOMAIN messages : t = Delivery(m)
  BY <1>3, <1>10, <1>11, <1>14 DEF Sent
<1> QED BY <1>1, <1>12, <1>13, <1>14 DEF Spawned

(* The steps of the network, as the executor sees them.                    *)
LEMMA StepKinds ==
  ASSUME StateInv, Ordered(heap), [Next]_vars
  PROVE  \/ BeginPoll
         \/ StillWaits /\ UNCHANGED <<running, future>>
         \/ \E n \in Nodes, s \in Sizes : \E peers :
              Peers(n, peers) /\ SendTo(n, peers, s)
         \/ \E t \in Tasks :
              /\ \A m \in MessageIds : t # Delivery(m)
              /\ SpawnTask(t) /\ StillWaits
         \/ \E t \in Tasks : ReturnPending(t) /\ StillWaits
         \/ \E m \in DOMAIN messages :
              ReturnReady(Handler(m)) /\ StillWaits
         \/ \E m \in DOMAIN messages : Deliver(m) /\ StillWaits
<1>0. ExecTypeOK
  BY DEF StateInv, StateTypeOK
<1>1. CASE ExecStep
  <2>1. CASE Execute
    <3>1. \A u \in Tasks : Queued(u)' <=> Queued(u)
      BY <1>0, <2>1, TakeQueued DEF Execute
    <3> QED BY <2>1, <3>1, SameWaits DEF Execute, TakeReady, heapVars
  <2> QED BY <1>1, <2>1 DEF ExecStep
<1>2. CASE Advance
  BY <1>2, AdvanceWaits DEF Advance
<1>3. ASSUME NEW t \in Tasks, SpawnTask(t), UNCHANGED heap
      PROVE  StillWaits
  <2>1. \A u \in Tasks : Queued(u)' <=> Queued(u) \/ u = t
    BY <1>0, <1>3, WakeQueued DEF SpawnTask
  <2> QED BY <1>3, <2>1, SameWaits
<1>4. ASSUME UNCHANGED <<ready, batch, heap>>
      PROVE  StillWaits
  BY <1>4, SameQueued, SameWaits
<1>5. CASE Program
  <2>1. ASSUME NEW n \in Nodes, NewNode(n)
        PROVE  \E t \in Tasks :
                 /\ \A m \in MessageIds : t # Delivery(m)
                 /\ SpawnTask(t) /\ StillWaits
    BY <1>3, <2>1, TasksTyped, TasksDiffer DEF NewNode, heapVars
  <2>2. ASSUME NEW n \in Nodes, DisconnectAll(n)
        PROVE  StillWaits /\ UNCHANGED <<running, future>>
    BY <1>4, <2>2 DEF DisconnectAll, execVars, heapVars
  <2>3. ASSUME NEW a, NEW b, NEW d, Connect(a, b, d)
        PROVE  StillWaits /\ UNCHANGED <<running, future>>
    BY <1>4, <2>3 DEF Connect, execVars, heapVars
  <2> QED BY <1>5, <2>1, <2>2, <2>3, SendCases
<1>6. CASE \/ \E m \in DOMAIN messages : DeliverPending(m)
           \/ \E n \in Nodes : TransferPending(n)
  <2>1. PICK t \in Tasks, d \in Int : SleepPending(t, d)
    BY <1>6, Sleeper
  <2> QED BY <2>1, SleepWaits DEF SleepPending
<1>7. ASSUME NEW m \in DOMAIN messages, Deliver(m)
      PROVE  StillWaits
  <2>1. messages[m].dest \in Nodes
    BY DelaysTyped DEF Messages
  <2>2. \A u \in Tasks : Queued(u) => Queued(u)'
    <3>1. InboxLoop(messages[m].dest) \in Tasks
      BY <2>1, TasksTyped
    <3>2. UNCHANGED batch
      BY <1>7 DEF Deliver, ReturnReady
    <3>3. CASE Wake(InboxLoop(messages[m].dest))
      BY <1>0, <3>1, <3>2, <3>3, WakeQueued
    <3>4. CASE UNCHANGED ready
      BY <3>2, <3>4, SameQueued
    <3> QED BY <1>7, <3>3, <3>4 DEF Deliver, ChannelSend
  <2> QED BY <1>7, <2>2, SameWaits DEF Deliver, heapVars
<1>8. ASSUME NEW m \in DOMAIN messages, EndHandler(m)
      PROVE  ReturnReady(Handler(m)) /\ StillWaits
  BY <1>4, <1>8 DEF EndHandler, ReturnReady, heapVars
<1>9. ASSUME NEW n \in Nodes, RecvPending(n)
      PROVE  ReturnPending(InboxLoop(n)) /\ StillWaits
  BY <1>4, <1>9 DEF RecvPending, ReturnPending, heapVars
<1>10. ASSUME NEW n \in Nodes, Recv(n)
       PROVE  StillWaits /\ UNCHANGED <<running, future>>
  BY <1>4, <1>10 DEF Recv, execVars, heapVars
<1>11. ASSUME NEW n \in Nodes, Receive(n)
       PROVE  \E t \in Tasks :
                /\ \A m \in MessageIds : t # Delivery(m)
                /\ SpawnTask(t) /\ StillWaits
  <2>1. Head(drained[n]) \in MessageIds
    BY <1>11 DEF Receive, StateInv, StateTypeOK
  <2>2. SpawnTask(Handler(Head(drained[n]))) /\ UNCHANGED heap
    BY <1>11 DEF Receive, heapVars
  <2> QED BY <1>3, <2>1, <2>2, TasksTyped
<1>12. CASE UNCHANGED vars
  BY <1>4, <1>12 DEF vars
<1> QED
  BY <1>1, <1>2, <1>5, <1>6, <1>7, <1>8, <1>9, <1>10, <1>11, <1>12, TasksTyped
     DEF Next, DeliveryStep, InboxStep

(* A task that was spawned stays spawned.                                  *)
LEMMA StaysBorn ==
  ASSUME StateInv, Ordered(heap), [Next]_vars
  PROVE  \A t \in Tasks : future[t] # "unborn" => future'[t] # "unborn"
<1>1. future \in [Tasks -> FutureStates]
  BY DEF StateInv, StateTypeOK, ExecTypeOK
<1>2. CASE BeginPoll
  BY <1>1, <1>2 DEF BeginPoll, PollNext
<1>3. ASSUME NEW t \in Tasks, SpawnTask(t) \/ ReturnPending(t)
      PROVE  \A u \in Tasks : future[u] # "unborn" => future'[u] # "unborn"
  BY <1>1, <1>3 DEF SpawnTask, ReturnPending
<1>4. ASSUME NEW n \in Nodes, NEW s \in Sizes, NEW peers, SendTo(n, peers, s)
      PROVE  \A u \in Tasks : future[u] # "unborn" => future'[u] # "unborn"
  <2>1. PICK spawned :
          future' = [u \in Tasks |-> IF u \in spawned THEN "some" ELSE future[u]]
    BY <1>4 DEF SendTo
  <2> QED BY <2>1
<1>5. ASSUME NEW t, ReturnReady(t)
      PROVE  future' = future
  BY <1>5 DEF ReturnReady
<1>6. ASSUME NEW m, Deliver(m)
      PROVE  future' = future
  BY <1>5, <1>6 DEF Deliver
<1> QED BY <1>2, <1>3, <1>4, <1>5, <1>6, StepKinds

(* A task that will run has run or will still run after a step: no event   *)
(* is popped without a wake and no queue is emptied without a poll.        *)
LEMMA WillRunNext ==
  ASSUME StateInv, Ordered(heap), [Next]_vars, NEW t \in Tasks,
         WillRun(t), running = t => running' = t
  PROVE  WillRun(t)'
<1> USE DEF WillRun, Waits, StillWaits
<1>1. running = t \/ Waits(t)
  OBVIOUS
<1>2. running' = t \/ Waits(t)' => WillRun(t)'
  OBVIOUS
<1>3. CASE StillWaits
  BY <1>1, <1>2, <1>3
<1>4. CASE BeginPoll
  <2>1. /\ running = None /\ running' = Head(batch)
        /\ batch # <<>> /\ batch' = Tail(batch)
        /\ UNCHANGED <<ready, heap>>
    BY <1>4 DEF BeginPoll, PollNext, heapVars
  <2>2. Queued(t) <=> Queued(t)' \/ t = Head(batch)
    BY <2>1, DequeueQueued DEF StateInv, StateTypeOK
  <2> QED BY <1>1, <1>2, <2>1, <2>2
<1>5. ASSUME NEW n \in Nodes, NEW s \in Sizes, NEW peers, Peers(n, peers),
             SendTo(n, peers, s)
      PROVE  StillWaits
  BY <1>5, SendToSpawns, SameWaits DEF Spawned
<1> QED BY <1>3, <1>4, <1>5, StepKinds

(* A task is polled with its future taken out, a message that was not sent *)
(* has no delivery task, and whoever has a link or is sent a message has   *)
(* an inbox loop.                                                          *)
PollInv ==
  /\ \A t \in Tasks : running = t => future[t] = "none"
  /\ \A m \in MessageIds \ DOMAIN messages : future[Delivery(m)] = "unborn"
  /\ \A a, b \in Nodes : network_links[a][b] # 0 => Exists(a) /\ Exists(b)
  /\ \A m \in DOMAIN messages : Exists(messages[m].dest)

BaseInv == StateInv /\ Ordered(heap) /\ PollInv

(* Only a send adds a message.                                             *)
LEMMA MessageCases ==
  ASSUME StateInv, [Next]_vars
  PROVE  \/ UNCHANGED messages
         \/ \E n \in Nodes, s \in Sizes : \E peers :
              Peers(n, peers) /\ SendTo(n, peers, s)
BY QuietCases DEF Receive

LEMMA PollingNext ==
  ASSUME BaseInv, [Next]_vars
  PROVE  /\ \A t \in Tasks : running' = t => future'[t] = "none"
         /\ \A m \in MessageIds \ DOMAIN messages' :
              future'[Delivery(m)] = "unborn"
<1> DEFINE Polled == \A t \in Tasks : running' = t => future'[t] = "none"
           Unsent == \A m \in MessageIds \ DOMAIN messages :
                       future'[Delivery(m)] = "unborn"
<1>1. /\ future \in [Tasks -> FutureStates] /\ None \notin Tasks
      /\ running \in Tasks \cup {None}
      /\ \A t \in Tasks : running = t => future[t] = "none"
      /\ \A m \in MessageIds \ DOMAIN messages : future[Delivery(m)] = "unborn"
      /\ \A m \in MessageIds : Delivery(m) \in Tasks
  BY NoneAssumption, TasksTyped
     DEF BaseInv, PollInv, StateInv, StateTypeOK, ExecTypeOK
<1>2. CASE BeginPoll
  BY <1>1, <1>2 DEF BeginPoll, PollNext
<1>3. ASSUME NEW t \in Tasks, SpawnTask(t), \A m \in MessageIds : t # Delivery(m)
      PROVE  Polled /\ Unsent
  BY <1>1, <1>3 DEF SpawnTask
<1>4. ASSUME NEW t \in Tasks, ReturnPending(t) \/ ReturnReady(t)
      PROVE  Polled /\ Unsent
  BY <1>1, <1>4 DEF ReturnPending, ReturnReady
<1>5. ASSUME NEW m \in DOMAIN messages, Deliver(m) \/ ReturnReady(Handler(m))
      PROVE  Polled /\ Unsent
  <2>1. Delivery(m) \in Tasks /\ Handler(m) \in Tasks
    BY TasksTyped, DelaysTyped DEF BaseInv
  <2> QED BY <1>4, <1>5, <2>1 DEF Deliver
<1>6. ASSUME UNCHANGED <<running, future>>
      PROVE  Polled /\ Unsent
  BY <1>1, <1>6
<1>7. ASSUME NEW n \in Nodes, NEW s \in Sizes, NEW peers, Peers(n, peers),
             SendTo(n, peers, s)
      PROVE  /\ Polled
             /\ \A m \in MessageIds \ DOMAIN messages' :
                  future'[Delivery(m)] = "unborn"
  <2>1. /\ UNCHANGED running
        /\ \A t \in Tasks :
             \/ future'[t] = future[t]
             \/ \E m \in DOMAIN messages' \ DOMAIN messages : t = Delivery(m)
    BY <1>7, SendToSpawns DEF Spawned, BaseInv
  <2>2. /\ DOMAIN messages \subseteq DOMAIN messages'
        /\ DOMAIN messages' \subseteq MessageIds
    BY <1>7, SendToSends DEF Sent, BaseInv
  <2>3. Polled
    BY <1>1, <2>1, <2>2
  <2>4. ASSUME NEW m \in MessageIds \ DOMAIN messages'
        PROVE  future'[Delivery(m)] = "unborn"
    BY <1>1, <2>1, <2>2, TasksDiffer
  <2> QED BY <2>3, <2>4
<1>8. StateInv /\ Ordered(heap)
  BY DEF BaseInv
<1> HIDE DEF Polled, Unsent
<1>9. \/ Polled /\ Unsent
      \/ \E n \in Nodes, s \in Sizes : \E peers :
           Peers(n, peers) /\ SendTo(n, peers, s)
  <2>1. BeginPoll => Polled /\ Unsent
    BY <1>1, <1>2 DEF BeginPoll, PollNext, Polled, Unsent
  <2> QED BY <1>3, <1>4, <1>5, <1>6, <1>8, <2>1, StepKinds
<1> QED BY <1>7, <1>8, <1>9, MessageCases DEF Polled, Unsent

LEMMA PollInvNext ==
  ASSUME BaseInv, [Next]_vars
  PROVE  PollInv'
<1>1. StateInv /\ Ordered(heap) /\ PollInv
  BY DEF BaseInv
<1> DEFINE Born(n) == future'[InboxLoop(n)] # "unborn"
<1>2. \A n \in Nodes : Exists(n) => Born(n)
  BY <1>1, StaysBorn, TasksTyped DEF Exists
<1> HIDE DEF Born
<1>3. ASSUME NEW a \in Nodes, NEW b \in Nodes, network_links'[a][b] # 0
      PROVE  Exists(a) /\ Exists(b)
  <2>1. network_links \in [Nodes -> [Nodes -> 0 .. MaxLinks]]
    BY <1>1 DEF StateInv, StateTypeOK
  <2>2. CASE network_links[a][b] # 0
    BY <1>1, <2>2 DEF PollInv
  <2>3. CASE network_links[a][b] = 0
    <3>1. ~UNCHANGED topology /\ ~\E n \in Nodes : DisconnectAll(n)
      BY <1>3, <2>1, <2>3 DEF topology, DisconnectAll
    <3>2. PICK x \in Nodes, y \in Nodes, d \in Latencies : Connect(x, y, d)
      BY <3>1, TopologyCases
    <3>3. Exists(x) /\ Exists(y)
      BY <3>2 DEF Connect
    <3>4. {a, b} = {x, y}
      BY <1>3, <2>1, <2>3, <3>2 DEF Connect, AddLinks
    <3> QED BY <3>3, <3>4
  <2> QED BY <2>2, <2>3
<1>4. \A m \in DOMAIN messages' : Born(messages'[m].dest)
  <2>1. ASSUME NEW n \in Nodes, NEW s \in Sizes, NEW peers, Peers(n, peers),
               SendTo(n, peers, s)
        PROVE  \A m \in DOMAIN messages' : Born(messages'[m].dest)
    <3> SUFFICES ASSUME NEW m \in DOMAIN messages'
                 PROVE  Born(messages'[m].dest)
      OBVIOUS
    <3>1. CASE m \in DOMAIN messages
      BY <1>1, <1>2, <2>1, <3>1, SendToSends, DelaysTyped
         DEF Sent, PollInv, Messages
    <3>2. CASE m \notin DOMAIN messages
      BY <1>1, <1>2, <2>1, <3>2, SendToSpawns DEF Spawned, PollInv
    <3> QED BY <3>1, <3>2
  <2>2. CASE UNCHANGED messages
    BY <1>1, <1>2, <2>2, DelaysTyped DEF PollInv, Messages
  <2> QED BY <1>1, <2>1, <2>2, MessageCases
<1>5. \A a, b \in Nodes :
        network_links'[a][b] # 0 => Born(a) /\ Born(b)
  BY <1>2, <1>3
<1> QED BY <1>4, <1>5, PollingNext DEF PollInv, Exists, Born

-----------------------------------------------------------------------------
(* Where a message is.                                                     *)

(* No message is twice in a list.                                          *)
Once(q) == \A i, j \in DOMAIN q : q[i] = q[j] => i = j

LEMMA AppendOnce ==
  ASSUME NEW S, NEW s \in Seq(S), NEW e \in S, Once(s), e \notin Range(s)
  PROVE  Once(Append(s, e))
<1>1. PICK g : g = Append(s, e)
  OBVIOUS
<1>2. /\ DOMAIN g = DOMAIN s \cup {Len(s) + 1}
      /\ \A i \in DOMAIN s : g[i] = s[i]
      /\ g[Len(s) + 1] = e
  BY <1>1, AppendElements
<1>3. \A i \in DOMAIN s : s[i] # e
  BY DEF Range
<1>4. Once(g)
  BY <1>2, <1>3 DEF Once
<1> QED BY <1>1, <1>4

LEMMA TailOnce ==
  ASSUME NEW S, NEW s \in Seq(S), s # <<>>, Once(s)
  PROVE  Once(Tail(s)) /\ Head(s) \notin Range(Tail(s))
<1>1. PICK r : r = Tail(s)
  OBVIOUS
<1>2. /\ 1 \in DOMAIN s /\ Head(s) = s[1]
      /\ DOMAIN s \subseteq Nat
      /\ \A i \in DOMAIN r : i + 1 \in DOMAIN s /\ i + 1 # 1 /\ r[i] = s[i + 1]
  BY <1>1, TailElements
<1>3. r \in Seq(S)
  BY <1>1, TailElements
<1>4. DOMAIN r \subseteq Nat
  BY <1>3
<1>5. Once(r)
  BY <1>2, <1>4 DEF Once
<1>6. Head(s) \notin Range(r)
  BY <1>2 DEF Once, Range
<1> QED BY <1>1, <1>5, <1>6

(* The delivery task of m has it, the channel, the inbox loop, or the      *)
(* handler.                                                                *)
Travels(m) == future[Delivery(m)] = "some" \/ running = Delivery(m)

InInbox(m) == m \in Range(inbox[messages[m].dest])

InLoop(m) == m \in Range(drained[messages[m].dest])

Handed(m) == future[Handler(m)] # "unborn"

OnePlace(m) ==
  /\ Travels(m) \/ InInbox(m) \/ InLoop(m) \/ Handed(m)
  /\ Travels(m) => ~InInbox(m) /\ ~InLoop(m) /\ ~Handed(m)
  /\ InInbox(m) => ~InLoop(m) /\ ~Handed(m)
  /\ InLoop(m) => ~Handed(m)

(* The list q of node n has its messages only, each once.                  *)
ListOf(n, q) == Once(q) /\ \A m \in Range(q) : messages[m].dest = n

PlaceInv ==
  /\ \A n \in Nodes : ListOf(n, inbox[n]) /\ ListOf(n, drained[n])
  /\ \A m \in DOMAIN messages : OnePlace(m)

LEMMA ListsTyped ==
  ASSUME StateInv, NEW n \in Nodes
  PROVE  /\ inbox[n] \in Seq(MessageIds)
         /\ drained[n] \in Seq(MessageIds)
         /\ Range(inbox[n]) \subseteq DOMAIN messages
         /\ Range(drained[n]) \subseteq DOMAIN messages
BY DEF StateInv, StateTypeOK, MessagesKnown, Range

Sends == \E n \in Nodes, s \in Sizes : \E peers :
           Peers(n, peers) /\ SendTo(n, peers, s)

(* Four steps move a message.                                              *)
Moves ==
  \/ Sends
  \/ \E m \in DOMAIN messages : Deliver(m)
  \/ \E n \in Nodes : Recv(n) \/ Receive(n)

LEMMA MoveCases ==
  ASSUME BaseInv, [Next]_vars, ~Moves
  PROVE  /\ UNCHANGED <<messages, inbox, drained>>
         /\ \A m \in MessageIds : /\ Travels(m)' <=> Travels(m)
                                  /\ Handed(m)' <=> Handed(m)
<1>1. StateInv /\ Ordered(heap) /\ PollInv
  BY DEF BaseInv
<1>2. /\ UNCHANGED messages
      /\ \A m \in MessageIds : Handed(m)' <=> Handed(m)
  BY <1>1, QuietCases DEF Moves, Sends, Handed
<1>3. UNCHANGED <<inbox, drained>>
  <2>1. CASE Program
    BY <1>1, <2>1, SendCases
       DEF Moves, Sends, NewNode, DisconnectAll, Connect, inboxVars
  <2> QED
    BY <2>1 DEF Moves, Next, ExecStep, DeliveryStep, InboxStep, Execute,
                BeginPoll, Advance, EndHandler, DeliverPending, RecvPending,
                TransferPending, SleepPending, inboxVars, vars
<1>4. \A m \in MessageIds : Travels(m)' <=> Travels(m)
  <2> SUFFICES ASSUME NEW m \in MessageIds
               PROVE  Travels(m)' <=> Travels(m)
    OBVIOUS
  <2>1. /\ future \in [Tasks -> FutureStates] /\ None \notin Tasks
        /\ Delivery(m) \in Tasks
    BY <1>1, NoneAssumption, TasksTyped DEF StateInv, StateTypeOK, ExecTypeOK
  <2>2. CASE BeginPoll
    BY <2>1, <2>2 DEF BeginPoll, PollNext, Travels
  <2>3. ASSUME NEW t \in Tasks, SpawnTask(t), t # Delivery(m)
        PROVE  Travels(m)' <=> Travels(m)
    BY <2>1, <2>3 DEF SpawnTask, Travels
  <2>4. ASSUME NEW t \in Tasks, ReturnPending(t)
        PROVE  Travels(m)' <=> Travels(m)
    BY <2>1, <2>4 DEF ReturnPending, Travels
  <2>5. ASSUME NEW k \in DOMAIN messages, ReturnReady(Handler(k))
        PROVE  Travels(m)' <=> Travels(m)
    <3>1. Handler(k) # Delivery(m)
      BY <1>1, TasksTyped, DelaysTyped
    <3> QED BY <2>1, <2>5, <3>1 DEF ReturnReady, Travels
  <2>6. ASSUME UNCHANGED <<running, future>>
        PROVE  Travels(m)' <=> Travels(m)
    BY <2>6 DEF Travels
  <2> QED
    BY <1>1, <2>2, <2>3, <2>4, <2>5, <2>6, StepKinds DEF Moves, Sends
<1> QED BY <1>2, <1>3, <1>4

(* A step that moves none leaves each where it is.                         *)
LEMMA QuietPlaces ==
  ASSUME BaseInv, PlaceInv, UNCHANGED <<messages, inbox, drained>>,
         \A m \in MessageIds : /\ Travels(m)' <=> Travels(m)
                               /\ Handed(m)' <=> Handed(m)
  PROVE  PlaceInv'
<1>1. \A m \in DOMAIN messages : m \in MessageIds
  BY DelaysTyped DEF BaseInv
<1>2. \A m \in DOMAIN messages : OnePlace(m)'
  BY <1>1 DEF PlaceInv, OnePlace, InInbox, InLoop
<1> QED BY <1>2 DEF PlaceInv, ListOf

(* New messages start with their delivery tasks.                           *)
LEMMA SendToPlaces ==
  ASSUME BaseInv, PlaceInv, NEW n \in Nodes, NEW peers, Peers(n, peers),
         NEW size \in Sizes, SendTo(n, peers, size)
  PROVE  PlaceInv'
<1>1. StateInv /\ PollInv
  BY DEF BaseInv
<1>2. Sent(n, peers) /\ Spawned(n) /\ UNCHANGED <<inbox, drained>>
  BY <1>1, SendToSends, SendToSpawns DEF SendTo, inboxVars
<1>3. /\ DOMAIN messages \subseteq DOMAIN messages'
      /\ DOMAIN messages' \subseteq MessageIds
      /\ \A m \in DOMAIN messages : messages'[m] = messages[m]
      /\ \A m \in MessageIds : Handed(m)' <=> Handed(m)
  BY <1>2 DEF Sent, Handed
<1>4. ASSUME NEW m \in DOMAIN messages
      PROVE  OnePlace(m)'
  <2>1. \/ future'[Delivery(m)] = future[Delivery(m)]
        \/ \E k \in DOMAIN messages' \ DOMAIN messages : Delivery(m) = Delivery(k)
    BY <1>2, <1>3, TasksTyped DEF Spawned
  <2>2. future'[Delivery(m)] = future[Delivery(m)]
    BY <1>3, <2>1, TasksDiffer
  <2>3. Travels(m)' <=> Travels(m)
    BY <1>2, <2>2 DEF Travels, Spawned
  <2>4. /\ InInbox(m)' <=> InInbox(m)
        /\ InLoop(m)' <=> InLoop(m)
    BY <1>2, <1>3 DEF InInbox, InLoop
  <2> QED BY <1>3, <2>3, <2>4 DEF PlaceInv, OnePlace
<1>5. ASSUME NEW m \in DOMAIN messages' \ DOMAIN messages
      PROVE  OnePlace(m)'
  <2>1. Travels(m)'
    BY <1>2 DEF Spawned, Travels
  <2>2. messages'[m].dest \in Nodes
    BY <1>2 DEF Spawned
  <2>3. ~InInbox(m)' /\ ~InLoop(m)'
    <3>1. \A x \in Nodes : m \notin Range(inbox[x]) /\ m \notin Range(drained[x])
      BY <1>1, ListsTyped
    <3> QED BY <1>2, <2>2, <3>1 DEF InInbox, InLoop
  <2>4. ~Handed(m)'
    BY <1>1, <1>3 DEF StateInv, MessagesKnown, Handed
  <2> QED BY <2>1, <2>3, <2>4 DEF OnePlace
<1>6. ASSUME NEW x \in Nodes
      PROVE  ListOf(x, inbox[x])' /\ ListOf(x, drained[x])'
  <2>1. /\ Range(inbox[x]) \subseteq DOMAIN messages
        /\ Range(drained[x]) \subseteq DOMAIN messages
    BY <1>1, ListsTyped
  <2> QED BY <1>2, <1>3, <2>1 DEF PlaceInv, ListOf
<1> QED BY <1>4, <1>5, <1>6 DEF PlaceInv

(* A delivery task puts its message into the channel and is done.          *)
LEMMA DeliverPlaces ==
  ASSUME BaseInv, PlaceInv, NEW m \in DOMAIN messages, Deliver(m)
  PROVE  PlaceInv'
<1>1. StateInv /\ PollInv
  BY DEF BaseInv
<1>2. PICK n \in Nodes : n = messages[m].dest
  BY <1>1, DelaysTyped DEF Messages
<1>3. /\ running = Delivery(m) /\ running' = None
      /\ inbox' = [inbox EXCEPT ![n] = Append(@, m)]
      /\ UNCHANGED <<future, messages, drained>>
  BY <1>2 DEF Deliver, ChannelSend, ReturnReady
<1>4. \A k \in DOMAIN messages : k \in MessageIds /\ Delivery(k) \in Tasks
  BY <1>1, DelaysTyped, TasksTyped
<1>5. /\ inbox[n] \in Seq(MessageIds)
      /\ inbox'[n] = Append(inbox[n], m)
      /\ \A x \in Nodes : x # n => inbox'[x] = inbox[x]
  BY <1>1, <1>3 DEF StateInv, StateTypeOK
<1>6. Range(inbox'[n]) = Range(inbox[n]) \cup {m}
  BY <1>4, <1>5, RangeAppend
<1>7. Travels(m) /\ OnePlace(m)
  BY <1>3 DEF Travels, PlaceInv
<1>8. m \notin Range(inbox[n]) /\ ~InLoop(m) /\ ~Handed(m)
  BY <1>2, <1>7 DEF OnePlace, InInbox
<1>9. ASSUME NEW k \in DOMAIN messages
      PROVE  OnePlace(k)'
  <2>1. /\ Handed(k)' <=> Handed(k)
        /\ InLoop(k)' <=> InLoop(k)
    BY <1>3 DEF Handed, InLoop
  <2>2. InInbox(k)' <=> InInbox(k) \/ k = m
    <3>1. messages[k].dest \in Nodes
      BY <1>1, DelaysTyped DEF Messages
    <3> QED BY <1>2, <1>3, <1>5, <1>6, <3>1 DEF InInbox
  <2>3. Travels(k)' <=> Travels(k) /\ k # m
    <3>1. future[Delivery(m)] = "none"
      BY <1>1, <1>3, <1>4 DEF PollInv
    <3>2. Delivery(k) = Delivery(m) <=> k = m
      BY <1>4, TasksDiffer
    <3>3. None # Delivery(k)
      BY <1>4, NoneAssumption
    <3> QED BY <1>3, <3>1, <3>2, <3>3 DEF Travels
  <2> QED BY <1>7, <1>8, <2>1, <2>2, <2>3 DEF PlaceInv, OnePlace
<1>10. ASSUME NEW x \in Nodes
       PROVE  ListOf(x, inbox[x])' /\ ListOf(x, drained[x])'
  <2>1. ListOf(x, drained[x])'
    BY <1>3 DEF PlaceInv, ListOf
  <2>2. CASE x # n
    BY <1>3, <1>5, <2>1, <2>2 DEF PlaceInv, ListOf
  <2>3. CASE x = n
    <3>1. Once(inbox'[n])
      BY <1>4, <1>5, <1>8, AppendOnce DEF PlaceInv, ListOf
    <3> QED BY <1>2, <1>3, <1>6, <2>1, <2>3, <3>1 DEF PlaceInv, ListOf
  <2> QED BY <2>2, <2>3
<1> QED BY <1>3, <1>9, <1>10 DEF PlaceInv

(* recv() hands the inbox loop all that is in the channel.                 *)
LEMMA RecvPlaces ==
  ASSUME BaseInv, PlaceInv, NEW n \in Nodes, Recv(n)
  PROVE  PlaceInv'
<1>1. StateInv
  BY DEF BaseInv
<1>2. /\ drained[n] = <<>>
      /\ inbox'[n] = <<>> /\ drained'[n] = inbox[n]
      /\ \A x \in Nodes : x # n => /\ inbox'[x] = inbox[x]
                                   /\ drained'[x] = drained[x]
      /\ UNCHANGED <<future, running, messages>>
  BY <1>1 DEF Recv, execVars, StateInv, StateTypeOK
<1>3. Range(<<>>) = {}
  BY RangeEmpty
<1>4. ASSUME NEW m \in DOMAIN messages
      PROVE  OnePlace(m)'
  <2>1. Travels(m)' <=> Travels(m)
    BY <1>2 DEF Travels
  <2>2. Handed(m)' <=> Handed(m)
    BY <1>2 DEF Handed
  <2>3. messages[m].dest \in Nodes /\ OnePlace(m)
    BY <1>1, DelaysTyped DEF Messages, PlaceInv
  <2>4. CASE messages[m].dest = n
    <3>1. ~InLoop(m) /\ ~InInbox(m)' /\ (InLoop(m)' <=> InInbox(m))
      BY <1>2, <1>3, <2>4 DEF InInbox, InLoop
    <3> QED BY <2>1, <2>2, <2>3, <3>1 DEF OnePlace
  <2>5. CASE messages[m].dest # n
    <3>1. (InInbox(m)' <=> InInbox(m)) /\ (InLoop(m)' <=> InLoop(m))
      BY <1>2, <2>3, <2>5 DEF InInbox, InLoop
    <3> QED BY <2>1, <2>2, <2>3, <3>1 DEF OnePlace
  <2> QED BY <2>4, <2>5
<1>5. ASSUME NEW x \in Nodes
      PROVE  ListOf(x, inbox[x])' /\ ListOf(x, drained[x])'
  <2>1. CASE x = n
    <3>1. Once(<<>>)
      BY DEF Once
    <3> QED BY <1>2, <1>3, <2>1, <3>1 DEF PlaceInv, ListOf
  <2>2. CASE x # n
    BY <1>2, <2>2 DEF PlaceInv, ListOf
  <2> QED BY <2>1, <2>2
<1> QED BY <1>2, <1>4, <1>5 DEF PlaceInv

(* The inbox loop hands its first message over.                            *)
LEMMA ReceivePlaces ==
  ASSUME BaseInv, PlaceInv, NEW n \in Nodes, Receive(n)
  PROVE  PlaceInv'
<1>1. StateInv
  BY DEF BaseInv
<1>2. PICK m : m = Head(drained[n])
  OBVIOUS
<1>3. /\ drained[n] # <<>> /\ SpawnTask(Handler(m))
      /\ drained'[n] = Tail(drained[n])
      /\ \A x \in Nodes : x # n => drained'[x] = drained[x]
      /\ UNCHANGED <<running, messages, inbox>>
  BY <1>1, <1>2 DEF Receive, SpawnTask, StateInv, StateTypeOK
<1>4. drained[n] \in Seq(MessageIds) /\ Range(drained[n]) \subseteq DOMAIN messages
  BY <1>1, ListsTyped
<1>5. Range(drained[n]) = {m} \cup Range(drained'[n]) /\ m \in MessageIds
  BY <1>2, <1>3, <1>4, RangeTail
<1>6. Once(drained'[n]) /\ m \notin Range(drained'[n])
  BY <1>2, <1>3, <1>4, TailOnce DEF PlaceInv, ListOf
<1>7. m \in DOMAIN messages /\ messages[m].dest = n
  BY <1>4, <1>5 DEF PlaceInv, ListOf
<1>8. \A k \in MessageIds : /\ Travels(k)' <=> Travels(k)
                            /\ Handed(k)' <=> Handed(k) \/ k = m
  BY <1>1, <1>3, <1>5, TasksTyped
     DEF SpawnTask, Travels, Handed, StateInv, StateTypeOK, ExecTypeOK
<1>9. ASSUME NEW k \in DOMAIN messages
      PROVE  OnePlace(k)'
  <2>1. messages[k].dest \in Nodes /\ k \in MessageIds /\ OnePlace(k)
    BY <1>1, DelaysTyped DEF Messages, PlaceInv
  <2>2. InInbox(k)' <=> InInbox(k)
    BY <1>3 DEF InInbox
  <2>3. InLoop(k)' <=> InLoop(k) /\ k # m
    <3>1. CASE messages[k].dest = n
      BY <1>3, <1>5, <1>6, <3>1 DEF InLoop
    <3>2. CASE messages[k].dest # n
      BY <1>3, <1>7, <2>1, <3>2 DEF InLoop
    <3> QED BY <3>1, <3>2
  <2>4. InLoop(m)
    BY <1>5, <1>7 DEF InLoop
  <2> QED BY <1>8, <2>1, <2>2, <2>3, <2>4 DEF OnePlace
<1>10. ASSUME NEW x \in Nodes
       PROVE  ListOf(x, inbox[x])' /\ ListOf(x, drained[x])'
  <2>1. CASE x = n
    BY <1>3, <1>5, <1>6, <2>1 DEF PlaceInv, ListOf
  <2>2. CASE x # n
    BY <1>3, <2>2 DEF PlaceInv, ListOf
  <2> QED BY <2>1, <2>2
<1> QED BY <1>3, <1>9, <1>10 DEF PlaceInv

LEMMA PlaceNext ==
  ASSUME BaseInv, PlaceInv, [Next]_vars
  PROVE  PlaceInv'
BY MoveCases, QuietPlaces, SendToPlaces, DeliverPlaces, RecvPlaces,
   ReceivePlaces DEF Moves, Sends

-----------------------------------------------------------------------------
(* Whoever has a message will run.                                         *)

(* Delivery tasks that have their message will run, and so will inbox      *)
(* loops, unless they left their waker in an empty channel.                *)
ReachInv ==
  /\ \A m \in DOMAIN messages : Travels(m) => WillRun(Delivery(m))
  /\ \A n \in Nodes : Exists(n) => waker[n] \/ WillRun(InboxLoop(n))
  /\ \A n \in Nodes : waker[n] => inbox[n] = <<>> /\ drained[n] = <<>>

(* A poll begins or ends only in these steps.                              *)
LEMMA PollCases ==
  ASSUME StateInv, [Next]_vars, running' # running
  PROVE  \/ running = None
         \/ \E m \in DOMAIN messages :
              DeliverPending(m) \/ Deliver(m) \/ EndHandler(m)
         \/ \E n \in Nodes : RecvPending(n) \/ TransferPending(n)
<1>1. CASE Program
  BY <1>1, SendCases
     DEF NewNode, SpawnTask, DisconnectAll, Connect, SendTo, execVars
<1> QED
  BY <1>1 DEF Next, ExecStep, DeliveryStep, InboxStep, Execute, TakeReady,
              BeginPoll, PollNext, Advance, Recv, Receive, SpawnTask, execVars,
              vars

(* A delivery task leaves its poll asleep or without its message, ...      *)
LEMMA DeliveryWaits ==
  ASSUME BaseInv, [Next]_vars, NEW m \in DOMAIN messages,
         WillRun(Delivery(m)), ~Deliver(m)
  PROVE  WillRun(Delivery(m))'
<1>1. StateInv /\ Ordered(heap)
  BY DEF BaseInv
<1>2. /\ m \in MessageIds /\ Delivery(m) \in Tasks /\ Delivery(m) # None
      /\ latency(m) \in Int
  BY <1>1, DelaysTyped, TasksTyped, NoneAssumption
<1>3. CASE running = Delivery(m) => running' = Delivery(m)
  BY <1>1, <1>2, <1>3, WillRunNext
<1>4. CASE running = Delivery(m) /\ running' # Delivery(m)
  <2>1. \A k \in DOMAIN messages : Delivery(k) = Delivery(m) => k = m
    BY <1>1, DelaysTyped, TasksDiffer
  <2>2. /\ \A k \in DOMAIN messages : Handler(k) # Delivery(m)
        /\ \A n \in Nodes : InboxLoop(n) # Delivery(m)
    BY <1>1, <1>2, DelaysTyped, TasksDiffer, TasksTyped
  <2>3. DeliverPending(m)
    BY <1>1, <1>2, <1>4, <2>1, <2>2, PollCases
       DEF DeliverPending, SleepPending, Deliver, EndHandler, ReturnReady,
           RecvPending, ReturnPending, TransferPending
  <2> QED BY <1>1, <1>2, <2>3, SleepWaits DEF DeliverPending, Waits, WillRun
<1> QED BY <1>3, <1>4

(* ... an inbox loop asleep or with its waker in the channel.              *)
LEMMA InboxWaits ==
  ASSUME BaseInv, [Next]_vars, NEW n \in Nodes, WillRun(InboxLoop(n)),
         ~RecvPending(n)
  PROVE  WillRun(InboxLoop(n))'
<1>1. StateInv /\ Ordered(heap)
  BY DEF BaseInv
<1>2. InboxLoop(n) \in Tasks /\ InboxLoop(n) # None
  BY TasksTyped, NoneAssumption
<1>3. CASE running = InboxLoop(n) => running' = InboxLoop(n)
  BY <1>1, <1>2, <1>3, WillRunNext
<1>4. CASE running = InboxLoop(n) /\ running' # InboxLoop(n)
  <2>1. \A k \in DOMAIN messages : /\ Handler(k) # InboxLoop(n)
                                   /\ Delivery(k) # InboxLoop(n)
    BY <1>1, DelaysTyped, TasksDiffer, TasksTyped
  <2>2. TransferPending(n)
    BY <1>1, <1>2, <1>4, <2>1, PollCases, TasksDiffer
       DEF DeliverPending, SleepPending, Deliver, EndHandler, ReturnReady,
           RecvPending, ReturnPending, TransferPending
  <2>3. size_delay(Head(drained[n])) \in Int
    <3>1. Head(drained[n]) \in DOMAIN messages
      BY <1>1, <2>2 DEF TransferPending, StateInv, StateTypeOK, MessagesKnown
    <3> QED BY <1>1, <3>1, DelaysTyped
  <2> QED BY <1>1, <1>2, <2>2, <2>3, SleepWaits
          DEF TransferPending, Waits, WillRun
<1> QED BY <1>3, <1>4

(* Node::new leaves its inbox loop in the ready queue.                     *)
LEMMA NewNodeWaits ==
  ASSUME BaseInv, [Next]_vars, NEW n \in Nodes, ~Exists(n), Exists(n)'
  PROVE  Queued(InboxLoop(n))'
<1>1. StateInv /\ Ordered(heap) /\ PollInv /\ ExecTypeOK
  BY DEF BaseInv, StateInv, StateTypeOK
<1>2. /\ InboxLoop(n) \in Tasks /\ future \in [Tasks -> FutureStates]
      /\ future[InboxLoop(n)] = "unborn" /\ future'[InboxLoop(n)] # "unborn"
  BY <1>1, TasksTyped DEF ExecTypeOK, Exists
<1>3. ~BeginPoll
  BY <1>2 DEF BeginPoll, PollNext
<1>4. ASSUME NEW p \in Nodes, NEW s \in Sizes, NEW peers, Peers(p, peers),
             SendTo(p, peers, s)
      PROVE  FALSE
  <2>1. DOMAIN messages' \subseteq MessageIds
    BY <1>1, <1>4, SendToSends DEF Sent
  <2> QED BY <1>1, <1>2, <1>4, <2>1, SendToSpawns, TasksDiffer DEF Spawned
<1>5. ASSUME NEW t \in Tasks, ReturnPending(t)
      PROVE  FALSE
  BY <1>1, <1>2, <1>5 DEF ReturnPending, PollInv
<1>6. ASSUME NEW m, ReturnReady(Handler(m)) \/ Deliver(m)
      PROVE  FALSE
  BY <1>2, <1>6 DEF Deliver, ReturnReady
<1>7. PICK t \in Tasks : SpawnTask(t)
  BY <1>1, <1>2, <1>3, <1>4, <1>5, <1>6, StepKinds
<1>8. t = InboxLoop(n)
  BY <1>2, <1>7 DEF SpawnTask
<1> QED BY <1>1, <1>7, <1>8, WakeQueued DEF SpawnTask

(* A delivery takes the waker out of the channel and wakes its owner.      *)
LEMMA DeliverWakes ==
  ASSUME BaseInv, NEW m \in DOMAIN messages, Deliver(m), NEW n \in Nodes
  PROVE  IF n = messages[m].dest
         THEN ~waker'[n] /\ (waker[n] => Queued(InboxLoop(n))')
         ELSE waker'[n] = waker[n] /\ inbox'[n] = inbox[n]
<1>1. StateInv /\ ExecTypeOK
  BY DEF BaseInv, StateInv, StateTypeOK
<1>2. ASSUME n = messages[m].dest, waker[n]
      PROVE  Queued(InboxLoop(n))'
  <2>1. Wake(InboxLoop(n)) /\ UNCHANGED batch
    BY <1>2 DEF Deliver, ChannelSend, ReturnReady
  <2> QED BY <1>1, <2>1, WakeQueued, TasksTyped
<1> QED BY <1>1, <1>2 DEF Deliver, ChannelSend, StateInv, StateTypeOK

(* The channel changes in four steps.                                      *)
LEMMA ChannelCases ==
  ASSUME StateInv, [Next]_vars
  PROVE  \/ UNCHANGED inboxVars
         \/ \E m \in DOMAIN messages : Deliver(m)
         \/ \E n \in Nodes : RecvPending(n) \/ Recv(n) \/ Receive(n)
<1>1. CASE Program
  BY <1>1, SendCases DEF NewNode, DisconnectAll, Connect, SendTo, inboxVars
<1> QED
  BY <1>1 DEF Next, ExecStep, DeliveryStep, InboxStep, Execute, BeginPoll,
              Advance, EndHandler, DeliverPending, TransferPending,
              SleepPending, inboxVars, vars

(* A message is with its delivery task only if it was from the beginning.  *)
LEMMA OnItsWay ==
  ASSUME BaseInv, [Next]_vars, NEW m \in DOMAIN messages, Travels(m)'
  PROVE  Travels(m) /\ ~Deliver(m)
<1>1. StateInv /\ PollInv /\ m \in MessageIds /\ Delivery(m) \in Tasks
  BY DelaysTyped, TasksTyped DEF BaseInv
<1>2. ASSUME Deliver(m)
      PROVE  FALSE
  <2>1. running = Delivery(m) /\ running' = None /\ future' = future
    BY <1>2 DEF Deliver, ReturnReady
  <2> QED BY <1>1, <2>1, NoneAssumption DEF PollInv, Travels
<1>3. ASSUME NEW n \in Nodes, NEW s \in Sizes, NEW peers, Peers(n, peers),
             SendTo(n, peers, s)
      PROVE  Travels(m)
  <2>1. DOMAIN messages' \subseteq MessageIds
    BY <1>1, <1>3, SendToSends DEF Sent
  <2> QED BY <1>1, <1>3, <2>1, SendToSpawns, TasksDiffer DEF Spawned, Travels
<1>4. ASSUME NEW k \in DOMAIN messages, Deliver(k)
      PROVE  Travels(m)
  <2>1. running' = None /\ future' = future
    BY <1>4 DEF Deliver, ReturnReady
  <2> QED BY <1>1, <2>1, NoneAssumption DEF Travels
<1>5. ASSUME NEW n \in Nodes, Recv(n)
      PROVE  Travels(m)
  BY <1>5 DEF Recv, execVars, Travels
<1>6. ASSUME NEW n \in Nodes, Receive(n)
      PROVE  Travels(m)
  <2>1. Head(drained[n]) \in MessageIds
    BY <1>1, <1>6 DEF Receive, StateInv, StateTypeOK
  <2>2. /\ SpawnTask(Handler(Head(drained[n])))
        /\ Handler(Head(drained[n])) # Delivery(m)
    BY <1>1, <1>6, <2>1, TasksTyped DEF Receive
  <2> QED BY <1>1, <2>2, TasksTyped
          DEF SpawnTask, Travels, StateInv, StateTypeOK, ExecTypeOK
<1>7. ~Moves => Travels(m)
  BY <1>1, MoveCases
<1> QED BY <1>2, <1>3, <1>4, <1>5, <1>6, <1>7 DEF Moves, Sends

LEMMA ReachNext ==
  ASSUME BaseInv, PlaceInv, ReachInv, [Next]_vars
  PROVE  ReachInv'
<1>1. StateInv /\ PollInv /\ BaseInv'
  BY StateNext, NetHeapNext, PollInvNext DEF BaseInv
<1>2. ASSUME NEW m \in DOMAIN messages', Travels(m)'
      PROVE  WillRun(Delivery(m))'
  <2>1. CASE m \in DOMAIN messages
    BY <1>2, <2>1, OnItsWay, DeliveryWaits DEF ReachInv
  <2>2. CASE m \notin DOMAIN messages
    <3>1. PICK n \in Nodes, s \in Sizes : \E peers :
                 Peers(n, peers) /\ SendTo(n, peers, s)
      BY <1>1, <2>2, MessageCases
    <3> QED BY <1>1, <2>2, <3>1, SendToSpawns DEF Spawned, WillRun
  <2> QED BY <2>1, <2>2
<1>3. ASSUME NEW n \in Nodes, Exists(n)'
      PROVE  waker'[n] \/ WillRun(InboxLoop(n))'
  <2>1. CASE ~Exists(n)
    BY <1>3, <2>1, NewNodeWaits DEF WillRun
  <2>2. CASE RecvPending(n)
    BY <1>1, <2>2 DEF RecvPending, StateInv, StateTypeOK
  <2>3. CASE WillRun(InboxLoop(n)) /\ ~RecvPending(n)
    BY <2>3, InboxWaits
  <2>4. CASE waker[n]
    <3>1. ASSUME NEW m \in DOMAIN messages, Deliver(m)
          PROVE  waker'[n] \/ WillRun(InboxLoop(n))'
      BY <2>4, <3>1, DeliverWakes DEF WillRun
    <3>2. ASSUME NEW p \in Nodes, RecvPending(p) \/ Recv(p) \/ Receive(p)
          PROVE  waker'[n]
      BY <1>1, <2>4, <3>2 DEF RecvPending, Recv, Receive, StateInv, StateTypeOK
    <3> QED BY <1>1, <2>4, <3>1, <3>2, ChannelCases DEF inboxVars
  <2> QED BY <2>1, <2>2, <2>3, <2>4 DEF ReachInv
<1>4. ASSUME NEW n \in Nodes, waker'[n]
      PROVE  inbox'[n] = <<>> /\ drained'[n] = <<>>
  <2>1. ASSUME NEW m \in DOMAIN messages, Deliver(m)
        PROVE  inbox'[n] = <<>> /\ drained'[n] = <<>>
    <3>1. waker[n] /\ inbox'[n] = inbox[n]
      BY <1>4, <2>1, DeliverWakes
    <3> QED BY <2>1, <3>1 DEF ReachInv, Deliver
  <2>2. ASSUME NEW p \in Nodes, RecvPending(p) \/ Recv(p) \/ Receive(p)
        PROVE  inbox'[n] = <<>> /\ drained'[n] = <<>>
    BY <1>1, <1>4, <2>2
       DEF ReachInv, RecvPending, Recv, Receive, StateInv, StateTypeOK
  <2> QED BY <1>1, <1>4, <2>1, <2>2, ChannelCases DEF inboxVars, ReachInv
<1> QED BY <1>2, <1>3, <1>4 DEF ReachInv

NetInv == BaseInv /\ PlaceInv /\ ReachInv

LEMMA NetInvCorrect == Spec => []NetInv
<1>1. ASSUME Init
      PROVE  NetInv
  <2>1. StateInv
    BY <1>1, StateInit
  <2>2. /\ messages = <<>> /\ heap = <<>> /\ running = None
        /\ \A t \in Tasks : future[t] = "unborn"
        /\ \A n \in Nodes : inbox[n] = <<>> /\ drained[n] = <<>> /\ ~waker[n]
        /\ \A a, b \in Nodes : network_links[a][b] = 0
    BY <1>1 DEF Init, ExecInit, HeapInit
  <2>3. Ordered(heap)
    BY <2>2 DEF Ordered
  <2>4. PollInv
    BY <2>2, TasksTyped, NoneAssumption DEF PollInv
  <2>5. PlaceInv
    BY <2>2, RangeEmpty DEF PlaceInv, ListOf, Once
  <2>6. ReachInv
    BY <2>2, TasksTyped DEF ReachInv, Exists
  <2> QED BY <2>1, <2>3, <2>4, <2>5, <2>6 DEF NetInv, BaseInv
<1>2. NetInv /\ [Next]_vars => NetInv'
  BY StateNext, NetHeapNext, PollInvNext, PlaceNext, ReachNext
     DEF NetInv, BaseInv
<1> QED BY <1>1, <1>2, PTL DEF Spec

(***************************************************************************)
(* No message is stranded: each one under way is in one place only, and    *)
(* the task that has it there will run.  A receiver that goes to sleep     *)
(* beside a message, or a wake that reaches no one, would violate it.      *)
(***************************************************************************)
THEOREM MessagesReachable == Spec => []NoMessageStranded
<1>1. NetInv => NoMessageStranded
  <2> SUFFICES ASSUME NetInv, NEW m \in DOMAIN messages
               PROVE
      LET n == messages[m].dest
          carriers == {c \in {"task", "inbox", "loop"} :
                         \/ c = "task" /\ (\/ future[Delivery(m)] = "some"
                                           \/ running = Delivery(m))
                         \/ c = "inbox" /\ Contains(inbox[n], m)
                         \/ c = "loop" /\ Contains(drained[n], m)}
      IN  /\ Cardinality(carriers) = IF UnderWay(m) THEN 1 ELSE 0
          /\ "task" \in carriers => WillRun(Delivery(m))
          /\ carriers \cap {"inbox", "loop"} # {} => WillRun(InboxLoop(n))
    BY DEF NoMessageStranded
  <2> DEFINE n == messages[m].dest
             carriers == {c \in {"task", "inbox", "loop"} :
                            \/ c = "task" /\ (\/ future[Delivery(m)] = "some"
                                              \/ running = Delivery(m))
                            \/ c = "inbox" /\ Contains(inbox[n], m)
                            \/ c = "loop" /\ Contains(drained[n], m)}
  <2>1. StateInv /\ OnePlace(m) /\ n \in Nodes
    BY DelaysTyped DEF NetInv, BaseInv, PlaceInv, Messages
  <2>2. /\ Contains(inbox[n], m) <=> InInbox(m)
        /\ Contains(drained[n], m) <=> InLoop(m)
    BY <2>1, ListsTyped, LenProperties DEF Contains, InInbox, InLoop, Range
  <2>3. UnderWay(m) <=> ~Handed(m)
    BY DEF UnderWay, Handed
  <2>4. /\ "task" \in carriers <=> Travels(m)
        /\ "inbox" \in carriers <=> InInbox(m)
        /\ "loop" \in carriers <=> InLoop(m)
        /\ carriers \subseteq {"task", "inbox", "loop"}
    BY <2>2 DEF Travels
  <2> HIDE DEF carriers
  <2>5. Cardinality(carriers) = IF UnderWay(m) THEN 1 ELSE 0
    <3>1. CASE Handed(m)
      <4>1. carriers = {}
        BY <2>1, <2>4, <3>1 DEF OnePlace
      <4> QED BY <2>3, <3>1, <4>1, FS_EmptySet
    <3>2. CASE ~Handed(m)
      <4>1. \E c : carriers = {c}
        BY <2>1, <2>4, <3>2 DEF OnePlace
      <4> QED BY <2>3, <3>2, <4>1, FS_Singleton
    <3> QED BY <3>1, <3>2
  <2>6. "task" \in carriers => WillRun(Delivery(m))
    BY <2>4 DEF NetInv, ReachInv
  <2>7. ASSUME InInbox(m) \/ InLoop(m)
        PROVE  WillRun(InboxLoop(n))
    <3>1. ~waker[n]
      BY <2>1, <2>7, RangeEmpty DEF NetInv, ReachInv, InInbox, InLoop
    <3> QED BY <2>1, <3>1 DEF NetInv, BaseInv, PollInv, ReachInv
  <2>8. carriers \cap {"inbox", "loop"} # {} => WillRun(InboxLoop(n))
    BY <2>4, <2>7
  <2> QED BY <2>5, <2>6, <2>8 DEF carriers
<1> QED BY <1>1, NetInvCorrect, PTL

-----------------------------------------------------------------------------
(* The timer of the network.                                               *)

(***************************************************************************)
(* The timer inside the network is the timer proved on its own: its heap   *)
(* stays in order and implements the queue that always yields an earliest  *)
(* event.                                                                  *)
(***************************************************************************)
THEOREM TimerInside == Spec => []HeapOrdered /\ ImplementsTimer
<1>1. Init => HeapInit
  BY DEF Init
<1>2. NetInv /\ [Next]_vars => [HeapNext]_heapVars
  BY HeapCases DEF NetInv, BaseInv
<1>3. Spec => HeapSpec
  BY <1>1, <1>2, NetInvCorrect, PTL DEF Spec, HeapSpec
<1> QED BY <1>3, OrderKept, HeapIsTimer, PTL

EventsAhead == \A i \in DOMAIN heap : now <= heap[i].wake_time

(* No event lies in the past, and so the clock never runs backwards.       *)
LEMMA EventsAheadNext ==
  ASSUME BaseInv, EventsAhead, [Next]_vars
  PROVE  now <= now' /\ EventsAhead'
<1>1. /\ heap \in Seq(Events) /\ now \in 0 .. MaxTime /\ Ordered(heap)
      /\ heap' \in Seq(Events) /\ now' \in 0 .. MaxTime
  BY StateNext DEF BaseInv, StateInv, StateTypeOK
<1>2. /\ DOMAIN heap = 1 .. Len(heap) /\ DOMAIN (heap') = 1 .. Len(heap')
      /\ \A x : Holds(heap, x) => x \in Events
  BY <1>1 DEF Holds
<1>3. \A x : Holds(heap, x) => now <= x.wake_time
  BY <1>2 DEF EventsAhead, Holds
<1>4. ASSUME \A x : Holds(heap', x) => now' <= x.wake_time
      PROVE  EventsAhead'
  BY <1>2, <1>4 DEF EventsAhead, Holds
<1>5. CASE Pop
  <2>1. /\ heap # <<>> /\ now' = heap[1].wake_time
        /\ heap' = HeapPop(heap)
    BY <1>5 DEF Pop
  <2>2. \A x : Holds(heap', x) => Holds(heap, x)
    BY <1>1, <2>1, PopHolds
  <2>3. \A x : Holds(heap, x) => heap[1].wake_time <= x.wake_time
    BY <1>1, RootIsEarliest DEF Holds
  <2>4. Holds(heap, heap[1])
    BY <1>1, <2>1 DEF Holds
  <2> QED BY <1>3, <1>4, <2>1, <2>2, <2>3, <2>4
<1>6. ASSUME NEW e \in Events, Push(e)
      PROVE  now <= now' /\ EventsAhead'
  <2>1. now < e.wake_time /\ heap' = HeapPush(heap, e) /\ now' = now
    BY <1>6 DEF Push
  <2>2. \A x : Holds(heap', x) => Holds(heap, x) \/ x = e
    BY <1>1, <2>1, PushHolds
  <2> QED BY <1>1, <1>3, <1>4, <2>1, <2>2 DEF Events
<1>7. CASE UNCHANGED heapVars
  BY <1>1, <1>7 DEF heapVars, EventsAhead
<1>8. [HeapNext]_heapVars
  BY HeapCases DEF BaseInv
<1> QED BY <1>5, <1>6, <1>7, <1>8 DEF HeapNext

-----------------------------------------------------------------------------
(* When a message is where.                                                *)

(* A message keeps its route, also when links are added or removed.        *)
LEMMA RouteStays ==
  ASSUME StateInv, [Next]_vars, NEW m \in DOMAIN messages
  PROVE  /\ m \in DOMAIN messages' /\ messages'[m] = messages[m]
         /\ latency(m)' = latency(m)
         /\ size_delay(m)' = size_delay(m)
<1>1. m \in DOMAIN messages' /\ messages'[m] = messages[m]
  BY MessageCases, SendToSends DEF Sent
<1>2. messages[m].link \in DOMAIN links
  BY DEF StateInv, MessagesKnown
<1>3. \A l \in DOMAIN links : links'[l] = links[l]
  <2>1. ASSUME NEW a \in Nodes, NEW b \in Nodes, NEW d \in Latencies,
               Connect(a, b, d)
        PROVE  \A l \in DOMAIN links : links'[l] = links[l]
    <3>1. [ends |-> {a, b}, latency |-> d] \in Links
      BY DEF Links
    <3>2. links \in Seq(Links)
      BY DEF StateInv, StateTypeOK
    <3>3. links' = Append(links, [ends |-> {a, b}, latency |-> d])
      BY <2>1 DEF Connect
    <3> QED BY <3>1, <3>2, <3>3, AppendElements
  <2> QED BY <2>1, TopologyCases DEF topology, DisconnectAll
<1> QED BY <1>1, <1>2, <1>3 DEF latency, size_delay

(* The deadlines of sleeping tasks are not before the time at which what   *)
(* they hold may go on.                                                    *)
TimeInv ==
  /\ EventsAhead
  /\ \A m \in MessageIds \ DOMAIN messages : wake_time[Delivery(m)] = 0
  /\ \A m \in DOMAIN messages :
       /\ messages[m].sent <= now
       /\ wake_time[Delivery(m)] # 0
            => messages[m].sent + latency(m) <= wake_time[Delivery(m)]
       /\ InInbox(m) \/ InLoop(m) => messages[m].sent + latency(m) <= now
  /\ \A n \in Nodes : wake_time[InboxLoop(n)] # 0 =>
       /\ drained[n] # <<>>
       /\ \A m \in DOMAIN messages : m = Head(drained[n]) =>
            messages[m].sent + latency(m) + size_delay(m)
              <= wake_time[InboxLoop(n)]

(* Wake times are set and reset in four steps, each for the task it polls. *)
LEMMA WakeTimeCases ==
  ASSUME StateInv, [Next]_vars
  PROVE  \/ UNCHANGED wake_time
         \/ \E m \in DOMAIN messages : DeliverPending(m) \/ Deliver(m)
         \/ \E n \in Nodes : TransferPending(n) \/ Receive(n)
<1>1. CASE Program
  BY <1>1, SendCases DEF NewNode, DisconnectAll, Connect, SendTo
<1> QED
  BY <1>1 DEF Next, ExecStep, DeliveryStep, InboxStep, Execute, BeginPoll,
              Advance, EndHandler, RecvPending, Recv, vars

(* A message enters the channel only with its delivery.                    *)
LEMMA ArrivalCases ==
  ASSUME BaseInv, [Next]_vars, NEW m \in DOMAIN messages,
         InInbox(m)' \/ InLoop(m)', ~Deliver(m)
  PROVE  InInbox(m) \/ InLoop(m)
<1>1. StateInv /\ messages'[m] = messages[m]
  BY RouteStays DEF BaseInv
<1>2. PICK n \in Nodes : n = messages[m].dest
  BY <1>1, DelaysTyped DEF Messages
<1>3. m \in Range(inbox'[n]) \/ m \in Range(drained'[n])
  BY <1>1, <1>2 DEF InInbox, InLoop
<1>4. inbox[n] \in Seq(MessageIds) /\ drained[n] \in Seq(MessageIds)
  BY <1>1, ListsTyped
<1>5. ASSUME NEW k \in DOMAIN messages, Deliver(k)
      PROVE  m \in Range(inbox[n]) \/ m \in Range(drained[n])
  <2>1. k \in MessageIds /\ k # m
    BY <1>1, <1>5, DelaysTyped
  <2>2. /\ drained' = drained
        /\ inbox'[n] = inbox[n] \/ inbox'[n] = Append(inbox[n], k)
    BY <1>1, <1>5 DEF Deliver, ChannelSend, StateInv, StateTypeOK
  <2>3. Range(Append(inbox[n], k)) = Range(inbox[n]) \cup {k}
    BY <1>4, <2>1, RangeAppend
  <2> QED BY <1>3, <2>1, <2>2, <2>3
<1>6. ASSUME NEW p \in Nodes, RecvPending(p) \/ Recv(p)
      PROVE  m \in Range(inbox[n]) \/ m \in Range(drained[n])
  <2>1. /\ inbox'[n] \in {inbox[n], <<>>}
        /\ drained'[n] \in {drained[n], inbox[n]}
    BY <1>1, <1>6 DEF RecvPending, Recv, StateInv, StateTypeOK
  <2> QED BY <1>3, <2>1, RangeEmpty
<1>7. ASSUME NEW p \in Nodes, Receive(p)
      PROVE  m \in Range(inbox[n]) \/ m \in Range(drained[n])
  <2>1. /\ inbox' = inbox
        /\ \/ drained'[n] = drained[n]
           \/ drained[n] # <<>> /\ drained'[n] = Tail(drained[n])
    BY <1>1, <1>7 DEF Receive, StateInv, StateTypeOK
  <2> QED BY <1>3, <1>4, <2>1, RangeTail
<1>8. m \in Range(inbox[n]) \/ m \in Range(drained[n])
  BY <1>1, <1>3, <1>5, <1>6, <1>7, ChannelCases DEF inboxVars
<1> QED BY <1>2, <1>8 DEF InInbox, InLoop

(* A delivery task that goes on has waited for the latency, ...            *)
LEMMA LatencyPassed ==
  ASSUME NetInv, TimeInv, NEW m \in DOMAIN messages, Deliver(m)
  PROVE  messages[m].sent + latency(m) <= now
<1>1. StateInv
  BY DEF NetInv, BaseInv
<1>2. /\ m \in MessageIds /\ latency(m) \in Nat /\ now \in Nat
      /\ messages[m].sent \in Nat /\ wake_time[Delivery(m)] \in Nat
  <2>1. m \in MessageIds /\ latency(m) \in Nat /\ messages[m].sent \in Nat
    BY <1>1, DelaysTyped DEF Messages
  <2> QED BY <1>1, <2>1, TasksTyped DEF StateInv, StateTypeOK
<1>3. Slept(Delivery(m), latency(m))
  BY DEF Deliver
<1> QED BY <1>2, <1>3 DEF TimeInv, Slept, WakeTime

(* ... and an inbox loop that goes on for the transfer time as well.       *)
LEMMA TransferPassed ==
  ASSUME NetInv, TimeInv, NEW n \in Nodes, Receive(n)
  PROVE  LET m == Head(drained[n])
         IN  messages[m].sent + latency(m) + size_delay(m) <= now
<1>1. StateInv /\ PlaceInv
  BY DEF NetInv, BaseInv
<1>2. PICK m : m = Head(drained[n])
  OBVIOUS
<1>3. /\ drained[n] # <<>>
      /\ Slept(InboxLoop(n), size_delay(m))
  BY <1>2 DEF Receive
<1>4. m \in Range(drained[n]) /\ m \in DOMAIN messages /\ messages[m].dest = n
  BY <1>1, <1>2, <1>3, ListsTyped, RangeTail DEF PlaceInv, ListOf
<1>5. /\ latency(m) \in Nat /\ size_delay(m) \in Nat /\ now \in Nat
      /\ messages[m].sent \in Nat /\ wake_time[InboxLoop(n)] \in Nat
  <2>1. latency(m) \in Nat /\ size_delay(m) \in Nat /\ messages[m].sent \in Nat
    BY <1>1, <1>4, DelaysTyped DEF Messages
  <2> QED BY <1>1, <2>1, TasksTyped DEF StateInv, StateTypeOK
<1>6. messages[m].sent + latency(m) <= now
  BY <1>4 DEF TimeInv, InLoop
<1>7. wake_time[InboxLoop(n)] # 0 =>
        messages[m].sent + latency(m) + size_delay(m) <= wake_time[InboxLoop(n)]
  BY <1>2, <1>4 DEF TimeInv
<1> QED BY <1>2, <1>3, <1>5, <1>6, <1>7 DEF Slept, WakeTime

LEMMA TimeNext ==
  ASSUME NetInv, NetInv', TimeInv, [Next]_vars
  PROVE  TimeInv'
<1>1. /\ StateInv /\ BaseInv /\ PlaceInv
      /\ now \in Nat /\ now' \in Nat
      /\ wake_time \in [Tasks -> 0 .. MaxTime]
  BY DEF NetInv, BaseInv, StateInv, StateTypeOK
<1>2. now <= now' /\ EventsAhead'
  BY <1>1, EventsAheadNext DEF TimeInv
<1>3. ASSUME Sends
      PROVE  /\ UNCHANGED <<wake_time, now, drained, inbox>>
             /\ DOMAIN messages \subseteq DOMAIN messages'
             /\ DOMAIN messages' \subseteq MessageIds
             /\ \A m \in DOMAIN messages' \ DOMAIN messages :
                  messages'[m].sent = now /\ Travels(m)'
  <2>1. PICK n \in Nodes, s \in Sizes : \E peers :
               Peers(n, peers) /\ SendTo(n, peers, s)
    BY <1>3 DEF Sends
  <2>2. PICK peers : Peers(n, peers) /\ SendTo(n, peers, s)
    BY <2>1
  <2>3. UNCHANGED <<wake_time, now, drained, inbox>>
    BY <2>2 DEF SendTo, heapVars, inboxVars
  <2>4. Sent(n, peers) /\ Spawned(n)
    BY <1>1, <2>2, SendToSends, SendToSpawns
  <2> QED BY <2>3, <2>4 DEF Sent, Spawned, Travels
<1>4. /\ DOMAIN messages \subseteq DOMAIN messages'
      /\ ~Sends => messages' = messages
  BY <1>1, <1>3, MessageCases DEF Sends
<1>5. \A m \in DOMAIN messages : m \in MessageIds
  BY <1>1, DelaysTyped
<1>6. ASSUME NEW m \in MessageIds \ DOMAIN messages'
      PROVE  wake_time'[Delivery(m)] = 0
  <2>1. wake_time[Delivery(m)] = 0 /\ Delivery(m) \in Tasks
    BY <1>4, TasksTyped DEF TimeInv
  <2>2. ASSUME NEW k \in DOMAIN messages, DeliverPending(k) \/ Deliver(k)
        PROVE  wake_time'[Delivery(m)] = 0
    <3>1. Delivery(k) # Delivery(m)
      BY <1>4, <1>5, TasksDiffer
    <3> QED BY <1>1, <2>1, <2>2, <3>1
            DEF DeliverPending, SleepPending, Deliver, EndSleep
  <2>3. ASSUME NEW n \in Nodes, TransferPending(n) \/ Receive(n)
        PROVE  wake_time'[Delivery(m)] = 0
    <3>1. InboxLoop(n) # Delivery(m)
      BY TasksDiffer
    <3> QED BY <1>1, <2>1, <2>3, <3>1
            DEF TransferPending, SleepPending, Receive, EndSleep
  <2> QED BY <1>1, <2>1, <2>2, <2>3, WakeTimeCases
<1>7. ASSUME NEW m \in DOMAIN messages
      PROVE  /\ messages'[m].sent <= now'
             /\ wake_time'[Delivery(m)] # 0
                  => messages'[m].sent + latency(m)' <= wake_time'[Delivery(m)]
             /\ InInbox(m)' \/ InLoop(m)'
                  => messages'[m].sent + latency(m)' <= now'
  <2>1. messages'[m] = messages[m] /\ latency(m)' = latency(m)
    BY <1>1, RouteStays
  <2>2. /\ messages[m].sent \in Nat /\ latency(m) \in Nat
        /\ m \in MessageIds /\ Delivery(m) \in Tasks
    BY <1>1, DelaysTyped, TasksTyped DEF Messages
  <2>3. /\ messages[m].sent <= now
        /\ wake_time[Delivery(m)] # 0
             => messages[m].sent + latency(m) <= wake_time[Delivery(m)]
    BY DEF TimeInv
  <2>4. InInbox(m)' \/ InLoop(m)' => messages[m].sent + latency(m) <= now
    <3>1. CASE Deliver(m)
      BY <3>1, LatencyPassed
    <3>2. CASE ~Deliver(m)
      BY <1>1, <3>2, ArrivalCases DEF TimeInv
    <3> QED BY <3>1, <3>2
  <2>5. wake_time'[Delivery(m)] # 0
          => messages[m].sent + latency(m) <= wake_time'[Delivery(m)]
    <3>1. ASSUME NEW k \in DOMAIN messages, DeliverPending(k)
          PROVE  wake_time'[Delivery(m)] # 0
                   => messages[m].sent + latency(m) <= wake_time'[Delivery(m)]
      <4>1. wake_time' = [wake_time EXCEPT ![Delivery(k)] =
                            WakeTime(Delivery(k), latency(k))]
        BY <3>1 DEF DeliverPending, SleepPending
      <4>2. CASE k = m
        BY <1>1, <2>2, <2>3, <4>1, <4>2 DEF WakeTime
      <4>3. CASE k # m
        BY <1>1, <1>5, <2>2, <2>3, <4>1, <4>3, TasksDiffer
      <4> QED BY <4>2, <4>3
    <3>2. ASSUME NEW k \in DOMAIN messages, Deliver(k)
          PROVE  wake_time'[Delivery(m)] # 0
                   => messages[m].sent + latency(m) <= wake_time'[Delivery(m)]
      BY <1>1, <2>2, <2>3, <3>2 DEF Deliver, EndSleep
    <3>3. ASSUME NEW n \in Nodes, TransferPending(n) \/ Receive(n)
          PROVE  wake_time'[Delivery(m)] = wake_time[Delivery(m)]
      <4>1. InboxLoop(n) # Delivery(m)
        BY <2>2, TasksDiffer
      <4> QED BY <1>1, <2>2, <3>3, <4>1
              DEF TransferPending, SleepPending, Receive, EndSleep
    <3> QED BY <1>1, <2>3, <3>1, <3>2, <3>3, WakeTimeCases
  <2> QED BY <1>1, <1>2, <2>1, <2>2, <2>3, <2>4, <2>5
<1>8. ASSUME NEW m \in DOMAIN messages' \ DOMAIN messages
      PROVE  /\ messages'[m].sent <= now'
             /\ wake_time'[Delivery(m)] = 0
             /\ ~InInbox(m)' /\ ~InLoop(m)'
  <2>1. Sends
    BY <1>4
  <2>2. OnePlace(m)'
    BY DEF NetInv, PlaceInv
  <2> QED BY <1>1, <1>3, <2>1, <2>2 DEF TimeInv, OnePlace
<1>9. ASSUME NEW n \in Nodes, wake_time'[InboxLoop(n)] # 0
      PROVE  /\ drained'[n] # <<>>
             /\ \A m \in DOMAIN messages' : m = Head(drained'[n]) =>
                  messages'[m].sent + latency(m)' + size_delay(m)'
                    <= wake_time'[InboxLoop(n)]
  <2>1. InboxLoop(n) \in Tasks
    BY TasksTyped
  <2>2. PICK m : m = Head(drained[n])
    OBVIOUS
  <2>3. ASSUME drained[n] # <<>>
        PROVE  /\ m \in DOMAIN messages /\ InLoop(m)
               /\ messages[m].sent \in Nat /\ latency(m) \in Nat
               /\ size_delay(m) \in Nat
               /\ messages'[m] = messages[m] /\ latency(m)' = latency(m)
               /\ size_delay(m)' = size_delay(m)
    <3>1. m \in Range(drained[n]) /\ m \in DOMAIN messages
      BY <1>1, <2>2, <2>3, ListsTyped, RangeTail
    <3>2. InLoop(m)
      BY <1>1, <3>1 DEF PlaceInv, ListOf, InLoop
    <3>3. /\ messages[m].sent \in Nat /\ latency(m) \in Nat
          /\ size_delay(m) \in Nat
      BY <1>1, <3>1, DelaysTyped DEF Messages
    <3>4. /\ messages'[m] = messages[m] /\ latency(m)' = latency(m)
          /\ size_delay(m)' = size_delay(m)
      BY <1>1, <3>1, RouteStays
    <3> QED BY <3>1, <3>2, <3>3, <3>4
  <2>4. ~Recv(n) /\ ~Receive(n)
    BY <1>1, <1>9, <2>1 DEF Recv, Receive, EndSleep, TimeInv
  <2>5. drained'[n] = drained[n]
    <3>1. ASSUME NEW p \in Nodes, p # n, Recv(p) \/ Receive(p)
          PROVE  drained'[n] = drained[n]
      BY <1>1, <3>1 DEF Recv, Receive, StateInv, StateTypeOK
    <3> QED BY <1>1, <2>4, <3>1, ChannelCases
            DEF inboxVars, Deliver, RecvPending
  <2>6. SUFFICES
          /\ drained[n] # <<>>
          /\ messages[m].sent + latency(m) + size_delay(m)
               <= wake_time'[InboxLoop(n)]
    BY <2>2, <2>3, <2>5
  <2>7. CASE wake_time'[InboxLoop(n)] = wake_time[InboxLoop(n)]
    <3>1. drained[n] # <<>>
      BY <1>9, <2>7 DEF TimeInv
    <3> QED BY <1>9, <2>2, <2>3, <2>7, <3>1 DEF TimeInv
  <2>8. CASE wake_time'[InboxLoop(n)] # wake_time[InboxLoop(n)]
    <3>1. ASSUME NEW k \in DOMAIN messages, DeliverPending(k) \/ Deliver(k)
          PROVE  wake_time'[InboxLoop(n)] = wake_time[InboxLoop(n)]
      <4>1. Delivery(k) # InboxLoop(n)
        BY <1>5, TasksDiffer
      <4> QED BY <1>1, <2>1, <3>1, <4>1
              DEF DeliverPending, SleepPending, Deliver, EndSleep
    <3>2. ASSUME NEW p \in Nodes, p # n, TransferPending(p) \/ Receive(p)
          PROVE  wake_time'[InboxLoop(n)] = wake_time[InboxLoop(n)]
      <4>1. InboxLoop(p) # InboxLoop(n)
        BY <3>2, TasksDiffer
      <4> QED BY <1>1, <2>1, <3>2, <4>1
              DEF TransferPending, SleepPending, Receive, EndSleep
    <3>3. TransferPending(n)
      BY <1>1, <2>4, <2>8, <3>1, <3>2, WakeTimeCases
    <3>4. /\ drained[n] # <<>>
          /\ wake_time'[InboxLoop(n)] = WakeTime(InboxLoop(n), size_delay(m))
      BY <1>1, <2>1, <2>2, <3>3 DEF TransferPending, SleepPending
    <3>5. wake_time[InboxLoop(n)] = 0
      BY <2>8, <3>4 DEF WakeTime
    <3>6. wake_time'[InboxLoop(n)] = now + size_delay(m)
      BY <3>4, <3>5 DEF WakeTime
    <3>7. messages[m].sent + latency(m) <= now
      BY <2>3, <3>4 DEF TimeInv
    <3> QED BY <1>1, <2>3, <3>4, <3>6, <3>7
  <2> QED BY <2>7, <2>8
<1>10. ASSUME NEW m \in DOMAIN messages'
       PROVE  /\ messages'[m].sent <= now'
              /\ wake_time'[Delivery(m)] # 0
                   => messages'[m].sent + latency(m)' <= wake_time'[Delivery(m)]
              /\ InInbox(m)' \/ InLoop(m)'
                   => messages'[m].sent + latency(m)' <= now'
  BY <1>7, <1>8
<1> QED BY <1>2, <1>6, <1>9, <1>10 DEF TimeInv

-----------------------------------------------------------------------------
(* The network implements its promise.                                     *)

TransitInv == NetInv /\ CountsInv /\ TimeInv

LEMMA TransitInvCorrect == Spec => []TransitInv
<1>1. Init => TimeInv
  <2> SUFFICES ASSUME Init PROVE TimeInv
    OBVIOUS
  <2>1. DOMAIN heap = {} /\ DOMAIN messages = {}
    BY DEF Init, HeapInit
  <2>2. \A t \in Tasks : wake_time[t] = 0
    BY DEF Init
  <2> QED BY <2>1, <2>2, TasksTyped DEF TimeInv, EventsAhead
<1>2. Init => CountsInv
  BY StateInit, CountsInit DEF CountsInv
<1>3. NetInv /\ NetInv' /\ TimeInv /\ [Next]_vars => TimeInv'
  BY TimeNext
<1> QED
  BY <1>1, <1>2, <1>3, CountsNext, NetInvCorrect, PTL DEF Spec, TransitInv

Packet(m) == [id |-> m, link |-> messages[m].link,
              due |-> messages[m].sent + latency(m) + size_delay(m)]

InTransit == {Packet(m) : m \in {i \in DOMAIN messages : UnderWay(i)}}

ActiveLinks == {l \in LinkIds : announced[l] > 0}

LEMMA ActiveInTransit == CountsInv => ActiveLinks = {x.link : x \in InTransit}
<1> SUFFICES ASSUME CountsInv PROVE ActiveLinks = {x.link : x \in InTransit}
  OBVIOUS
<1>1. StateInv /\ ActiveWhileUnderWay
  BY DEF CountsInv
<1>2. \A m \in DOMAIN messages : /\ messages[m].link \in LinkIds
                                 /\ messages[m].source \in Nodes
  BY <1>1, DelaysTyped DEF Messages
<1>3. \A l \in LinkIds : announced[l] > 0 <=>
        \E m \in DOMAIN messages : UnderWay(m) /\ messages[m].link = l
  <2> SUFFICES ASSUME NEW l \in LinkIds
               PROVE  announced[l] > 0 <=>
                        \E m \in DOMAIN messages :
                          UnderWay(m) /\ messages[m].link = l
    OBVIOUS
  <2>1. (\E n \in Nodes : InQueue(l, n) # {}) <=>
          \E m \in DOMAIN messages : UnderWay(m) /\ messages[m].link = l
    BY <1>2 DEF InQueue
  <2>2. announced[l] = IF \E n \in Nodes : InQueue(l, n) # {} THEN 1 ELSE 0
    BY <1>1 DEF ActiveWhileUnderWay
  <2> QED BY <2>1, <2>2
<1>4. \A l : l \in {x.link : x \in InTransit} <=>
        \E m \in DOMAIN messages : UnderWay(m) /\ messages[m].link = l
  <2>1. \A x : x \in InTransit <=>
          \E m \in DOMAIN messages : UnderWay(m) /\ x = Packet(m)
    BY DEF InTransit
  <2>2. \A m : Packet(m).link = messages[m].link
    BY DEF Packet
  <2> QED BY <2>1, <2>2
<1> QED BY <1>2, <1>3, <1>4 DEF ActiveLinks

(* The delays, in a form that is used of the next state.                   *)
DelaysInNat ==
  \A m \in DOMAIN messages : latency(m) \in Nat /\ size_delay(m) \in Nat

LEMMA AllDelays == StateInv => DelaysInNat
BY DelaysTyped DEF DelaysInNat

(* What is said of a message on its way does not change under way.         *)
LEMMA PacketStays ==
  ASSUME StateInv, [Next]_vars, NEW m \in DOMAIN messages
  PROVE  Packet(m)' = Packet(m)
BY RouteStays DEF Packet

LEMMA QuietTransit ==
  ASSUME StateInv, [Next]_vars, UNCHANGED <<queueVars, messages>>,
         \A m \in MessageIds :
           future'[Handler(m)] = "unborn" <=> future[Handler(m)] = "unborn"
  PROVE  UNCHANGED <<InTransit, ActiveLinks>>
<1>1. \A m \in DOMAIN messages : UnderWay(m)' <=> UnderWay(m)
  BY DelaysTyped DEF UnderWay
<1>2. \A m \in DOMAIN messages : Packet(m)' = Packet(m)
  BY PacketStays
<1>3. InTransit' = InTransit
  BY <1>1, <1>2 DEF InTransit
<1> QED BY <1>3 DEF ActiveLinks, queueVars

LEMMA SendToDeparts ==
  ASSUME StateInv, StateInv', [Next]_vars, NEW n \in Nodes, NEW s \in Sizes,
         NEW peers, Peers(n, peers), SendTo(n, peers, s)
  PROVE  /\ InTransit \subseteq InTransit'
         /\ {x.id : x \in InTransit' \ InTransit}
              = (Len(messages) + 1) .. Len(messages')
         /\ \A x, y \in InTransit' \ InTransit : x.id = y.id => x = y
         /\ \A x \in InTransit' \ InTransit : now <= x.due
         /\ now' = now
<1> DEFINE new == DOMAIN messages' \ DOMAIN messages
<1>1. Sent(n, peers) /\ Spawned(n) /\ now' = now
  BY SendToSends, SendToSpawns DEF SendTo, heapVars
<1>2. \A m \in DOMAIN messages : /\ m \in DOMAIN messages'
                                 /\ Packet(m)' = Packet(m)
                                 /\ UnderWay(m)' <=> UnderWay(m)
  BY <1>1, PacketStays, DelaysTyped DEF Sent, UnderWay
<1>3. \A m \in new : UnderWay(m)'
  BY <1>1 DEF Sent, UnderWay, StateInv, MessagesKnown
<1>4. \A x : x \in InTransit' \ InTransit <=> \E m \in new : x = Packet(m)'
  <2>1. \A x : x \in InTransit' <=>
          \E m \in DOMAIN messages' : UnderWay(m)' /\ x = Packet(m)'
    BY DEF InTransit
  <2>2. \A x : x \in InTransit <=>
          \E m \in DOMAIN messages : UnderWay(m) /\ x = Packet(m)
    BY DEF InTransit
  <2>3. \A m : Packet(m).id = m /\ Packet(m)'.id = m
    BY DEF Packet
  <2> QED BY <1>2, <1>3, <2>1, <2>2, <2>3
<1>5. \A m \in new : Packet(m)'.id = m /\ now <= Packet(m)'.due
  <2> SUFFICES ASSUME NEW m \in new
               PROVE  Packet(m)'.id = m /\ now <= Packet(m)'.due
    OBVIOUS
  <2>1. messages'[m].sent = now /\ now \in Nat
    BY <1>1 DEF Spawned, StateInv, StateTypeOK
  <2>2. latency(m)' \in Nat /\ size_delay(m)' \in Nat
    <3>1. DelaysInNat'
      BY AllDelays, PTL
    <3> QED BY <3>1 DEF DelaysInNat
  <2>3. /\ Packet(m)'.id = m
        /\ Packet(m)'.due = messages'[m].sent + latency(m)' + size_delay(m)'
    BY DEF Packet
  <2> QED BY <2>1, <2>2, <2>3
<1>6. new = (Len(messages) + 1) .. Len(messages')
  <2>1. /\ DOMAIN messages = 1 .. Len(messages) /\ Len(messages) \in Nat
        /\ DOMAIN messages' = 1 .. Len(messages') /\ Len(messages') \in Nat
    BY LenProperties DEF StateInv, StateTypeOK
  <2> QED BY <2>1
<1>7. InTransit \subseteq InTransit'
  BY <1>2 DEF InTransit
<1> HIDE DEF new
<1>8. {x.id : x \in InTransit' \ InTransit} = new
  BY <1>4, <1>5
<1> QED BY <1>1, <1>4, <1>5, <1>6, <1>7, <1>8

LEMMA ReceiveArrives ==
  ASSUME NetInv, TimeInv, [Next]_vars, NEW n \in Nodes, Receive(n)
  PROVE  /\ \E x \in InTransit : x.due <= now /\ InTransit' = InTransit \ {x}
         /\ UNCHANGED <<now, messages>>
<1>1. StateInv /\ PlaceInv
  BY DEF NetInv, BaseInv
<1>2. PICK m : m = Head(drained[n])
  OBVIOUS
<1>3. /\ drained[n] # <<>> /\ SpawnTask(Handler(m))
      /\ UNCHANGED <<now, messages>>
  BY <1>2 DEF Receive, heapVars
<1>4. m \in Range(drained[n]) /\ m \in DOMAIN messages
  BY <1>1, <1>2, <1>3, ListsTyped, RangeTail
<1>5. UnderWay(m)
  BY <1>1, <1>4 DEF PlaceInv, ListOf, OnePlace, InLoop, Handed, UnderWay
<1>6. \A k \in DOMAIN messages : UnderWay(k)' <=> UnderWay(k) /\ k # m
  <2>1. \A k \in DOMAIN messages : k \in MessageIds
    BY <1>1, DelaysTyped
  <2>2. future' = [future EXCEPT ![Handler(m)] = "some"]
    BY <1>3 DEF SpawnTask
  <2>3. \A k \in DOMAIN messages :
          future'[Handler(k)] = IF k = m THEN "some" ELSE future[Handler(k)]
    BY <1>1, <1>4, <2>1, <2>2, TasksTyped DEF StateInv, StateTypeOK, ExecTypeOK
  <2> QED BY <1>3, <2>3 DEF UnderWay
<1>7. \A k \in DOMAIN messages : Packet(k)' = Packet(k) /\ Packet(k).id = k
  BY <1>1, PacketStays DEF Packet
<1>8. /\ \A x : x \in InTransit <=>
           \E k \in DOMAIN messages : UnderWay(k) /\ x = Packet(k)
      /\ \A x : x \in InTransit' <=>
           \E k \in DOMAIN messages' : UnderWay(k)' /\ x = Packet(k)'
  BY DEF InTransit
<1>9. InTransit' = InTransit \ {Packet(m)}
  BY <1>3, <1>4, <1>6, <1>7, <1>8
<1>10. Packet(m).due <= now
  BY <1>2, TransferPassed DEF Packet
<1> QED BY <1>3, <1>4, <1>5, <1>8, <1>9, <1>10

(***************************************************************************)
(* Whatever the program sends, connects and disconnects, and under any     *)
(* driver: every message that was sent is handed over at most once and     *)
(* never before its latency and its transfer time have passed, and a link  *)
(* is announced as active exactly while a message sent over it is under    *)
(* way.                                                                    *)
(***************************************************************************)
THEOREM DeliveryImplemented == Spec => ImplementsTransit
<1>1. Init => Promise!TransitInit
  <2> SUFFICES ASSUME Init PROVE Promise!TransitInit
    OBVIOUS
  <2>1. DOMAIN messages = {} /\ Len(messages) = 0 /\ now = 0
    BY DEF Init, HeapInit
  <2>2. \A l \in LinkIds : announced[l] = 0
    BY DEF Init
  <2> QED BY <2>1, <2>2 DEF Promise!TransitInit
<1>2. TransitInv /\ TransitInv' /\ [Next]_vars
        => [Promise!TransitNext]_(Promise!transitVars)
  <2> SUFFICES ASSUME TransitInv, TransitInv', [Next]_vars
               PROVE  [Promise!TransitNext]_(Promise!transitVars)
    OBVIOUS
  <2>1. /\ StateInv /\ BaseInv /\ StateInv'
        /\ now \in Nat /\ now' \in Nat
    BY DEF TransitInv, NetInv, BaseInv, StateInv, StateTypeOK
  <2>2. ActiveLinks' = {x.link : x \in InTransit'}
    <3>1. (ActiveLinks = {x.link : x \in InTransit})'
      BY ActiveInTransit, PTL DEF TransitInv
    <3> QED BY <3>1
  <2>3. now <= now'
    BY <2>1, EventsAheadNext DEF TransitInv, TimeInv
  <2>4. ASSUME UNCHANGED <<queueVars, messages>>,
               \A m \in MessageIds : future'[Handler(m)] = "unborn"
                                       <=> future[Handler(m)] = "unborn"
        PROVE  [Promise!TransitNext]_(Promise!transitVars)
    <3>1. UNCHANGED <<InTransit, ActiveLinks>> /\ messages' = messages
      BY <2>1, <2>4, QuietTransit
    <3>2. CASE now' = now
      BY <3>1, <3>2 DEF Promise!transitVars, InTransit, ActiveLinks, Packet
    <3>3. CASE now < now'
      BY <3>1, <3>3
         DEF Promise!TransitNext, Promise!Tick, InTransit, ActiveLinks, Packet
    <3> QED BY <2>1, <2>3, <3>2, <3>3
  <2>5. ASSUME NEW n \in Nodes, NEW s \in Sizes, NEW peers,
               Peers(n, peers), SendTo(n, peers, s)
        PROVE  Promise!Depart
    BY <2>1, <2>2, <2>5, SendToDeparts
       DEF Promise!Depart, Promise!Activity, InTransit, ActiveLinks, Packet
  <2>6. ASSUME NEW n \in Nodes, Receive(n)
        PROVE  Promise!TransitNext
    <3>1. PICK x \in InTransit : x.due <= now /\ InTransit' = InTransit \ {x}
      BY <2>6, ReceiveArrives DEF TransitInv
    <3>2. UNCHANGED <<now, messages>>
      BY <2>6, ReceiveArrives DEF TransitInv
    <3>3. Promise!Arrive(x)
      BY <2>2, <3>1, <3>2
         DEF Promise!Arrive, Promise!Activity, InTransit, ActiveLinks, Packet
    <3> QED BY <3>1, <3>3 DEF Promise!TransitNext, InTransit, Packet
  <2> QED BY <2>1, <2>4, <2>5, <2>6, QuietCases DEF Promise!TransitNext
<1> QED
  BY <1>1, <1>2, TransitInvCorrect, PTL
     DEF Spec, ImplementsTransit, Promise!TransitSpec

-----------------------------------------------------------------------------
(* Who is about to be polled.                                              *)

Awake(t) == running = t \/ Queued(t)

(* No step but the beginning of a poll takes a task out of the queues.     *)
LEMMA QueuedKept ==
  ASSUME StateInv, [Next]_vars, ~BeginPoll
  PROVE  \A t \in Tasks : Queued(t) => Queued(t)'
<1>0. ExecTypeOK
  BY DEF StateInv, StateTypeOK
<1>1. ASSUME NEW t \in Tasks, Wake(t), UNCHANGED batch
      PROVE  \A u \in Tasks : Queued(u) => Queued(u)'
  BY <1>0, <1>1, WakeQueued
<1>2. ASSUME UNCHANGED <<ready, batch>>
      PROVE  \A u \in Tasks : Queued(u) => Queued(u)'
  BY <1>2, SameQueued
<1>3. CASE Execute
  BY <1>0, <1>3, TakeQueued DEF Execute
<1>4. CASE Advance
  <2>1. heap[1] \in Events
    BY <1>4 DEF Advance, Pop, StateInv, StateTypeOK
  <2> QED BY <1>1, <1>4, <2>1 DEF Advance, Events
<1>5. CASE Program
  <2>1. ASSUME NEW n \in Nodes, NewNode(n)
        PROVE  \A u \in Tasks : Queued(u) => Queued(u)'
    BY <1>1, <2>1, TasksTyped DEF NewNode, SpawnTask
  <2>2. ASSUME NEW n \in Nodes, NEW s \in Sizes, NEW peers, Peers(n, peers),
               SendTo(n, peers, s)
        PROVE  \A u \in Tasks : Queued(u) => Queued(u)'
    BY <2>2, SendToSpawns DEF Spawned
  <2> QED BY <1>2, <1>5, <2>1, <2>2, SendCases
          DEF DisconnectAll, Connect, execVars
<1>6. ASSUME NEW m \in DOMAIN messages, Deliver(m)
      PROVE  \A u \in Tasks : Queued(u) => Queued(u)'
  <2>1. InboxLoop(messages[m].dest) \in Tasks
    BY DelaysTyped, TasksTyped DEF Messages
  <2> QED BY <1>1, <1>2, <1>6, <2>1 DEF Deliver, ChannelSend, ReturnReady
<1>7. ASSUME NEW n \in Nodes, Receive(n)
      PROVE  \A u \in Tasks : Queued(u) => Queued(u)'
  <2>1. Head(drained[n]) \in MessageIds
    BY <1>7 DEF Receive, StateInv, StateTypeOK
  <2> QED BY <1>1, <1>7, <2>1, TasksTyped DEF Receive, SpawnTask
<1>8. ASSUME NEW m \in DOMAIN messages, DeliverPending(m) \/ EndHandler(m)
      PROVE  \A u \in Tasks : Queued(u) => Queued(u)'
  BY <1>2, <1>8 DEF DeliverPending, SleepPending, ReturnPending, EndHandler,
                    ReturnReady
<1>9. ASSUME NEW n \in Nodes, RecvPending(n) \/ Recv(n) \/ TransferPending(n)
      PROVE  \A u \in Tasks : Queued(u) => Queued(u)'
  BY <1>2, <1>9 DEF RecvPending, Recv, TransferPending, SleepPending,
                    ReturnPending, execVars
<1>10. CASE UNCHANGED vars
  BY <1>2, <1>10 DEF vars
<1> QED
  BY <1>3, <1>4, <1>5, <1>6, <1>7, <1>8, <1>9, <1>10
     DEF Next, ExecStep, DeliveryStep, InboxStep

(* A task that is awake stays so until its poll returns.                   *)
LEMMA AwakeKept ==
  ASSUME BaseInv, [Next]_vars, NEW t \in Tasks, Awake(t),
         \A m \in DOMAIN messages :
           (DeliverPending(m) \/ Deliver(m) => t # Delivery(m))
             /\ t # Handler(m),
         \A n \in Nodes :
           RecvPending(n) \/ TransferPending(n) => t # InboxLoop(n)
  PROVE  Awake(t)'
<1>1. StateInv /\ ExecTypeOK /\ t # None
  BY NoneAssumption DEF BaseInv, StateInv, StateTypeOK
<1>2. CASE running = t
  BY <1>1, <1>2, PollCases
     DEF Awake, DeliverPending, SleepPending, Deliver, EndHandler, ReturnReady,
         RecvPending, ReturnPending, TransferPending
<1>3. CASE Queued(t) /\ BeginPoll
  <2>1. /\ batch # <<>> /\ running' = Head(batch)
        /\ batch' = Tail(batch) /\ UNCHANGED ready
    BY <1>3 DEF BeginPoll, PollNext
  <2> QED BY <1>1, <1>3, <2>1, DequeueQueued DEF Awake
<1>4. CASE Queued(t) /\ ~BeginPoll
  BY <1>1, <1>4, QueuedKept DEF Awake
<1> QED BY <1>2, <1>3, <1>4 DEF Awake

(* A sleep that is not over leaves an event for its deadline, which is     *)
(* ahead.                                                                  *)
LEMMA SleepHolds ==
  ASSUME BaseInv, NEW t \in Tasks, NEW d \in Nat, SleepPending(t, d)
  PROVE  /\ \A x : Holds(heap, x) => Holds(heap', x)
         /\ Holds(heap', [wake_time |-> wake_time'[t], task |-> t])
         /\ wake_time'[t] = WakeTime(t, d)
         /\ now < wake_time'[t] /\ now' = now
         /\ \A u \in Tasks : u # t => wake_time'[u] = wake_time[u]
<1>1. /\ StateTypeOK /\ Ordered(heap) /\ now \in Nat
      /\ wake_time \in [Tasks -> 0 .. MaxTime] /\ heap \in Seq(Events)
  BY HeapAssumption DEF BaseInv, StateInv, StateTypeOK
<1>2. PICK w : w = WakeTime(t, d)
  OBVIOUS
<1>3. /\ wake_time' = [wake_time EXCEPT ![t] = w]
      /\ Push([wake_time |-> w, task |-> t])
      /\ ~Slept(t, d)
  BY <1>2 DEF SleepPending
<1>4. [wake_time |-> w, task |-> t] \in Events
  BY <1>1, <1>2, SleepEvent
<1>5. wake_time'[t] = w /\ \A u \in Tasks : u # t => wake_time'[u] = wake_time[u]
  BY <1>1, <1>3
<1>6. /\ heap' = HeapPush(heap, [wake_time |-> w, task |-> t])
      /\ now' = now
  BY <1>3 DEF Push
<1>7. \A x : Holds(heap', x) <=> Holds(heap, x) \/ x = [wake_time |-> w, task |-> t]
  BY <1>1, <1>4, <1>6, PushHolds
<1>8. now < w
  <2>1. w \in Nat
    BY <1>4, HeapAssumption DEF Events
  <2> QED BY <1>1, <1>2, <1>3, <2>1 DEF Slept
<1> QED BY <1>2, <1>5, <1>6, <1>7, <1>8

LEMMA SleepAhead ==
  ASSUME BaseInv, NEW t \in Tasks, NEW d \in Nat, SleepPending(t, d)
  PROVE  wake_time'[t] # 0
<1>1. now < wake_time'[t]
  BY SleepHolds
<1>2. now \in Nat
  BY DEF BaseInv, StateInv, StateTypeOK
<1> QED BY <1>1, <1>2

(* The sleep of t changes when its task goes to sleep or goes on.          *)
LEMMA WakeTimeStep ==
  ASSUME BaseInv, [Next]_vars, NEW t \in Tasks
  PROVE  \/ /\ wake_time'[t] = wake_time[t]
            /\ \A m \in DOMAIN messages :
                 DeliverPending(m) \/ Deliver(m) => t # Delivery(m)
            /\ \A n \in Nodes :
                 TransferPending(n) \/ Receive(n) => t # InboxLoop(n)
         \/ \E m \in DOMAIN messages :
              t = Delivery(m) /\ DeliverPending(m)
         \/ \E n \in Nodes : t = InboxLoop(n) /\ TransferPending(n)
         \/ /\ wake_time'[t] = 0
            /\ \/ \E m \in DOMAIN messages : t = Delivery(m) /\ Deliver(m)
               \/ \E n \in Nodes : t = InboxLoop(n) /\ Receive(n)
<1>1. StateInv /\ wake_time \in [Tasks -> 0 .. MaxTime]
  BY DEF BaseInv, StateInv, StateTypeOK
<1>2. ASSUME NEW m \in DOMAIN messages, DeliverPending(m) \/ Deliver(m),
             t # Delivery(m)
      PROVE  wake_time'[t] = wake_time[t]
  BY <1>1, <1>2 DEF DeliverPending, SleepPending, Deliver, EndSleep
<1>3. ASSUME NEW n \in Nodes, TransferPending(n) \/ Receive(n),
             t # InboxLoop(n)
      PROVE  wake_time'[t] = wake_time[t]
  BY <1>1, <1>3 DEF TransferPending, SleepPending, Receive, EndSleep
<1>4. ASSUME NEW m \in DOMAIN messages, Deliver(m), t = Delivery(m)
      PROVE  wake_time'[t] = 0
  BY <1>1, <1>4 DEF Deliver, EndSleep
<1>5. ASSUME NEW n \in Nodes, Receive(n), t = InboxLoop(n)
      PROVE  wake_time'[t] = 0
  BY <1>1, <1>5 DEF Receive, EndSleep
<1> QED BY <1>1, <1>2, <1>3, <1>4, <1>5, WakeTimeCases

SleepOf(t) == [wake_time |-> wake_time[t], task |-> t]

(* A delivery task that does not sleep yet is awake, and so is an inbox    *)
(* loop that has nothing and left no waker; one that has messages sleeps   *)
(* unless it is being polled; every sleeper is awake or has the event of   *)
(* this very sleep.                                                        *)
AwakeInv ==
  /\ \A m \in DOMAIN messages :
       Travels(m) /\ wake_time[Delivery(m)] = 0 => Awake(Delivery(m))
  /\ \A n \in Nodes :
       Exists(n) /\ drained[n] = <<>> /\ ~waker[n] => Awake(InboxLoop(n))
  /\ \A n \in Nodes : drained[n] # <<>> /\ wake_time[InboxLoop(n)] = 0
       => running = InboxLoop(n)
  /\ \A t \in Tasks : wake_time[t] # 0 => Awake(t) \/ Holds(heap, SleepOf(t))
  /\ \A m \in MessageIds : wake_time[Handler(m)] = 0
  /\ \A n \in Nodes : free_at[n] <= now

(* A step is a pop or keeps the events; a popped event queues its task.    *)
LEMMA EventKept ==
  ASSUME BaseInv, [Next]_vars, NEW x, Holds(heap, x)
  PROVE  Holds(heap', x) \/ (x.task \in Tasks /\ Queued(x.task)')
<1>1. /\ StateInv /\ ExecTypeOK /\ Ordered(heap) /\ heap \in Seq(Events)
  BY DEF BaseInv, StateInv, StateTypeOK
<1>2. CASE Advance
  <2>1. PICK e : e = heap[1]
    OBVIOUS
  <2>2. /\ heap # <<>> /\ heap' = HeapPop(heap)
        /\ Wake(e.task) /\ UNCHANGED batch
    BY <1>2, <2>1 DEF Advance, Pop
  <2>3. e \in Events
    BY <1>1, <2>1, <2>2
  <2>4. e.task \in Tasks
    BY <2>3 DEF Events
  <2>5. Queued(e.task)'
    BY <1>1, <2>2, <2>4, WakeQueued
  <2>6. x = e \/ Holds(heap', x)
    BY <1>1, <2>1, <2>2, PopHolds
  <2> QED BY <2>4, <2>5, <2>6
<1>3. ASSUME \/ \E m \in DOMAIN messages : DeliverPending(m)
             \/ \E n \in Nodes : TransferPending(n)
      PROVE  Holds(heap', x)
  <2>1. PICK t \in Tasks, d \in Int : SleepPending(t, d)
    BY <1>1, <1>3, Sleeper
  <2>2. PICK e \in Events : heap' = HeapPush(heap, e)
    BY <1>1, <2>1, SleepEvent DEF SleepPending, Push, StateInv
  <2> QED BY <1>1, <2>2, PushHolds
<1>4. CASE UNCHANGED heap
  BY <1>4
<1>5. \/ Advance \/ UNCHANGED heap
      \/ \E m \in DOMAIN messages : DeliverPending(m)
      \/ \E n \in Nodes : TransferPending(n)
  BY DEF Next, ExecStep, Program, DeliveryStep, InboxStep, Execute, BeginPoll,
         NewNode, DisconnectAll, Connect, Send, Broadcast, SendTo, EndHandler,
         Deliver, RecvPending, Recv, Receive, vars, heapVars
<1> QED BY <1>2, <1>3, <1>4, <1>5

LEMMA DeliveryAwakeNext ==
  ASSUME BaseInv, AwakeInv, [Next]_vars, NEW m \in DOMAIN messages',
         Travels(m)', wake_time'[Delivery(m)] = 0
  PROVE  Awake(Delivery(m))'
<1>1. StateInv
  BY DEF BaseInv
<1>2. CASE m \notin DOMAIN messages
  <2>1. PICK n \in Nodes, s \in Sizes : \E peers :
               Peers(n, peers) /\ SendTo(n, peers, s)
    BY <1>1, <1>2, MessageCases
  <2> QED BY <1>1, <1>2, <2>1, SendToSpawns DEF Spawned, Awake
<1>3. CASE m \in DOMAIN messages
  <2>1. Travels(m) /\ ~Deliver(m)
    BY <1>3, OnItsWay
  <2>2. /\ m \in MessageIds /\ Delivery(m) \in Tasks /\ latency(m) \in Nat
        /\ \A k \in DOMAIN messages : k \in MessageIds
    BY <1>1, <1>3, DelaysTyped, TasksTyped
  <2>3. /\ \A k \in DOMAIN messages : /\ Delivery(k) = Delivery(m) => k = m
                                      /\ Handler(k) # Delivery(m)
        /\ \A n \in Nodes : InboxLoop(n) # Delivery(m)
    BY <2>2, TasksDiffer, TasksTyped
  <2>4. ~DeliverPending(m)
    BY <2>2, SleepAhead DEF DeliverPending
  <2>5. wake_time[Delivery(m)] = 0
    BY <2>1, <2>2, <2>3, <2>4, WakeTimeStep
  <2>6. Awake(Delivery(m))
    BY <1>3, <2>1, <2>5 DEF AwakeInv
  <2> QED BY <2>1, <2>2, <2>3, <2>4, <2>6, AwakeKept
<1> QED BY <1>2, <1>3

LEMMA LoopAwakeNext ==
  ASSUME BaseInv, AwakeInv, [Next]_vars, NEW n \in Nodes,
         Exists(n)', drained'[n] = <<>>, ~waker'[n]
  PROVE  Awake(InboxLoop(n))'
<1>1. /\ StateInv /\ InboxLoop(n) \in Tasks
      /\ \A k \in DOMAIN messages : k \in MessageIds
  BY DelaysTyped, TasksTyped DEF BaseInv
<1>2. /\ \A k \in DOMAIN messages : /\ Delivery(k) # InboxLoop(n)
                                    /\ Handler(k) # InboxLoop(n)
      /\ \A p \in Nodes : InboxLoop(p) = InboxLoop(n) => p = n
  BY <1>1, TasksDiffer, TasksTyped
<1>3. CASE ~Exists(n)
  BY <1>3, NewNodeWaits DEF Awake
<1>4. ~RecvPending(n)
  BY <1>1 DEF RecvPending, StateInv, StateTypeOK
<1>5. CASE Exists(n) /\ drained[n] = <<>> /\ ~waker[n]
  <2>1. Awake(InboxLoop(n)) /\ ~TransferPending(n)
    BY <1>5 DEF AwakeInv, TransferPending
  <2> QED BY <1>1, <1>2, <1>4, <2>1, AwakeKept
<1>6. ASSUME NEW m \in DOMAIN messages, Deliver(m), Exists(n)
      PROVE  Awake(InboxLoop(n))'
  <2>1. drained[n] = <<>>
    BY <1>6 DEF Deliver
  <2>2. waker[n] => Queued(InboxLoop(n))'
    BY <1>6, DeliverWakes
  <2> QED BY <1>5, <1>6, <2>1, <2>2 DEF Awake
<1>7. ASSUME Receive(n)
      PROVE  Awake(InboxLoop(n))'
  BY <1>7 DEF Receive, SpawnTask, Awake
<1>8. ASSUME NEW p \in Nodes,
             \/ p # n /\ (RecvPending(p) \/ Receive(p))
             \/ Recv(p), Exists(n)
      PROVE  Awake(InboxLoop(n))'
  <2>1. drained[n] = <<>> /\ waker[n] = waker'[n]
    BY <1>1, <1>8 DEF RecvPending, Recv, Receive, StateInv, StateTypeOK
  <2> QED BY <1>5, <1>8, <2>1
<1>9. CASE UNCHANGED inboxVars /\ Exists(n)
  BY <1>5, <1>9 DEF inboxVars
<1> QED BY <1>1, <1>3, <1>4, <1>6, <1>7, <1>8, <1>9, ChannelCases

LEMMA LoopBusyNext ==
  ASSUME BaseInv, TimeInv, AwakeInv, [Next]_vars, NEW n \in Nodes,
         drained'[n] # <<>>, wake_time'[InboxLoop(n)] = 0
  PROVE  running' = InboxLoop(n)
<1>1. /\ StateInv /\ InboxLoop(n) \in Tasks /\ InboxLoop(n) # None
      /\ \A k \in DOMAIN messages : k \in MessageIds
  BY DelaysTyped, TasksTyped, NoneAssumption DEF BaseInv
<1>2. /\ \A k \in DOMAIN messages : /\ Delivery(k) # InboxLoop(n)
                                    /\ Handler(k) # InboxLoop(n)
      /\ \A p \in Nodes : InboxLoop(p) = InboxLoop(n) => p = n
  BY <1>1, TasksDiffer, TasksTyped
<1>3. CASE Recv(n) \/ Receive(n)
  BY <1>3 DEF Recv, Receive, SpawnTask, execVars
<1>4. CASE ~Recv(n) /\ ~Receive(n)
  <2>1. drained'[n] = drained[n]
    <3>1. ASSUME NEW p \in Nodes, p # n, Recv(p) \/ Receive(p)
          PROVE  drained'[n] = drained[n]
      BY <1>1, <3>1 DEF Recv, Receive, StateInv, StateTypeOK
    <3> QED BY <1>1, <1>4, <3>1, ChannelCases
            DEF inboxVars, Deliver, RecvPending
  <2>2. ~TransferPending(n)
    <3>1. Head(drained[n]) \in DOMAIN messages
      BY <1>1, <2>1, ListsTyped, RangeTail
    <3> QED BY <1>1, <3>1, DelaysTyped, SleepAhead DEF TransferPending
  <2>3. wake_time[InboxLoop(n)] = 0
    BY <1>1, <1>2, <1>4, <2>2, WakeTimeStep
  <2>4. running = InboxLoop(n) /\ ~RecvPending(n)
    BY <2>1, <2>3 DEF AwakeInv, RecvPending
  <2> QED BY <1>1, <1>2, <2>2, <2>4, PollCases
          DEF DeliverPending, SleepPending, Deliver, EndHandler, ReturnReady,
              RecvPending, ReturnPending, TransferPending
<1> QED BY <1>3, <1>4

LEMMA SleeperNext ==
  ASSUME BaseInv, TimeInv, AwakeInv, [Next]_vars, NEW t \in Tasks,
         wake_time'[t] # 0
  PROVE  Awake(t)' \/ Holds(heap', [wake_time |-> wake_time'[t], task |-> t])
<1>1. StateInv /\ \A k \in DOMAIN messages : k \in MessageIds
  BY DelaysTyped DEF BaseInv
<1>2. ASSUME NEW m \in DOMAIN messages, t = Delivery(m), DeliverPending(m)
      PROVE  Holds(heap', [wake_time |-> wake_time'[t], task |-> t])
  BY <1>1, <1>2, DelaysTyped, SleepHolds DEF DeliverPending
<1>3. ASSUME NEW n \in Nodes, t = InboxLoop(n), TransferPending(n)
      PROVE  Holds(heap', [wake_time |-> wake_time'[t], task |-> t])
  <2>1. Head(drained[n]) \in DOMAIN messages
    BY <1>1, <1>3, ListsTyped, RangeTail DEF TransferPending
  <2> QED BY <1>1, <1>3, <2>1, DelaysTyped, SleepHolds DEF TransferPending
<1>4. ASSUME wake_time'[t] = wake_time[t],
             \A m \in DOMAIN messages :
               DeliverPending(m) \/ Deliver(m) => t # Delivery(m),
             \A n \in Nodes : TransferPending(n) \/ Receive(n) => t # InboxLoop(n)
      PROVE  Awake(t)' \/ Holds(heap', [wake_time |-> wake_time'[t], task |-> t])
  <2>1. CASE Awake(t)
    <3>1. \A m \in DOMAIN messages : t # Handler(m)
      BY <1>1, <1>4 DEF AwakeInv
    <3>2. \A n \in Nodes : RecvPending(n) => t # InboxLoop(n)
      BY <1>4 DEF RecvPending, TimeInv
    <3> QED BY <1>4, <2>1, <3>1, <3>2, AwakeKept
  <2>2. CASE Holds(heap, SleepOf(t))
    <3>1. Holds(heap, [wake_time |-> wake_time'[t], task |-> t])
      BY <1>4, <2>2 DEF SleepOf
    <3> QED BY <3>1, EventKept DEF Awake
  <2> QED BY <1>4, <2>1, <2>2 DEF AwakeInv
<1> QED BY <1>2, <1>3, <1>4, WakeTimeStep

LEMMA FreeAtCases ==
  ASSUME [Next]_vars
  PROVE  UNCHANGED free_at \/ \E n \in Nodes : Receive(n)
<1>1. CASE Program
  BY <1>1, SendCases DEF NewNode, DisconnectAll, Connect, SendTo
<1> QED
  BY <1>1 DEF Next, ExecStep, DeliveryStep, InboxStep, Execute, BeginPoll,
              Advance, EndHandler, DeliverPending, SleepPending, Deliver,
              RecvPending, Recv, TransferPending, vars

LEMMA AwakeNext ==
  ASSUME NetInv, TimeInv, AwakeInv, [Next]_vars
  PROVE  AwakeInv'
<1>1. BaseInv /\ StateInv /\ \A k \in DOMAIN messages : k \in MessageIds
  BY DelaysTyped DEF NetInv, BaseInv
<1>2. ASSUME NEW m \in MessageIds
      PROVE  wake_time'[Handler(m)] = 0
  <2>1. /\ Handler(m) \in Tasks
        /\ \A k \in DOMAIN messages : Delivery(k) # Handler(m)
        /\ \A n \in Nodes : InboxLoop(n) # Handler(m)
    BY <1>1, TasksTyped
  <2> QED BY <1>1, <2>1, WakeTimeStep DEF AwakeInv
<1>3. ASSUME NEW n \in Nodes
      PROVE  free_at'[n] <= now'
  <2>1. /\ now \in Nat /\ now' \in Nat /\ now <= now'
        /\ free_at \in [Nodes -> 0 .. MaxTime]
    BY <1>1, StateNext, EventsAheadNext DEF TimeInv, StateInv, StateTypeOK
  <2>2. free_at[n] <= now
    BY DEF AwakeInv
  <2>3. free_at'[n] = free_at[n] \/ free_at'[n] = now
    <3>1. ASSUME NEW p \in Nodes, Receive(p)
          PROVE  free_at'[n] = free_at[n] \/ free_at'[n] = now
      BY <2>1, <3>1 DEF Receive
    <3> QED BY <3>1, FreeAtCases
  <2> QED BY <2>1, <2>2, <2>3
<1> QED
  BY <1>1, <1>2, <1>3, DeliveryAwakeNext, LoopAwakeNext, LoopBusyNext,
     SleeperNext DEF AwakeInv, SleepOf

-----------------------------------------------------------------------------
(* Transfers under a driver that is never hasty.                           *)

Arrival(m) == messages[m].sent + latency(m)

(* When the transfer of m begins.                                          *)
Turn(m) == Latest(Arrival(m), free_at[messages[m].dest])

First(m, q) == q # <<>> /\ m = Head(q)

NotOverdue == \A t \in Tasks : wake_time[t] # 0 => now <= wake_time[t]

OutOnTime(m) ==
  /\ Travels(m) /\ wake_time[Delivery(m)] = 0 => messages[m].sent = now
  /\ wake_time[Delivery(m)] # 0 => wake_time[Delivery(m)] = Arrival(m)

InOnTime(m) ==
  LET n == messages[m].dest
      w == wake_time[InboxLoop(n)]
  IN  /\ First(m, drained[n]) =>
           IF w = 0 THEN Turn(m) = now ELSE w = Turn(m) + size_delay(m)
      /\ First(m, inbox[n]) /\ drained[n] = <<>> => Turn(m) = now

(* No one oversleeps; a delivery task sleeps from the moment of the send,  *)
(* and the next transfer of a node begins without delay.                   *)
OnTime ==
  NotOverdue /\ \A m \in DOMAIN messages : OutOnTime(m) /\ InOnTime(m)

ExactInv == ~hasty => OnTime

LEMMA PatientStep ==
  ASSUME [Next]_vars, ~hasty'
  PROVE  ~hasty /\ (Advance => ready = <<>>)
<1>1. CASE Advance
  <2>1. hasty' = (hasty \/ ready # <<>>)
    BY <1>1 DEF Advance
  <2> QED BY <2>1, Zenon
<1>2. ASSUME Program
      PROVE  UNCHANGED hasty
  BY <1>2, SendCases DEF NewNode, DisconnectAll, Connect, SendTo
<1>3. Advance \/ Program \/ UNCHANGED hasty
  BY DEF Next, ExecStep, DeliveryStep, InboxStep, Execute, BeginPoll,
         EndHandler, DeliverPending, SleepPending, Deliver, RecvPending, Recv,
         TransferPending, Receive, vars
<1> QED BY <1>1, <1>2, <1>3

(* Such a driver moves the clock when all sleep.                           *)
LEMMA AllAsleep ==
  ASSUME Advance, ready = <<>>
  PROVE  \A t \in Tasks : ~Awake(t)
BY RangeEmpty, NoneAssumption DEF Advance, BatchDone, Awake, Queued

LEMMA ClockCases ==
  ASSUME StateInv, [Next]_vars, ~Advance
  PROVE  now' = now
<1>1. CASE \/ \E m \in DOMAIN messages : DeliverPending(m)
           \/ \E n \in Nodes : TransferPending(n)
  BY <1>1 DEF DeliverPending, TransferPending, SleepPending, Push
<1>2. CASE Program
  BY <1>2, SendCases DEF NewNode, DisconnectAll, Connect, SendTo, heapVars
<1> QED
  BY <1>1, <1>2 DEF Next, ExecStep, DeliveryStep, InboxStep, Execute,
     BeginPoll, EndHandler, Deliver, RecvPending, Recv, Receive, heapVars, vars

LEMMA NotOverdueNext ==
  ASSUME BaseInv, AwakeInv, NotOverdue, [Next]_vars, Advance => ready = <<>>
  PROVE  NotOverdue'
<1>1. /\ StateInv /\ Ordered(heap) /\ heap \in Seq(Events) /\ now \in Nat
  BY DEF BaseInv, StateInv, StateTypeOK
<1> SUFFICES ASSUME NEW t \in Tasks, wake_time'[t] # 0
             PROVE  now' <= wake_time'[t]
  BY DEF NotOverdue
<1>2. ASSUME NEW d \in Nat, SleepPending(t, d)
      PROVE  now' <= wake_time'[t]
  <2>1. now < wake_time'[t] /\ now' = now
    BY <1>2, SleepHolds
  <2>2. wake_time'[t] \in Nat
    BY <1>1, <1>2, SleepTyped DEF StateInv
  <2> QED BY <1>1, <2>1, <2>2
<1>3. CASE Advance
  <2>1. /\ wake_time' = wake_time /\ heap # <<>>
        /\ now' = heap[1].wake_time
    BY <1>3 DEF Advance, Pop
  <2>2. Holds(heap, SleepOf(t))
    BY <1>3, <2>1, AllAsleep DEF AwakeInv
  <2>3. SleepOf(t).wake_time = wake_time[t]
    BY DEF SleepOf
  <2> QED BY <1>1, <2>1, <2>2, <2>3, RootIsEarliest DEF Holds
<1>4. CASE wake_time'[t] = wake_time[t] /\ ~Advance
  BY <1>1, <1>4, ClockCases DEF NotOverdue
<1>5. ASSUME NEW m \in DOMAIN messages, t = Delivery(m), DeliverPending(m)
      PROVE  now' <= wake_time'[t]
  BY <1>1, <1>2, <1>5, DelaysTyped DEF DeliverPending
<1>6. ASSUME NEW n \in Nodes, t = InboxLoop(n), TransferPending(n)
      PROVE  now' <= wake_time'[t]
  <2>1. Head(drained[n]) \in DOMAIN messages
    BY <1>1, <1>6, ListsTyped, RangeTail DEF TransferPending
  <2> QED BY <1>1, <1>2, <1>6, <2>1, DelaysTyped DEF TransferPending
<1> QED BY <1>3, <1>4, <1>5, <1>6, WakeTimeStep

LEMMA ArrivalExact ==
  ASSUME NetInv, TimeInv, NotOverdue, NEW m \in DOMAIN messages,
         OutOnTime(m), Deliver(m)
  PROVE  now = Arrival(m)
<1>1. StateInv
  BY DEF NetInv, BaseInv
<1>2. /\ m \in MessageIds /\ latency(m) \in Nat /\ now \in Nat
      /\ messages[m].sent \in Nat
  <2>1. m \in MessageIds /\ latency(m) \in Nat /\ messages[m].sent \in Nat
    BY <1>1, DelaysTyped DEF Messages
  <2> QED BY <1>1, <2>1 DEF StateInv, StateTypeOK
<1>3. Arrival(m) <= now
  BY LatencyPassed DEF Arrival
<1>4. Travels(m) /\ Delivery(m) \in Tasks
  BY <1>2, TasksTyped DEF Deliver, Travels
<1>5. now <= Arrival(m)
  BY <1>2, <1>4 DEF OutOnTime, NotOverdue, Arrival
<1> QED BY <1>2, <1>3, <1>5 DEF Arrival

LEMMA TransferExact ==
  ASSUME NetInv, TimeInv, AwakeInv, OnTime, NEW n \in Nodes, Receive(n),
         NEW m \in DOMAIN messages, m = Head(drained[n])
  PROVE  now = Turn(m) + size_delay(m)
<1>1. StateInv /\ PlaceInv
  BY DEF NetInv, BaseInv
<1>2. /\ drained[n] # <<>> /\ Slept(InboxLoop(n), size_delay(m))
  BY DEF Receive
<1>3. m \in Range(drained[n]) /\ messages[m].dest = n /\ InLoop(m)
  BY <1>1, <1>2, ListsTyped, RangeTail DEF PlaceInv, ListOf, InLoop
<1>4. /\ Arrival(m) \in Nat /\ size_delay(m) \in Nat /\ now \in Nat
      /\ free_at[n] \in Nat /\ wake_time[InboxLoop(n)] \in Nat
  <2>1. Arrival(m) \in Nat /\ size_delay(m) \in Nat
    BY <1>1, DelaysTyped DEF Messages, Arrival
  <2> QED BY <1>1, <2>1, TasksTyped DEF StateInv, StateTypeOK
<1>5. Arrival(m) <= now /\ free_at[n] <= now
  BY <1>3 DEF TimeInv, AwakeInv, Arrival
<1>6. Turn(m) \in Nat /\ Turn(m) <= now
  BY <1>3, <1>4, <1>5 DEF Turn, Latest
<1>7. CASE wake_time[InboxLoop(n)] = 0
  <2>1. Turn(m) = now
    BY <1>2, <1>3, <1>7 DEF OnTime, InOnTime, First
  <2> QED BY <1>2, <1>4, <1>7, <2>1 DEF Slept, WakeTime
<1>8. CASE wake_time[InboxLoop(n)] # 0
  <2>1. wake_time[InboxLoop(n)] = Turn(m) + size_delay(m)
    BY <1>2, <1>3, <1>8 DEF OnTime, InOnTime, First
  <2>2. now <= wake_time[InboxLoop(n)]
    BY <1>8, TasksTyped DEF OnTime, NotOverdue
  <2> QED BY <1>2, <1>4, <1>6, <1>8, <2>1, <2>2 DEF Slept, WakeTime
<1> QED BY <1>7, <1>8

LEMMA OutOnTimeNext ==
  ASSUME NetInv, TimeInv, AwakeInv, OnTime, [Next]_vars,
         Advance => ready = <<>>, NEW m \in DOMAIN messages'
  PROVE  OutOnTime(m)'
<1>1. BaseInv /\ StateInv
  BY DEF NetInv, BaseInv
<1>2. CASE m \notin DOMAIN messages
  <2>1. PICK n \in Nodes, s \in Sizes : \E peers :
               Peers(n, peers) /\ SendTo(n, peers, s)
    BY <1>1, <1>2, MessageCases
  <2>2. PICK peers : Peers(n, peers) /\ SendTo(n, peers, s)
    BY <2>1
  <2>3. messages'[m].sent = now /\ m \in MessageIds
    BY <1>1, <1>2, <2>2, SendToSends, SendToSpawns DEF Sent, Spawned
  <2>4. now' = now /\ wake_time' = wake_time
    BY <2>2 DEF SendTo, heapVars
  <2>5. wake_time[Delivery(m)] = 0
    BY <1>2, <2>3 DEF TimeInv
  <2> QED BY <2>3, <2>4, <2>5 DEF OutOnTime
<1>3. CASE m \in DOMAIN messages
  <2>1. /\ m \in MessageIds /\ Delivery(m) \in Tasks /\ latency(m) \in Nat
        /\ \A k \in DOMAIN messages : Delivery(k) = Delivery(m) => k = m
        /\ \A n \in Nodes : InboxLoop(n) # Delivery(m)
    BY <1>1, <1>3, DelaysTyped, TasksDiffer, TasksTyped
  <2>2. messages'[m] = messages[m] /\ Arrival(m)' = Arrival(m)
    BY <1>1, <1>3, RouteStays DEF Arrival
  <2>3. OutOnTime(m)
    BY <1>3 DEF OnTime
  <2>4. CASE DeliverPending(m)
    <3>1. /\ wake_time'[Delivery(m)] = WakeTime(Delivery(m), latency(m))
          /\ wake_time'[Delivery(m)] # 0
      BY <1>1, <2>1, <2>4, SleepHolds, SleepAhead DEF DeliverPending
    <3>2. Travels(m)
      BY <2>4 DEF DeliverPending, SleepPending, Travels
    <3>3. wake_time'[Delivery(m)] = Arrival(m)
      BY <2>3, <3>1, <3>2 DEF OutOnTime, WakeTime, Arrival
    <3> QED BY <2>2, <3>1, <3>3 DEF OutOnTime
  <2>5. ASSUME Travels(m)', wake_time'[Delivery(m)] = 0
        PROVE  messages[m].sent = now'
    <3>1. Travels(m) /\ ~Deliver(m) /\ ~DeliverPending(m)
      BY <1>1, <1>3, <2>1, <2>5, OnItsWay, SleepAhead DEF DeliverPending
    <3>2. wake_time[Delivery(m)] = 0
      BY <1>1, <2>1, <2>5, <3>1, WakeTimeStep
    <3>3. Awake(Delivery(m))
      BY <1>3, <3>1, <3>2 DEF AwakeInv
    <3>4. now' = now
      BY <1>1, <2>1, <3>3, AllAsleep, ClockCases
    <3> QED BY <2>3, <3>1, <3>2, <3>4 DEF OutOnTime
  <2>6. CASE ~DeliverPending(m) /\ wake_time'[Delivery(m)] # 0
    <3>1. wake_time'[Delivery(m)] = wake_time[Delivery(m)]
      BY <1>1, <2>1, <2>6, WakeTimeStep
    <3> QED BY <2>2, <2>3, <2>6, <3>1 DEF OutOnTime
  <2>7. CASE wake_time'[Delivery(m)] = 0
    BY <2>2, <2>5, <2>7 DEF OutOnTime
  <2> QED BY <2>4, <2>6, <2>7
<1> QED BY <1>2, <1>3

(* The step of the next transfer of node n, whose inbox loop is L: what it *)
(* took stays in time, ...                                                 *)
LEMMA TakenOnTime ==
  ASSUME NetInv, TimeInv, AwakeInv, [Next]_vars, Advance => ready = <<>>,
         NEW n \in Nodes, NEW L, L = InboxLoop(n),
         NEW m \in DOMAIN messages, messages[m].dest = n,
         First(m, drained'[n]),
         First(m, drained[n]) =>
           IF wake_time[L] = 0 THEN Turn(m) = now
           ELSE wake_time[L] = Turn(m) + size_delay(m),
         First(m, inbox[n]) /\ drained[n] = <<>> => Turn(m) = now
  PROVE  LET turn == Latest(Arrival(m), free_at'[n])
         IN  IF wake_time'[L] = 0 THEN turn = now'
             ELSE wake_time'[L] = turn + size_delay(m)
<1>1. /\ BaseInv /\ StateInv /\ now \in Nat
      /\ drained \in [Nodes -> Seq(MessageIds)] /\ free_at \in [Nodes -> 0 .. MaxTime]
      /\ wake_time \in [Tasks -> 0 .. MaxTime]
  BY DEF NetInv, BaseInv, StateInv, StateTypeOK
<1>2. /\ L \in Tasks
      /\ \A k \in DOMAIN messages : Delivery(k) # L
      /\ \A p \in Nodes : InboxLoop(p) = L => p = n
  BY <1>1, DelaysTyped, TasksTyped, TasksDiffer
<1>3. PICK a \in Nat : a = Arrival(m)
  BY <1>1, DelaysTyped DEF Messages, Arrival
<1>4. PICK d \in Nat : d = size_delay(m)
  BY <1>1, DelaysTyped
<1>5. Turn(m) = Latest(a, free_at[n])
  BY <1>3 DEF Turn
<1>6. CASE Recv(n)
  <2>1. /\ drained[n] = <<>> /\ drained'[n] = inbox[n]
        /\ wake_time' = wake_time /\ free_at' = free_at /\ now' = now
    BY <1>1, <1>6 DEF Recv, heapVars
  <2>2. wake_time[L] = 0
    BY <2>1 DEF TimeInv
  <2>3. Turn(m) = now
    BY <2>1
  <2> QED BY <1>3, <1>5, <2>1, <2>2, <2>3
<1>7. CASE Receive(n)
  <2>1. /\ drained[n] # <<>> /\ drained'[n] = Tail(drained[n])
        /\ wake_time'[L] = 0 /\ free_at'[n] = now /\ now' = now
    BY <1>1, <1>2, <1>7 DEF Receive, EndSleep, heapVars
  <2>2. m \in Range(Tail(drained[n]))
    <3>1. Tail(drained[n]) \in Seq(MessageIds)
      BY <1>1, <2>1
    <3>2. Tail(drained[n]) # <<>> /\ m = Head(Tail(drained[n]))
      BY <2>1 DEF First
    <3> DEFINE rest == Tail(drained[n])
    <3> HIDE DEF rest
    <3>3. rest \in Seq(MessageIds) /\ rest # <<>> /\ m = Head(rest)
      BY <3>1, <3>2 DEF rest
    <3>4. m \in Range(rest)
      BY <3>3, RangeTail
    <3> QED BY <3>4 DEF rest
  <2>3. InLoop(m)
    BY <1>1, <2>1, <2>2, RangeTail DEF InLoop
  <2>4. a <= now
    BY <1>3, <2>3 DEF TimeInv, Arrival
  <2>5. Latest(a, now) = now
    BY <1>1, <2>4 DEF Latest
  <2> QED BY <1>3, <2>1, <2>5
<1>8. CASE ~Recv(n) /\ ~Receive(n)
  <2>1. drained'[n] = drained[n]
    <3>1. ASSUME NEW p \in Nodes, p # n, Recv(p) \/ Receive(p)
          PROVE  drained'[n] = drained[n]
      BY <1>1, <3>1 DEF Recv, Receive
    <3> QED BY <1>1, <1>8, <3>1, ChannelCases
            DEF inboxVars, Deliver, RecvPending
  <2>2. free_at'[n] = free_at[n]
    <3>1. ASSUME NEW p \in Nodes, p # n, Receive(p)
          PROVE  free_at'[n] = free_at[n]
      BY <1>1, <3>1 DEF Receive
    <3> QED BY <1>8, <3>1, FreeAtCases
  <2>3. IF wake_time[L] = 0 THEN Latest(a, free_at[n]) = now
        ELSE wake_time[L] = Latest(a, free_at[n]) + d
    BY <1>4, <1>5, <2>1
  <2>4. CASE TransferPending(n)
    <3>1. SleepPending(L, d)
      BY <1>4, <2>1, <2>4 DEF TransferPending, First
    <3>2. wake_time'[L] = WakeTime(L, d) /\ wake_time'[L] # 0
      BY <1>1, <1>2, <3>1, SleepHolds, SleepAhead
    <3>3. wake_time'[L] = Latest(a, free_at[n]) + d
      BY <2>3, <3>2 DEF WakeTime
    <3> QED BY <1>3, <1>4, <2>2, <3>2, <3>3
  <2>5. CASE ~TransferPending(n)
    <3>1. wake_time'[L] = wake_time[L]
      BY <1>1, <1>2, <1>8, <2>5, WakeTimeStep
    <3>2. wake_time[L] = 0 => now' = now
      <4>1. wake_time[L] = 0 => Awake(L)
        BY <2>1 DEF AwakeInv, Awake, First
      <4> QED BY <1>1, <1>2, <4>1, AllAsleep, ClockCases
    <3> QED BY <1>3, <1>4, <2>2, <2>3, <3>1, <3>2
  <2> QED BY <2>4, <2>5
<1> QED BY <1>6, <1>7, <1>8

(* ... and so does what it will take.                                      *)
LEMMA ChannelOnTime ==
  ASSUME NetInv, TimeInv, AwakeInv, OnTime, [Next]_vars,
         Advance => ready = <<>>,
         NEW n \in Nodes, NEW m \in DOMAIN messages, messages[m].dest = n,
         First(m, inbox'[n]), drained'[n] = <<>>
  PROVE  Latest(Arrival(m), free_at'[n]) = now'
<1>1. /\ BaseInv /\ StateInv /\ PlaceInv /\ now \in Nat
      /\ inbox \in [Nodes -> Seq(MessageIds)]
      /\ drained \in [Nodes -> Seq(MessageIds)] /\ free_at \in [Nodes -> 0 .. MaxTime]
  BY DEF NetInv, BaseInv, StateInv, StateTypeOK
<1>2. PICK a \in Nat : a = Arrival(m)
  BY <1>1, DelaysTyped DEF Messages, Arrival
<1>3. Turn(m) = Latest(a, free_at[n])
  BY <1>2 DEF Turn
<1>4. First(m, inbox[n]) /\ drained[n] = <<>> => Latest(a, free_at[n]) = now
  BY <1>3 DEF OnTime, InOnTime
<1>5. ~Recv(n)
  BY <1>1 DEF Recv, First
<1>6. CASE Receive(n)
  <2>1. free_at'[n] = now /\ now' = now /\ inbox'[n] = inbox[n]
    BY <1>1, <1>6 DEF Receive, heapVars
  <2>2. m \in Range(inbox[n])
    BY <1>1, <2>1, RangeTail DEF First
  <2>3. a <= now
    BY <1>2, <2>2 DEF TimeInv, Arrival, InInbox
  <2> QED BY <1>1, <1>2, <2>1, <2>3 DEF Latest
<1>7. CASE ~Receive(n)
  <2>1. drained[n] = <<>> /\ free_at'[n] = free_at[n]
    <3>1. ASSUME NEW p \in Nodes, p # n, Recv(p) \/ Receive(p)
          PROVE  drained'[n] = drained[n]
      BY <1>1, <3>1 DEF Recv, Receive
    <3>2. ASSUME NEW p \in Nodes, p # n, Receive(p)
          PROVE  free_at'[n] = free_at[n]
      BY <1>1, <3>2 DEF Receive
    <3>3. drained'[n] = drained[n]
      BY <1>1, <1>5, <1>7, <3>1, ChannelCases
         DEF inboxVars, Deliver, RecvPending
    <3> QED BY <1>7, <3>2, <3>3, FreeAtCases
  <2>2. ASSUME NEW k \in DOMAIN messages, Deliver(k)
        PROVE  Latest(a, free_at'[n]) = now'
    <3>1. now' = now
      BY <2>2 DEF Deliver, heapVars
    <3>2. CASE First(m, inbox[n])
      BY <1>4, <2>1, <3>1, <3>2
    <3>3. CASE ~First(m, inbox[n])
      <4>1. k \in MessageIds
        BY <1>1, DelaysTyped
      <4>2. inbox'[n] = inbox[n] \/ inbox'[n] = Append(inbox[n], k)
        BY <1>1, <2>2 DEF Deliver, ChannelSend
      <4>3. inbox[n] # <<>> => Head(Append(inbox[n], k)) = Head(inbox[n])
        BY <1>1, <4>1
      <4>4. inbox[n] = <<>> => Head(Append(inbox[n], k)) = k
        BY <1>1, <4>1
      <4>5. k = m
        BY <3>3, <4>2, <4>3, <4>4 DEF First
      <4>6. a = now
        BY <1>2, <2>2, <4>5, ArrivalExact DEF OnTime
      <4>7. free_at[n] <= now
        BY DEF AwakeInv
      <4> QED BY <1>1, <2>1, <3>1, <4>6, <4>7 DEF Latest
    <3> QED BY <3>2, <3>3
  <2>3. ASSUME inbox'[n] = inbox[n], UNCHANGED now
        PROVE  Latest(a, free_at'[n]) = now'
    BY <1>4, <2>1, <2>3
  <2>4. ~Advance
    <3>1. ASSUME Advance
          PROVE  FALSE
      <4>1. inbox[n] # <<>> /\ ~Awake(InboxLoop(n))
        BY <3>1, AllAsleep, TasksTyped DEF Advance, inboxVars, First
      <4>2. Exists(n) /\ ~waker[n]
        BY <4>1 DEF NetInv, BaseInv, PollInv, ReachInv
      <4> QED BY <2>1, <4>1, <4>2 DEF AwakeInv
    <3> QED BY <3>1
  <2>5. now' = now
    BY <1>1, <2>4, ClockCases
  <2>6. ASSUME NEW p \in Nodes, RecvPending(p) \/ (p # n /\ (Recv(p) \/ Receive(p)))
        PROVE  inbox'[n] = inbox[n]
    BY <1>1, <2>6 DEF RecvPending, Recv, Receive
  <2> QED BY <1>1, <1>2, <1>5, <1>7, <2>2, <2>3, <2>5, <2>6, ChannelCases
          DEF inboxVars
<1> QED BY <1>2, <1>6, <1>7

LEMMA InOnTimeNext ==
  ASSUME NetInv, TimeInv, AwakeInv, OnTime, [Next]_vars,
         Advance => ready = <<>>, NEW m \in DOMAIN messages'
  PROVE  InOnTime(m)'
<1>1. BaseInv /\ StateInv
  BY DEF NetInv, BaseInv
<1>2. CASE m \notin DOMAIN messages
  <2>1. PICK n \in Nodes, s \in Sizes : \E peers :
               Peers(n, peers) /\ SendTo(n, peers, s)
    BY <1>1, <1>2, MessageCases
  <2>2. PICK p \in Nodes : p = messages'[m].dest
    BY <1>1, <1>2, <2>1, SendToSpawns DEF Spawned
  <2>3. inbox' = inbox /\ drained' = drained
    BY <2>1 DEF SendTo, inboxVars
  <2>4. ~First(m, inbox[p]) /\ ~First(m, drained[p])
    BY <1>1, <1>2, ListsTyped, RangeTail DEF First
  <2> QED BY <2>2, <2>3, <2>4 DEF InOnTime, First
<1>3. CASE m \in DOMAIN messages
  <2>1. PICK n \in Nodes : n = messages[m].dest
    BY <1>1, <1>3, DelaysTyped DEF Messages
  <2>2. PICK L : L = InboxLoop(n)
    OBVIOUS
  <2>3. /\ messages'[m] = messages[m] /\ Arrival(m)' = Arrival(m)
        /\ size_delay(m)' = size_delay(m)
    BY <1>1, <1>3, RouteStays DEF Arrival
  <2>4. Turn(m)' = Latest(Arrival(m), free_at'[n])
    BY <2>1, <2>3 DEF Turn
  <2>5. /\ First(m, drained[n]) =>
             IF wake_time[L] = 0 THEN Turn(m) = now
             ELSE wake_time[L] = Turn(m) + size_delay(m)
        /\ First(m, inbox[n]) /\ drained[n] = <<>> => Turn(m) = now
    BY <1>3, <2>1, <2>2 DEF OnTime, InOnTime
  <2>6. First(m, drained'[n]) =>
          IF wake_time'[L] = 0 THEN Turn(m)' = now'
          ELSE wake_time'[L] = Turn(m)' + size_delay(m)
    BY <1>3, <2>1, <2>2, <2>4, <2>5, TakenOnTime
  <2>7. First(m, inbox'[n]) /\ drained'[n] = <<>> => Turn(m)' = now'
    BY <1>3, <2>1, <2>4, ChannelOnTime
  <2> QED BY <2>1, <2>2, <2>3, <2>6, <2>7 DEF InOnTime, First
<1> QED BY <1>2, <1>3

ExactTimeInv == TransitInv /\ AwakeInv /\ ExactInv

LEMMA ExactTimeCorrect == Spec => []ExactTimeInv
<1>1. ASSUME Init
      PROVE  AwakeInv /\ ExactInv
  <2>1. /\ DOMAIN messages = {} /\ now = 0
        /\ \A t \in Tasks : wake_time[t] = 0 /\ future[t] = "unborn"
        /\ \A n \in Nodes : drained[n] = <<>> /\ free_at[n] = 0
    BY <1>1 DEF Init, HeapInit, ExecInit
  <2>2. \A n \in Nodes : ~Exists(n)
    BY <2>1, TasksTyped DEF Exists
  <2>3. AwakeInv
    BY <2>1, <2>2, TasksTyped DEF AwakeInv
  <2>4. ExactInv
    BY <2>1 DEF ExactInv, OnTime, NotOverdue
  <2> QED BY <2>3, <2>4
<1>2. ASSUME TransitInv, AwakeInv, ExactInv, [Next]_vars
      PROVE  AwakeInv' /\ ExactInv'
  <2>1. NetInv /\ TimeInv /\ BaseInv
    BY <1>2 DEF TransitInv, NetInv
  <2>2. AwakeInv'
    BY <1>2, <2>1, AwakeNext
  <2>3. ASSUME ~hasty'
        PROVE  OnTime'
    <3>1. OnTime /\ (Advance => ready = <<>>)
      BY <1>2, <2>3, PatientStep DEF ExactInv
    <3>2. NotOverdue'
      BY <1>2, <2>1, <3>1, NotOverdueNext DEF OnTime
    <3> QED BY <1>2, <2>1, <3>1, <3>2, OutOnTimeNext, InOnTimeNext DEF OnTime
  <2> QED BY <2>2, <2>3 DEF ExactInv
<1>3. TransitInv /\ AwakeInv /\ ExactInv /\ [Next]_vars => AwakeInv' /\ ExactInv'
  BY <1>2
<1> QED BY <1>1, <1>3, TransitInvCorrect, PTL DEF Spec, ExactTimeInv

(***************************************************************************)
(* Under a driver that never moves the clock past a task that is ready, a  *)
(* message is handed over exactly its transfer time after its arrival or   *)
(* after the message before it, whichever is later: latencies overlap, and *)
(* transfers to one node follow each other without a gap.                  *)
(***************************************************************************)
THEOREM TransfersExact == Spec => ExactTransfer
<1>1. ASSUME ExactTimeInv, [Next]_vars, NEW m \in MessageIds,
             UnderWay(m), ~UnderWay(m)', ~hasty
      PROVE  now = Latest(messages[m].sent + latency(m),
                          free_at[messages[m].dest]) + size_delay(m)
  <2>1. /\ NetInv /\ TimeInv /\ AwakeInv /\ OnTime /\ StateInv
        /\ m \in DOMAIN messages
    BY <1>1 DEF ExactTimeInv, ExactInv, TransitInv, NetInv, BaseInv, UnderWay
  <2>2. m \in DOMAIN messages' /\ future'[Handler(m)] # "unborn"
        /\ future[Handler(m)] = "unborn"
    BY <1>1, <2>1, RouteStays DEF UnderWay
  <2>3. PICK n \in Nodes : Receive(n)
    BY <1>1, <2>1, <2>2, QuietCases, SendToSends DEF Sent
  <2>4. m = Head(drained[n])
    <3>1. PICK k : k = Head(drained[n])
      OBVIOUS
    <3>2. k \in MessageIds
      BY <2>1, <2>3, <3>1 DEF Receive, StateInv, StateTypeOK
    <3>3. future' = [future EXCEPT ![Handler(k)] = "some"]
      BY <2>3, <3>1 DEF Receive, SpawnTask
    <3>4. Handler(k) = Handler(m)
      BY <1>1, <2>1, <2>2, <3>3, TasksTyped
         DEF StateInv, StateTypeOK, ExecTypeOK
    <3> QED BY <3>1, <3>2, <3>4, TasksTyped
  <2>5. now = Turn(m) + size_delay(m)
    BY <2>1, <2>3, <2>4, TransferExact
  <2> QED BY <2>5 DEF Turn, Arrival
<1>2. ExactTimeInv /\ [Next]_vars =>
        [\A m \in MessageIds :
           UnderWay(m) /\ ~UnderWay(m)' /\ ~hasty =>
             now = Latest(messages[m].sent + latency(m),
                          free_at[messages[m].dest]) + size_delay(m)]_vars
  BY <1>1
<1> QED BY <1>2, ExactTimeCorrect, PTL DEF Spec, ExactTransfer
=============================================================================
