------------------------------ MODULE TimerHeap -----------------------------
(***************************************************************************)
(* Timer.time_events as it is built: a std BinaryHeap of Reverse(TimeEvent)*)
(* (src/src/time/timer.rs; the heap itself is std's, modelled from its     *)
(* push and pop).  The heap orders events by wake time only, so what it    *)
(* promises is the bag of module Timer.                                    *)
(***************************************************************************)
EXTENDS TaskIds, Naturals, Sequences, FiniteSets

CONSTANT
  MaxTime    \* the largest value of the u64 that holds a time

ASSUME HeapAssumption == MaxTime \in Nat

VARIABLES
  now,    \* Timer.current_time
  heap    \* the Vec under the BinaryHeap, root first

heapVars == <<now, heap>>

Events == [wake_time : 0 .. MaxTime, task : Tasks]

-----------------------------------------------------------------------------
(* TimeEvent::cmp under Reverse: a <= b in the order of the heap.          *)
Le(a, b) == b.wake_time <= a.wake_time

(* BinaryHeap::sift_up: e rises from the hole at i while it exceeds the    *)
(* parent; the elements it passes move down.                               *)
SiftUp(h, i, e) ==
  LET rise[j \in 1 .. i] ==   \* the positions the hole passes
        IF j = 1 \/ Le(e, h[j \div 2]) THEN {j} ELSE {j} \cup rise[j \div 2]
  IN  [j \in 1 .. Len(h) |->
         IF j \notin rise[i] THEN h[j]
         ELSE IF j = 1 \/ j \div 2 \notin rise[i] THEN e ELSE h[j \div 2]]

(* The greater child, the right one on a tie.                              *)
GreaterChild(h, i) ==
  IF 2 * i < Len(h) /\ Le(h[2 * i], h[2 * i + 1]) THEN 2 * i + 1 ELSE 2 * i

(* BinaryHeap::sift_down_to_bottom: the root sinks to a leaf along the     *)
(* greater children and rises again from it.                               *)
SiftDownToBottom(h) ==
  LET sink[j \in 1 .. Len(h)] ==   \* the positions from j down to the leaf
        IF 2 * j > Len(h) THEN {j} ELSE {j} \cup sink[GreaterChild(h, j)]
      sunk == [j \in 1 .. Len(h) |->
                 IF j \notin sink[1] THEN h[j]
                 ELSE IF 2 * j > Len(h) THEN h[1] ELSE h[GreaterChild(h, j)]]
  IN  SiftUp(sunk, CHOOSE j \in sink[1] : 2 * j > Len(h), h[1])

(* Mutant: the pushed element stays at the end of the Vec.                 *)
HeapPushMutant(h, e) == Append(h, e)

HeapPush(h, e) == SiftUp(Append(h, e), Len(h) + 1, e)

(* Mutant: swap_remove of the root without sifting down.                   *)
HeapPopMutant(h) ==
  IF Len(h) = 1 THEN <<>>
  ELSE [SubSeq(h, 1, Len(h) - 1) EXCEPT ![1] = h[Len(h)]]

(* What is left after the root was replaced by the last element.           *)
HeapPop(h) ==
  LET last == h[Len(h)]
      rest == SubSeq(h, 1, Len(h) - 1)
  IN  IF rest = <<>> THEN <<>>
      ELSE SiftDownToBottom([rest EXCEPT ![1] = last])

-----------------------------------------------------------------------------
HeapInit == now = 0 /\ heap = <<>>

(* SleepFut::poll before the wake time.                                    *)
Push(e) ==
  /\ now < e.wake_time
  /\ heap' = HeapPush(heap, e)
  /\ UNCHANGED now

(* Timer::advance                                                          *)
Pop ==
  /\ heap # <<>>
  /\ now' = heap[1].wake_time
  /\ heap' = HeapPop(heap)

HeapNext == Pop \/ \E e \in Events : Push(e)

HeapSpec == HeapInit /\ [][HeapNext]_heapVars

-----------------------------------------------------------------------------
(* The order of the heap survives every sift: no event is due before its   *)
(* parent, so the root is an earliest one for the next advance().          *)
HeapOrdered ==
  \A i \in DOMAIN heap : i > 1 => heap[i \div 2].wake_time <= heap[i].wake_time

(* The heap implements the bag of module Timer: nothing is lost or         *)
(* duplicated by the two sifts, and advance() always takes an event with   *)
(* the least wake time.                                                    *)
EventCount(t, w) ==
  Cardinality({i \in DOMAIN heap : heap[i] = [wake_time |-> w, task |-> t]})

Bag == INSTANCE Timer WITH
         events <- [e \in Tasks \X (0 .. MaxTime) |-> EventCount(e[1], e[2])]

ImplementsTimer == Bag!TimerSpec
=============================================================================
