--------------------------- MODULE ExecutorProofs ---------------------------
(***************************************************************************)
(* Lemmas about the queues of the executor, for every module that is       *)
(* composed with it.                                                       *)
(***************************************************************************)
EXTENDS Executor, TLAPS

-----------------------------------------------------------------------------
(* Queues.                                                                 *)

(* Pushing a clone of a task adds it to the tasks of the queue.            *)
LEMMA RangeAppend ==
  ASSUME NEW S, NEW s \in Seq(S), NEW e \in S
  PROVE  /\ Append(s, e) \in Seq(S)
         /\ Range(Append(s, e)) = Range(s) \cup {e}
<1>1. Append(s, e) \in Seq(S)
  OBVIOUS
<1>2. DOMAIN Append(s, e) = DOMAIN s \cup {Len(s) + 1}
  OBVIOUS
<1>3. \A i \in DOMAIN s : Append(s, e)[i] = s[i]
  OBVIOUS
<1>4. Append(s, e)[Len(s) + 1] = e
  OBVIOUS
<1> QED
  BY <1>1, <1>2, <1>3, <1>4 DEF Range

(* Taking the head of a queue leaves the tasks behind it.                  *)
LEMMA RangeTail ==
  ASSUME NEW S, NEW s \in Seq(S), s # <<>>
  PROVE  /\ Head(s) \in S
         /\ Tail(s) \in Seq(S)
         /\ Range(s) = {Head(s)} \cup Range(Tail(s))
<1>1. Len(s) \in Nat /\ Len(s) > 0 /\ DOMAIN s = 1 .. Len(s)
  OBVIOUS
<1>2. Head(s) = s[1] /\ Head(s) \in S /\ Tail(s) \in Seq(S)
  BY <1>1
<1>3. DOMAIN Tail(s) = 1 .. Len(s) - 1
  BY <1>1
<1>4. \A i \in DOMAIN Tail(s) : Tail(s)[i] = s[i + 1]
  BY <1>1, <1>3
<1>5. ASSUME NEW i \in DOMAIN s, i # 1
      PROVE  i - 1 \in DOMAIN Tail(s) /\ Tail(s)[i - 1] = s[i]
  BY <1>1, <1>3, <1>4, <1>5
<1>6. Range(s) \subseteq {Head(s)} \cup Range(Tail(s))
  <2> SUFFICES ASSUME NEW i \in DOMAIN s
               PROVE  s[i] \in {Head(s)} \cup Range(Tail(s))
    BY DEF Range
  <2>1. CASE i = 1
    BY <1>2, <2>1
  <2>2. CASE i # 1
    BY <1>5, <2>2 DEF Range
  <2> QED
    BY <2>1, <2>2
<1>7. Range(Tail(s)) \subseteq Range(s)
  BY <1>1, <1>3, <1>4 DEF Range
<1>8. Head(s) \in Range(s)
  BY <1>1, <1>2 DEF Range
<1> QED
  BY <1>2, <1>6, <1>7, <1>8

(* Where the elements of a queue are after a push, ...                     *)
LEMMA AppendElements ==
  ASSUME NEW S, NEW s \in Seq(S), NEW e \in S
  PROVE  /\ Append(s, e) \in Seq(S)
         /\ DOMAIN Append(s, e) = DOMAIN s \cup {Len(s) + 1}
         /\ \A i \in DOMAIN s : Append(s, e)[i] = s[i]
         /\ Append(s, e)[Len(s) + 1] = e
         /\ Len(s) \in Nat
         /\ DOMAIN s = 1 .. Len(s)
  OBVIOUS

(* ... after the removal of its head, ...                                  *)
LEMMA TailElements ==
  ASSUME NEW S, NEW s \in Seq(S), s # <<>>
  PROVE  /\ Tail(s) \in Seq(S)
         /\ 1 \in DOMAIN s /\ Head(s) = s[1] /\ Head(s) \in S
         /\ DOMAIN s \subseteq Nat
         /\ \A i \in DOMAIN Tail(s) :
              i + 1 \in DOMAIN s /\ i + 1 # 1 /\ Tail(s)[i] = s[i + 1]
         /\ \A i \in DOMAIN s :
              i # 1 => i - 1 \in DOMAIN Tail(s) /\ Tail(s)[i - 1] = s[i]
<1>1. Len(s) \in Nat /\ Len(s) > 0 /\ DOMAIN s = 1 .. Len(s)
  OBVIOUS
<1>2. Head(s) = s[1] /\ Head(s) \in S /\ Tail(s) \in Seq(S)
  BY <1>1
<1>3. DOMAIN Tail(s) = 1 .. Len(s) - 1
  BY <1>1
<1>4. \A i \in DOMAIN Tail(s) : Tail(s)[i] = s[i + 1]
  BY <1>1, <1>3
<1> QED
  BY <1>1, <1>2, <1>3, <1>4

(* An empty queue holds no task.                                           *)
LEMMA RangeEmpty == Range(<<>>) = {}
BY DEF Range

-----------------------------------------------------------------------------
(* What each step of the executor does to the set of the tasks queued.     *)

LEMMA WakeQueued ==
  ASSUME ExecTypeOK, NEW t \in Tasks, Wake(t), UNCHANGED batch
  PROVE  \A u \in Tasks : Queued(u)' <=> Queued(u) \/ u = t
BY RangeAppend DEF ExecTypeOK, Wake, Queued

LEMMA SameQueued ==
  ASSUME UNCHANGED <<ready, batch>>
  PROVE  \A u \in Tasks : Queued(u)' <=> Queued(u)
BY DEF Queued

LEMMA ClearQueued ==
  ASSUME NEW held, ClearReady(held)
  PROVE  \A u \in Tasks : Queued(u)' <=> u \in Range(batch)
BY RangeEmpty DEF ClearReady, Queued

LEMMA TakeQueued ==
  ASSUME ExecTypeOK, TakeReady, BatchDone
  PROVE  \A u \in Tasks : Queued(u)' <=> Queued(u)
BY RangeEmpty DEF TakeReady, BatchDone, Queued

LEMMA DequeueQueued ==
  ASSUME ExecTypeOK, batch # <<>>, batch' = Tail(batch), UNCHANGED ready
  PROVE  /\ Head(batch) \in Tasks
         /\ Queued(Head(batch))
         /\ \A u \in Tasks : Queued(u) <=> Queued(u)' \/ u = Head(batch)
<1>1. /\ Head(batch) \in Tasks
      /\ Range(batch) = {Head(batch)} \cup Range(Tail(batch))
  BY RangeTail DEF ExecTypeOK
<1> QED
  BY <1>1 DEF Queued
=============================================================================
