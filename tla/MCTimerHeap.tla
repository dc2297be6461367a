---------------------------- MODULE MCTimerHeap -----------------------------
(* An instance of TimerHeap for TLC, with a bound on the size of the heap. *)
EXTENDS TimerHeap

CONSTANT
  MaxHeap    \* bound: how many events the heap holds

MCNext == HeapNext /\ Len(heap') <= MaxHeap

MCSpec == HeapInit /\ [][MCNext]_heapVars
=============================================================================
