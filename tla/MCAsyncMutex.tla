---------------------------- MODULE MCAsyncMutex ----------------------------
(* Instances of AsyncMutex for TLC.  The tasks are interchangeable.        *)
EXTENDS AsyncMutex

TaskSymmetry == Permutations(Tasks)
=============================================================================
