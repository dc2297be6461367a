----------------------------- MODULE MCRuntime ------------------------------
(* Instances of Runtime for TLC.  Tasks are interchangeable whenever they  *)
(* are all parkers or none is.                                             *)
EXTENDS Runtime, TLC

TaskSymmetry == Permutations(Tasks)
=============================================================================
