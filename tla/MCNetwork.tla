----------------------------- MODULE MCNetwork ------------------------------
(* Instances of Network for TLC.                                           *)
EXTENDS Network

(* A message of 2 bytes takes 1 microsecond to one of the nodes, at 8      *)
(* megabits per second, and no time to the others, at 16.                  *)
OneSlow ==
  LET slow == CHOOSE n \in Nodes : TRUE
  IN  [n \in Nodes |-> from_megabits_per_second(IF n = slow THEN 8 ELSE 16)]
=============================================================================
