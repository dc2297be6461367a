------------------------------ MODULE TaskIds -------------------------------
(***************************************************************************)
(* The identities shared by every module: the Rc<Task> pointers of the     *)
(* program and Option::None.                                               *)
(***************************************************************************)
CONSTANTS
  Tasks,   \* every task the program may spawn, each at most once
  None     \* Option::None

ASSUME NoneAssumption == None \notin Tasks
=============================================================================
