------------------------------ MODULE Transit -------------------------------
(***************************************************************************)
(* What the network promises: every message that is sent is delivered at   *)
(* most once and not before it is due, and a link is active exactly while  *)
(* a message sent over it is under way.  Messages are numbered in the      *)
(* order in which they are sent; nothing is said about the order in which  *)
(* they arrive.  Network is shown to implement it.                         *)
(***************************************************************************)
EXTENDS Naturals

VARIABLES
  clock,      \* the simulated time
  sent,       \* how many messages were sent
  transit,    \* the messages under way: their number, link and due time
  active      \* the links announced as active

transitVars == <<clock, sent, transit, active>>

TransitInit == clock = 0 /\ sent = 0 /\ transit = {} /\ active = {}

Activity == active' = {m.link : m \in transit'}

Depart ==
  /\ transit \subseteq transit'
  /\ {m.id : m \in transit' \ transit} = (sent + 1) .. sent'
  /\ \A m, o \in transit' \ transit : m.id = o.id => m = o
  /\ \A m \in transit' \ transit : clock <= m.due
  /\ Activity
  /\ UNCHANGED clock

Arrive(m) ==
  /\ m.due <= clock
  /\ transit' = transit \ {m}
  /\ Activity
  /\ UNCHANGED <<clock, sent>>

Tick == clock < clock' /\ UNCHANGED <<sent, transit, active>>

TransitNext == Depart \/ Tick \/ \E m \in transit : Arrive(m)

TransitSpec == TransitInit /\ [][TransitNext]_transitVars
=============================================================================
