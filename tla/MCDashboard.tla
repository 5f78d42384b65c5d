----------------------------- MODULE MCDashboard -----------------------------
(***************************************************************************)
(* Two dashboards of one swarm, two pages open on the first of them.       *)
(***************************************************************************)
EXTENDS Dashboard

CONSTANTS d1, d2, b1, b2, b3

TwoOnTheFirst == [b \in Browsers |-> IF b = b3 THEN d2 ELSE d1]
=============================================================================
