------------------------------- MODULE LinkUsage -------------------------------
(***************************************************************************)
(* What HybridInterfaceManager promises, without carriers, timestamps or   *)
(* counters: one access link is in use at any time, and every instant is   *)
(* charged to the link that is in use.                                     *)
(***************************************************************************)
EXTENDS Integers

CONSTANT StartWithSatellite

VARIABLES
  active,  \* the link in use
  usage    \* link -> time it has been in use

Link == {"satellite", "cellular"}

Init ==
  /\ active = IF StartWithSatellite THEN "satellite" ELSE "cellular"
  /\ usage = [l \in Link |-> 0]

Elapse == usage' = [usage EXCEPT ![active] = @ + 1] /\ UNCHANGED active

Switch == active' \in Link \ {active} /\ UNCHANGED usage

Next == Elapse \/ Switch

Spec == Init /\ [][Next]_<<active, usage>>
=============================================================================
