----------------------------- MODULE AddressLease -----------------------------
(***************************************************************************)
(* What the address pools promise, without pools, queues or a handler:     *)
(* vehicles come and go, an address is granted only while nobody holds it, *)
(* it is kept as long as its vehicle lives, and it is taken back only from *)
(* a vehicle that has left.                                                *)
(***************************************************************************)
EXTENDS Integers

CONSTANTS Vehicle, Pool, Addr, Unspecified

VARIABLES live, lease

leaseVars == <<live, lease>>

Init ==
  /\ live = {}
  /\ lease = [p \in Pool |-> [v \in Vehicle |-> Unspecified]]

(* The population changes; the leases do not.                              *)
Arrive(v) == v \notin live /\ live' = live \cup {v} /\ UNCHANGED lease
Leave(v)  == v \in live /\ live' = live \ {v} /\ UNCHANGED lease

Held(p) == {lease[p][v] : v \in Vehicle} \ {Unspecified}

(* A live vehicle is granted an unheld address in each pool of P.          *)
Grant(v, P) ==
  /\ v \in live
  /\ \E a \in [P -> Addr] :
       /\ \A p \in P : lease[p][v] = Unspecified /\ a[p] \notin Held(p)
       /\ lease' = [p \in Pool |-> IF p \in P THEN [lease[p] EXCEPT ![v] = a[p]]
                                              ELSE lease[p]]
  /\ UNCHANGED live

(* A vehicle that has left loses all it held.                              *)
Reclaim(v) ==
  /\ v \notin live
  /\ lease' = [p \in Pool |-> [lease[p] EXCEPT ![v] = Unspecified]]
  /\ UNCHANGED live

Next ==
  \E v \in Vehicle :
    \/ Arrive(v)
    \/ Leave(v)
    \/ \E P \in SUBSET Pool : Grant(v, P)
    \/ Reclaim(v)

Spec == Init /\ [][Next]_leaseVars
=============================================================================
