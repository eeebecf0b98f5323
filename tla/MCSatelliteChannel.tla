-------------------------- MODULE MCSatelliteChannel --------------------------
(* An instance of SatelliteChannel for TLC: delays of a tick or more       *)
(* that change as the satellites move, so that signals overtake each       *)
(* other; QAM-256 on the satellites, QAM-64 on the ground.                 *)
EXTENDS SatelliteChannel

OrbitDelay(from, to) == 1 + (((from[2] + to[2]) \div UpdateInterval) % 3)

MixedModulation == [r \in Radios |-> IF r \in Satellites THEN 8 ELSE 6]
=============================================================================
