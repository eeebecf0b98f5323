---------------------------- MODULE SatelliteLinks ----------------------------
(***************************************************************************)
(* The part of the topology the configurator computes a vehicle's          *)
(* satellite routes over: the wireless links between one vehicle, the      *)
(* satellites and the ground station, all on one medium, and the wire from *)
(* the station to the server, before and after the configurator takes out  *)
(* what cannot carry anything.  A link may be disabled, or have an         *)
(* infinite weight; either way no route uses it.  Finite weights only      *)
(* order the paths and are left out.                                       *)
(***************************************************************************)
EXTENDS Naturals

CONSTANTS
  Satellites,
  ValidPosition, \* has the vehicle a position Veins and the converter accept?
  Metric         \* of the autoroute element

VARIABLES
  carrier,       \* of the vehicle's satellite interface
  seesVehicle    \* the satellites isReachable says reach the vehicle

Vehicle == "vehicle"
Station == "station"
Server  == "server"
OnAir == Satellites \cup {Vehicle, Station}
Nodes == OnAir \cup {Server}

WirelessLinks == {l \in OnAir \X OnAir : l[1] # l[2]}
WiredLinks == {<<Station, Server>>, <<Server, Station>>}

(* Mutant: one satellite out of reach disables the vehicle's every link.   *)
DisabledByAny(l) ==
  /\ ValidPosition
  /\ Vehicle \in {l[1], l[2]}
  /\ Satellites \ seesVehicle # {}

(* filterVeinsSatelliteLinks: a link between the vehicle and a satellite   *)
(* out of reach is disabled, and its reverse too; a vehicle without a      *)
(* valid position keeps all its links.                                     *)
Disabled(l) ==
  /\ ValidPosition
  /\ Vehicle \in {l[1], l[2]}
  /\ \E s \in Satellites \ seesVehicle : s \in {l[1], l[2]}

(* isToExcludeLink: only the vehicle's interface ever loses its carrier.   *)
IsToExcludeLink(l) == Vehicle \in {l[1], l[2]} /\ ~carrier

(* The propagation delay is finite from and to a satellite, if it reaches  *)
(* the vehicle; what it reaches on the ground or in the sky is not asked.  *)
FromSatellite(l) ==
  /\ l[1] \in Satellites
  /\ l[2] = Vehicle => ValidPosition /\ l[1] \in seesVehicle

(* ... from a vehicle, only to satellites.                                 *)
FromVehicle(l) ==
  /\ l[1] = Vehicle
  /\ ValidPosition
  /\ l[2] \in seesVehicle

(* ... from a ground station, to satellites.                               *)
FromStation(l) == l[1] = Station /\ l[2] \in Satellites

(* computeWirelessLinkWeight is finite: only propagationDelay asks what    *)
(* the link's ends are.  (A cost attribute, which takes the metric's place *)
(* and is in no configuration of the repository, is left out.)             *)
WirelessWeighs(l) ==
  /\ ~IsToExcludeLink(l)
  /\ \/ Metric # "propagationDelay"
     \/ FromSatellite(l) \/ FromVehicle(l) \/ FromStation(l)

(* computeWiredLinkWeight is finite under every metric it knows; it throws *)
(* on any other.                                                           *)
KnownMetrics == {"propagationDelay", "hopCount", "delay", "dataRate", "errorRate"}
WiredWeighs(l) == ~IsToExcludeLink(l) /\ Metric \in KnownMetrics

Usable == {l \in WirelessLinks : ~Disabled(l) /\ WirelessWeighs(l)}
          \cup {l \in WiredLinks : ~Disabled(l) /\ WiredWeighs(l)}

(* No usable link leads out of these nodes.                                *)
Closed(nodes) == \A l \in Usable : l[1] \in nodes => l[2] \in nodes

(* external: addStaticRoutes finds a path from the vehicle to the server   *)
(* that leaves by the satellite interface.                                 *)
PathExists ==
  \A nodes \in SUBSET Nodes : Vehicle \in nodes /\ Closed(nodes) => Server \in nodes
=============================================================================
