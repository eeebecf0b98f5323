------------------------------- MODULE Handover -------------------------------
(***************************************************************************)
(* A vertical handover end to end, for one vehicle: a strategy switches    *)
(* the carriers at its own times, and the configurator, which is not told, *)
(* rebuilds the vehicle's routes at its own.  In between the vehicle is    *)
(* blind: its routes leave through an interface without carrier.           *)
(*                                                                         *)
(* The strategy is the time-based or the coverage-based one                *)
(* (createStrategy).  A tick is half a second.                             *)
(***************************************************************************)
EXTENDS Integers

CONSTANTS
  Births, MaxTime, MaxSwitches, StartWithSatellite, HasSat, HasCell, \* manager
  SwitchInterval,                                                    \* time-based
  FirstCheck, CheckInterval, Satellites, ValidPosition,              \* coverage
  Modes,          \* the switching modes to start with
  TimerInterval,  \* the configurator's timerInterval
  Metric,         \* of the configurator's autoroute element
  MulticastRoutes \* bound: multicast routes configured for the station

ASSUME HandoverAssumption ==
  /\ Births \subseteq Nat /\ {MaxTime, MaxSwitches} \subseteq Nat
  /\ {StartWithSatellite, HasSat, HasCell} \subseteq BOOLEAN
  /\ Satellites \cap {"vehicle", "station", "server"} = {}
  /\ Modes \subseteq {"time-based", "coverage-based"}
  /\ {SwitchInterval, FirstCheck, CheckInterval, TimerInterval} \subseteq Nat \ {0}
  /\ ValidPosition \in BOOLEAN
  /\ Metric \in {"propagationDelay", "hopCount", "delay", "dataRate", "errorRate"}
  /\ MulticastRoutes \in Nat

VARIABLES
  now, isSatState, satCarrier, cellCarrier, satTotalTime, cellTotalTime,
  lastSwitchTime, totalSwitchesCount, finished, birth, satOnTime, cellOnTime,
  switchTimer,
  seesVehicle, seesStation, checkTimer, steadySince,
  switchingMode,
  configTimer,  \* when the configurator's timer fires
  routes,       \* the vehicle's unicast routing table
  multicast,    \* the station's multicast routing table, its length
  lastSeen      \* history: when a satellite last reached the vehicle

TimeBased == INSTANCE TimeBasedStrategy
Coverage  == INSTANCE CoverageBasedStrategy
Topology  == INSTANCE SatelliteLinks WITH carrier <- satCarrier

managerVars == <<isSatState, satCarrier, cellCarrier, satTotalTime, cellTotalTime,
                 lastSwitchTime, totalSwitchesCount, finished>>
historyVars == <<birth, satOnTime, cellOnTime>>
skyVars == <<seesVehicle, seesStation, checkTimer, steadySince>>
configVars == <<switchingMode, configTimer, routes, multicast>>
vars == <<now, managerVars, historyVars, switchTimer, skyVars, configVars, lastSeen>>

Link == {"satellite", "cellular"}

(* A route: what it leads to, the interface it leaves by, and whether it   *)
(* names a gateway.                                                        *)
Route == [dest : {"default", "subnet", "network"}, iface : Link, gateway : BOOLEAN]

HasCarrier(l) == IF l = "satellite" THEN satCarrier ELSE cellCarrier

(* createStrategy.  The configurator's timer runs since the start of the   *)
(* simulation; a vehicle created as it fires may come before or after.     *)
Init ==
  /\ TimeBased!Init
  /\ Coverage!Init
  /\ switchingMode \in Modes
  /\ configTimer \in {t \in birth..(birth + TimerInterval) : t % TimerInterval = 0}
  /\ routes = {}
  /\ multicast \in 0..MulticastRoutes
  /\ lastSeen = now

-----------------------------------------------------------------------------
(* The configurator, as far as one vehicle's routes go.                    *)

(* Mutant: routes for every interface, with or without carrier.            *)
RoutesForAll == {r \in Route : r.dest \in {"subnet", "default"} /\ ~r.gateway}

(* checkAndConfigureVehicleInterfaces, on a routing table just emptied:    *)
(* the interface with a carrier gets a direct and a default route.         *)
DirectRoutes ==
  {r \in Route : r.dest \in {"subnet", "default"} /\ HasCarrier(r.iface) /\ ~r.gateway}

(* external: addStaticRoutes gives every interface the route to its own    *)
(* subnet, and gatewayed routes along the paths it finds; by the satellite *)
(* interface only over links that are left and have a finite weight.       *)
StaticRoutes ==
  LET subnets == {r \in Route : r.dest = "subnet" /\ ~r.gateway}
      paths   == {r \in Route : /\ r.dest # "subnet" /\ r.gateway
                                /\ r.iface = "satellite" => Topology!PathExists}
  IN {subnets \cup S : S \in SUBSET paths}

(* optimizeVehiclesRoutes: drop what leaves by an interface without        *)
(* carrier; what has a gateway is dropped too unless it is a default       *)
(* route; if no default route is left, one through the best gateway.       *)
Optimized(static) ==
  LET onActive == {r \in static : HasCarrier(r.iface)}
      kept     == {r \in onActive : ~r.gateway \/ r.dest = "default"}
      gateways == {r \in onActive : r.gateway}
  IN IF ~satCarrier /\ ~cellCarrier THEN static
     ELSE IF \E r \in kept : r.dest = "default" THEN kept
     ELSE kept \cup {[r EXCEPT !.dest = "default"] : r \in gateways}

(* Mutant: the loop ends one route early.                                  *)
MulticastLeftByLess(n) == (n + 1) \div 2

(* reinvokeConfigurator deletes the m-th multicast route for a growing m   *)
(* while it is there; the rest moves up, and every other route stays.      *)
MulticastLeft(n) == n \div 2

(* Mutant: gatewayed routes are not cleared.                               *)
ReinvokeOnTop ==
  /\ ~finished
  /\ now = configTimer
  /\ \E static \in StaticRoutes :
       routes' = {r \in routes : r.gateway} \cup DirectRoutes \cup Optimized(static)
  /\ multicast' = MulticastLeft(multicast)
  /\ configTimer' = now + TimerInterval
  /\ UNCHANGED <<now, managerVars, historyVars, switchTimer, skyVars, switchingMode, lastSeen>>

(* reinvokeConfigurator: every old unicast route goes, the new ones come   *)
(* in; multicast routes are deleted and never made again.                  *)
ReinvokeConfigurator ==
  /\ ~finished
  /\ now = configTimer
  /\ \E static \in StaticRoutes : routes' = DirectRoutes \cup Optimized(static)
  /\ multicast' = MulticastLeft(multicast)
  /\ configTimer' = now + TimerInterval
  /\ UNCHANGED <<now, managerVars, historyVars, switchTimer, skyVars, switchingMode, lastSeen>>

-----------------------------------------------------------------------------
Switch ==
  \/ switchingMode = "time-based" /\ TimeBased!Toggle /\ UNCHANGED skyVars
  \/ switchingMode = "coverage-based" /\ Coverage!EvaluateCoverage /\ UNCHANGED switchTimer

(* The sky turns whatever the strategy; the time-based one does not look.  *)
TimePasses ==
  /\ now < configTimer
  /\ \/ /\ switchingMode = "time-based" /\ TimeBased!TimePasses
        /\ Coverage!SkyTurns /\ UNCHANGED checkTimer
     \/ switchingMode = "coverage-based" /\ Coverage!TimePasses /\ UNCHANGED switchTimer
  /\ lastSeen' = IF seesVehicle' = {} THEN lastSeen ELSE now'

End == TimeBased!End /\ UNCHANGED skyVars

Next ==
  \/ ReinvokeConfigurator
  \/ (Switch \/ End) /\ UNCHANGED <<configVars, lastSeen>>
  \/ TimePasses /\ UNCHANGED configVars

Spec == Init /\ [][Next]_vars

-----------------------------------------------------------------------------
(* Properties.                                                             *)

(* The time-based alternation never drifts.                                *)
InPhase == switchingMode = "time-based" => TimeBased!InPhase

(* The coverage-based strategy follows the sky.                            *)
FollowsCoverage == switchingMode = "coverage-based" => Coverage!FollowsCoverage

(* The blind window after a switch, or after the vehicle's creation, ends  *)
(* within one timer interval of the configurator: from then on there is a  *)
(* default route, and every route leaves by the interface with carrier.    *)
BlindWindowBounded ==
  now - lastSwitchTime > TimerInterval =>
    /\ \E r \in routes : r.dest = "default"
    /\ \A r \in routes : HasCarrier(r.iface)

(* What the strategy decides by, the configurator can route over: while a  *)
(* satellite is visible to the coverage-based strategy and the vehicle's   *)
(* interface has its carrier, there is a path to the server.  The two      *)
(* decide by code of their own (isSatelliteVisible,                        *)
(* filterVeinsSatelliteLinks and computeWirelessLinkWeight).               *)
CoveredMeansRoutable ==
  Coverage!IsSatelliteVisible /\ satCarrier => Topology!PathExists

(* Although a firing of the timer leaves up to half of the station's       *)
(* multicast routes behind, they are all gone after two (of up to three).  *)
StaleMulticastGoes == now > birth + 2 * TimerInterval => multicast = 0

(* A gatewayed route by the satellite interface leads over some satellite; *)
(* once no satellite reaches the vehicle, it is gone within one timer      *)
(* interval, also where the strategy never looks at the sky and keeps a    *)
(* vehicle on a satellite it has lost.                                     *)
SatelliteRoutesFresh ==
  (\E r \in routes : r.gateway /\ r.iface = "satellite") =>
    now - lastSeen <= TimerInterval
=============================================================================
