---------------------------- MODULE Handover_proofs ----------------------------
(***************************************************************************)
(* Theorems about Handover, for any intervals, satellites and creation     *)
(* times, and any order in which strategy and configurator fire: the       *)
(* alternation keeps its phase, the vehicle follows the sky, the blind     *)
(* window closes, stale routes go.                                         *)
(***************************************************************************)
EXTENDS Handover, TLAPS

(* What updateInterfaceStates makes of the state, and the manager's clock. *)
ManagerOK ==
  /\ isSatState \in BOOLEAN
  /\ satCarrier = (HasSat /\ isSatState)
  /\ cellCarrier = (HasCell /\ ~isSatState)
  /\ now \in Nat /\ birth \in Nat /\ lastSwitchTime \in Nat
  /\ birth <= lastSwitchTime /\ lastSwitchTime <= now

(* The configurator's timer is set, at most one interval ahead.            *)
ConfiguratorOK == configTimer \in Nat /\ now <= configTimer /\ configTimer <= now + TimerInterval

(* The time-based strategy has toggled once per interval since birth.      *)
Alternates ==
  \E n \in Nat :
    /\ switchTimer = birth + (n + 1) * SwitchInterval
    /\ isSatState = (IF n % 2 = 0 THEN StartWithSatellite ELSE ~StartWithSatellite)

(* The coverage-based strategy agrees with the sky of its last check.      *)
Agrees ==
  \/ isSatState = Coverage!IsSatelliteVisible
  \/ isSatState /\ ~HasCell

Follows ==
  /\ checkTimer \in Nat /\ steadySince \in Nat /\ now <= checkTimer
  /\ \/ checkTimer = birth + FirstCheck
     \/ /\ checkTimer <= now + CheckInterval
        /\ steadySince <= checkTimer - CheckInterval => Agrees

(* Either the last rebuild followed the last switch, or the next one is    *)
(* due within an interval of the switch.                                   *)
RoutesUsable ==
  /\ \E r \in routes : r.dest = "default"
  /\ \A r \in routes : HasCarrier(r.iface)

Rebuilt == RoutesUsable \/ configTimer - lastSwitchTime <= TimerInterval

(* Satellite routes with a gateway were made when a satellite was seen.    *)
Fresh ==
  /\ lastSeen \in Nat
  /\ seesVehicle # {} => lastSeen = now
  /\ (\E r \in routes : r.gateway /\ r.iface = "satellite") =>
       configTimer - lastSeen <= TimerInterval

(* A vehicle with both interfaces, and a configurator that looks at the    *)
(* links: what some of the theorems assume.                                *)
BothInterfaces == HasSat /\ HasCell
LooksAtLinks == Metric = "propagationDelay" /\ ValidPosition

(* The inductive invariant.                                                *)
IInv ==
  /\ ManagerOK
  /\ ConfiguratorOK
  /\ seesVehicle \subseteq Satellites
  /\ switchingMode \in {"time-based", "coverage-based"}
  /\ switchingMode = "time-based" => Alternates
  /\ switchingMode = "coverage-based" => Follows
  /\ BothInterfaces => Rebuilt
  /\ LooksAtLinks => Fresh

-----------------------------------------------------------------------------
(* The four intervals are positive numbers of ticks.                       *)
LEMMA IntervalTypes ==
  /\ SwitchInterval \in Nat /\ SwitchInterval > 0
  /\ FirstCheck \in Nat /\ FirstCheck > 0
  /\ CheckInterval \in Nat /\ CheckInterval > 0
  /\ TimerInterval \in Nat /\ TimerInterval > 0
<1>1. {SwitchInterval, FirstCheck, CheckInterval, TimerInterval} \subseteq Nat \ {0}
  BY HandoverAssumption
<1> QED BY <1>1

(* Without a satellite that reaches the vehicle no link leads away from it,*)
(* and so no path.                                                         *)
LEMMA NoSatelliteNoPath ==
  ASSUME LooksAtLinks, Topology!PathExists
  PROVE  seesVehicle # {}
<1>1. SUFFICES ASSUME seesVehicle = {} PROVE FALSE
  OBVIOUS
<1> DEFINE alone == {Topology!Vehicle}
<1> USE DEF Topology!Vehicle, Topology!Server, Topology!Station
<1>2. Topology!Closed(alone)
  <2> SUFFICES ASSUME NEW l \in Topology!Usable, l[1] = "vehicle" PROVE FALSE
    BY DEF Topology!Closed
  <2>1. l \in Topology!WirelessLinks /\ Topology!WirelessWeighs(l)
    BY DEF Topology!Usable, Topology!WiredLinks
  <2>2. ~Topology!FromSatellite(l) /\ ~Topology!FromVehicle(l) /\ ~Topology!FromStation(l)
    BY <1>1, HandoverAssumption
       DEF Topology!FromSatellite, Topology!FromVehicle, Topology!FromStation
  <2> QED BY <2>1, <2>2 DEF Topology!WirelessWeighs, LooksAtLinks
<1>3. alone \in SUBSET Topology!Nodes /\ Topology!Vehicle \in alone /\ Topology!Server \notin alone
  BY DEF Topology!Nodes, Topology!OnAir
<1> QED BY <1>2, <1>3 DEF Topology!PathExists

(* A satellite that reaches the vehicle is a way to the station, and the   *)
(* wire leads on.                                                          *)
LEMMA SeenMeansPath ==
  ASSUME satCarrier, ValidPosition, NEW s \in Satellites, s \in seesVehicle
  PROVE  Topology!PathExists
<1> USE DEF Topology!Vehicle, Topology!Server, Topology!Station
<1>1. SUFFICES ASSUME NEW nodes, "vehicle" \in nodes, Topology!Closed(nodes)
               PROVE  "server" \in nodes
  BY DEF Topology!PathExists
<1>2. \A l \in Topology!Usable : l[1] \in nodes => l[2] \in nodes
  BY <1>1 DEF Topology!Closed
<1>3. s \notin {"vehicle", "station", "server"} /\ Metric \in Topology!KnownMetrics
  BY HandoverAssumption DEF Topology!KnownMetrics
<1>4. \A l : ~Topology!IsToExcludeLink(l)
  BY DEF Topology!IsToExcludeLink
<1>5. <<"vehicle", s>> \in Topology!Usable
  <2>1. <<"vehicle", s>> \in Topology!WirelessLinks
    BY <1>3 DEF Topology!WirelessLinks, Topology!OnAir
  <2>2. ~Topology!Disabled(<<"vehicle", s>>)
    BY HandoverAssumption DEF Topology!Disabled
  <2>3. Topology!WirelessWeighs(<<"vehicle", s>>)
    BY <1>4 DEF Topology!WirelessWeighs, Topology!FromVehicle
  <2> QED BY <2>1, <2>2, <2>3 DEF Topology!Usable
<1>6. <<s, "station">> \in Topology!Usable
  <2>1. <<s, "station">> \in Topology!WirelessLinks
    BY <1>3 DEF Topology!WirelessLinks, Topology!OnAir
  <2>2. ~Topology!Disabled(<<s, "station">>)
    BY <1>3 DEF Topology!Disabled
  <2>3. Topology!WirelessWeighs(<<s, "station">>)
    BY <1>4 DEF Topology!WirelessWeighs, Topology!FromSatellite
  <2> QED BY <2>1, <2>2, <2>3 DEF Topology!Usable
<1>7. <<"station", "server">> \in Topology!Usable
  <2>1. ~Topology!Disabled(<<"station", "server">>) /\ Topology!WiredWeighs(<<"station", "server">>)
    BY <1>3, <1>4 DEF Topology!Disabled, Topology!WiredWeighs
  <2> QED BY <2>1 DEF Topology!Usable, Topology!WiredLinks
<1>8. s \in nodes
  BY <1>1, <1>2, <1>5
<1>9. "station" \in nodes
  BY <1>2, <1>6, <1>8
<1> QED BY <1>2, <1>7, <1>9

-----------------------------------------------------------------------------
(* A vehicle is created with a default interface, no routes, and its       *)
(* timers set.                                                             *)
LEMMA InitIInv == Init => IInv
<1> SUFFICES ASSUME Init PROVE IInv
  OBVIOUS
<1>1. /\ birth \in Nat /\ now = birth /\ lastSwitchTime = now
      /\ isSatState \in BOOLEAN /\ isSatState = StartWithSatellite
      /\ satCarrier = (HasSat /\ isSatState) /\ cellCarrier = (HasCell /\ ~isSatState)
  BY HandoverAssumption DEF Init, TimeBased!Init, TimeBased!Mgr!Init
<1>2. ManagerOK
  BY <1>1 DEF ManagerOK
<1>3. ConfiguratorOK
  BY <1>1, IntervalTypes DEF Init, ConfiguratorOK
<1>4. switchingMode \in {"time-based", "coverage-based"}
  BY HandoverAssumption DEF Init
<1>5. Alternates
  <2>1. 0 \in Nat /\ switchTimer = birth + (0 + 1) * SwitchInterval
    BY <1>1, IntervalTypes DEF Init, TimeBased!Init
  <2>2. isSatState = IF 0 % 2 = 0 THEN StartWithSatellite ELSE ~StartWithSatellite
    BY <1>1
  <2> QED BY <2>1, <2>2 DEF Alternates
<1>6. Follows /\ seesVehicle \subseteq Satellites
  BY <1>1, IntervalTypes DEF Init, Coverage!Init, Follows
<1>7. Rebuilt
  BY <1>1, <1>3, IntervalTypes DEF ConfiguratorOK, Rebuilt
<1>8. Fresh
  BY <1>1 DEF Init, Fresh
<1> QED BY <1>2, <1>3, <1>4, <1>5, <1>6, <1>7, <1>8 DEF IInv

(* A call of the manager at most moves the carriers and the time of the    *)
(* last switch.                                                            *)
LEMMA PerformSwitchStep ==
  ASSUME ManagerOK, NEW sat \in BOOLEAN,
         TimeBased!Mgr!PerformSwitch(sat) \/ Coverage!Mgr!PerformSwitch(sat),
         UNCHANGED <<now, birth>>
  PROVE  /\ ManagerOK' /\ isSatState' = sat
         /\ \/ lastSwitchTime' = now
            \/ UNCHANGED <<isSatState, satCarrier, cellCarrier, lastSwitchTime>>
<1> USE HandoverAssumption DEF ManagerOK
<1>1. CASE isSatState = sat
  BY <1>1 DEF TimeBased!Mgr!PerformSwitch, TimeBased!Mgr!managerVars,
              Coverage!Mgr!PerformSwitch, Coverage!Mgr!managerVars
<1>2. CASE isSatState # sat
  <2>1. /\ isSatState' = sat /\ lastSwitchTime' = now
        /\ satCarrier' = IF HasSat THEN sat ELSE satCarrier
        /\ cellCarrier' = IF HasCell THEN ~sat ELSE cellCarrier
    BY <1>2 DEF TimeBased!Mgr!PerformSwitch, TimeBased!Mgr!CompleteSwitch,
                TimeBased!Mgr!UpdateInterfaceStates, Coverage!Mgr!PerformSwitch,
                Coverage!Mgr!CompleteSwitch, Coverage!Mgr!UpdateInterfaceStates
  <2> QED BY <1>2, <2>1
<1> QED BY <1>1, <1>2

(* The routes are as usable after a switch as the next rebuild is near.    *)
LEMMA SwitchStep ==
  ASSUME IInv, Switch, UNCHANGED <<configVars, lastSeen>>
  PROVE  IInv'
<1>1. /\ ManagerOK /\ ConfiguratorOK /\ switchingMode \in {"time-based", "coverage-based"}
      /\ seesVehicle \subseteq Satellites
      /\ UNCHANGED <<switchingMode, configTimer, routes, multicast, lastSeen>>
  BY DEF IInv, configVars
<1>2. ASSUME NEW sat \in BOOLEAN,
             TimeBased!Mgr!PerformSwitch(sat) \/ Coverage!Mgr!PerformSwitch(sat),
             UNCHANGED <<now, birth, seesVehicle>>,
             (switchingMode = "time-based" => Alternates)',
             (switchingMode = "coverage-based" => Follows)'
      PROVE  IInv'
  <2>1. /\ ManagerOK' /\ isSatState' = sat
        /\ \/ lastSwitchTime' = now
           \/ UNCHANGED <<isSatState, satCarrier, cellCarrier, lastSwitchTime>>
    BY <1>1, <1>2, PerformSwitchStep
  <2>2. ConfiguratorOK'
    BY <1>1, <1>2 DEF ConfiguratorOK
  <2>3. (BothInterfaces => Rebuilt)'
    <3>1. CASE lastSwitchTime' = now
      BY <1>1, <1>2, <3>1, IntervalTypes DEF ConfiguratorOK, ManagerOK, Rebuilt
    <3>2. CASE UNCHANGED <<isSatState, satCarrier, cellCarrier, lastSwitchTime>>
      BY <1>1, <3>2 DEF IInv, BothInterfaces, Rebuilt, RoutesUsable, HasCarrier
    <3> QED BY <2>1, <3>1, <3>2
  <2>4. (LooksAtLinks => Fresh)'
    BY <1>1, <1>2 DEF IInv, Fresh, LooksAtLinks
  <2> QED BY <1>1, <1>2, <2>1, <2>2, <2>3, <2>4 DEF IInv
<1>3. CASE switchingMode = "time-based" /\ TimeBased!Toggle /\ UNCHANGED skyVars
  <2>1. /\ TimeBased!Mgr!PerformSwitch(~isSatState) /\ (~isSatState) \in BOOLEAN
        /\ UNCHANGED <<now, birth, seesVehicle>>
        /\ now = switchTimer /\ switchTimer' = now + SwitchInterval
    BY <1>1, <1>3 DEF TimeBased!Toggle, TimeBased!historyVars, skyVars, ManagerOK
  <2>2. isSatState' = ~isSatState
    BY <1>1, <2>1, PerformSwitchStep
  <2>3. Alternates'
    <3>1. PICK n \in Nat :
            /\ switchTimer = birth + (n + 1) * SwitchInterval
            /\ isSatState = (IF n % 2 = 0 THEN StartWithSatellite ELSE ~StartWithSatellite)
      BY <1>3 DEF IInv, Alternates
    <3>2. /\ n + 1 \in Nat
          /\ ((n + 1) % 2 = 0) <=> ~(n % 2 = 0)
      OBVIOUS
    <3>3. StartWithSatellite \in BOOLEAN /\ birth \in Nat /\ birth' = birth
      BY <1>1, <2>1, HandoverAssumption DEF ManagerOK
    <3>4. (n + 1 + 1) * SwitchInterval = (n + 1) * SwitchInterval + SwitchInterval
      BY IntervalTypes
    <3>5. switchTimer' = birth' + (n + 1 + 1) * SwitchInterval
      <4> DEFINE k == (n + 1) * SwitchInterval
      <4>1. k \in Nat
        BY IntervalTypes
      <4> HIDE DEF k
      <4> QED BY <2>1, <3>1, <3>3, <3>4, <4>1, IntervalTypes DEF k
    <3>6. isSatState' = (IF (n + 1) % 2 = 0 THEN StartWithSatellite ELSE ~StartWithSatellite)
      <4>1. CASE n % 2 = 0
        BY <2>2, <3>1, <3>2, <3>3, <4>1
      <4>2. CASE ~(n % 2 = 0)
        BY <2>2, <3>1, <3>2, <3>3, <4>2
      <4> QED BY <4>1, <4>2
    <3> QED BY <3>2, <3>5, <3>6 DEF Alternates
  <2> QED BY <1>1, <1>2, <1>3, <2>1, <2>3
<1>4. CASE switchingMode = "coverage-based" /\ Coverage!EvaluateCoverage /\ UNCHANGED switchTimer
  <2>1. /\ UNCHANGED <<now, birth, seesVehicle, seesStation, steadySince>>
        /\ now = checkTimer /\ checkTimer' = now + CheckInterval
    BY <1>4 DEF Coverage!EvaluateCoverage, Coverage!historyVars, Coverage!skyVars
  <2>2. PICK sat \in BOOLEAN :
          /\ Coverage!Mgr!PerformSwitch(sat)
          /\ \/ sat = Coverage!IsSatelliteVisible
             \/ sat /\ ~HasCell
    <3>1. CASE isSatState /\ ~Coverage!IsSatelliteVisible /\ Coverage!Mgr!PerformSwitch(FALSE)
      BY <3>1 DEF Coverage!IsSatelliteVisible
    <3>2. CASE ~isSatState /\ Coverage!IsSatelliteVisible /\ Coverage!Mgr!PerformSwitch(TRUE)
      BY <3>2, HandoverAssumption DEF Coverage!IsSatelliteVisible
    <3>3. CASE /\ IF isSatState THEN Coverage!IsSatelliteVisible \/ ~Coverage!IsCellularAvailable
                                ELSE ~Coverage!IsSatelliteVisible
               /\ UNCHANGED Coverage!managerVars
      <4>1. Coverage!Mgr!PerformSwitch(isSatState)
        BY <3>3 DEF Coverage!Mgr!PerformSwitch, Coverage!Mgr!managerVars, Coverage!managerVars
      <4>2. isSatState \in BOOLEAN
        BY <1>1 DEF ManagerOK
      <4> QED BY <3>3, <4>1, <4>2, HandoverAssumption
              DEF Coverage!IsCellularAvailable, Coverage!IsSatelliteVisible
    <3> QED BY <1>4, <3>1, <3>2, <3>3 DEF Coverage!EvaluateCoverage
  <2>3. isSatState' = sat
    BY <1>1, <2>1, <2>2, PerformSwitchStep
  <2>4. Agrees'
    BY <2>1, <2>2, <2>3 DEF Agrees, Coverage!IsSatelliteVisible
  <2>5. Follows'
    BY <1>1, <1>4, <2>1, <2>4, IntervalTypes DEF IInv, Follows, ManagerOK
  <2> QED BY <1>1, <1>2, <1>4, <2>1, <2>2, <2>5
<1> QED BY <1>3, <1>4 DEF Switch

(* Time never passes the configurator's timer; a satellite that rises or   *)
(* sets restarts the steady time.                                          *)
LEMMA TimePassesStep ==
  ASSUME IInv, TimePasses, UNCHANGED configVars
  PROVE  IInv'
<1>1. /\ ManagerOK /\ ConfiguratorOK /\ now < configTimer
      /\ UNCHANGED <<switchingMode, configTimer, routes, multicast>>
      /\ lastSeen' = IF seesVehicle' = {} THEN lastSeen ELSE now'
  BY DEF IInv, configVars, TimePasses
<1>2. /\ now' = now + 1
      /\ UNCHANGED <<isSatState, satCarrier, cellCarrier, lastSwitchTime, birth>>
      /\ seesVehicle' \in SUBSET Satellites
  BY DEF TimePasses, TimeBased!TimePasses, TimeBased!Mgr!Tick, TimeBased!Mgr!managerVars,
         Coverage!TimePasses, Coverage!SkyTurns, Coverage!Mgr!Tick,
         Coverage!Mgr!managerVars
<1>3. ManagerOK' /\ ConfiguratorOK'
  BY <1>1, <1>2, IntervalTypes DEF ManagerOK, ConfiguratorOK
<1>4. (switchingMode = "time-based" => Alternates)'
  BY <1>1, <1>2 DEF IInv, TimePasses, TimeBased!TimePasses, Alternates
<1>5. (switchingMode = "coverage-based" => Follows)'
  <2> SUFFICES ASSUME switchingMode = "coverage-based" PROVE Follows'
    BY <1>1
  <2>1. /\ Follows /\ now < checkTimer /\ checkTimer' = checkTimer
        /\ steadySince' = IF Coverage!IsSatelliteVisible' = Coverage!IsSatelliteVisible
                          THEN steadySince ELSE now'
    BY DEF IInv, TimePasses, Coverage!TimePasses, Coverage!SkyTurns
  <2>2. CASE steadySince' = steadySince /\ Coverage!IsSatelliteVisible' = Coverage!IsSatelliteVisible
    BY <1>1, <1>2, <2>1, <2>2, IntervalTypes DEF Follows, Agrees, ManagerOK
  <2>3. CASE steadySince' = now'
    BY <1>1, <1>2, <2>1, <2>3, IntervalTypes DEF Follows, ManagerOK
  <2> QED BY <2>1, <2>2, <2>3
<1>6. (BothInterfaces => Rebuilt)'
  BY <1>1, <1>2 DEF IInv, BothInterfaces, Rebuilt, RoutesUsable, HasCarrier
<1>7. (LooksAtLinks => Fresh)'
  <2> SUFFICES ASSUME LooksAtLinks PROVE Fresh'
    BY DEF LooksAtLinks
  <2>1. Fresh /\ lastSeen' \in {lastSeen, now'} /\ (seesVehicle' # {} => lastSeen' = now')
    BY <1>1 DEF IInv
  <2>2. lastSeen' = lastSeen \/ lastSeen' = now + 1
    BY <1>2, <2>1
  <2>3. /\ now \in Nat /\ now' \in Nat /\ lastSeen \in Nat
        /\ configTimer \in Nat /\ configTimer <= now + TimerInterval
    BY <1>1, <1>3, <2>1 DEF Fresh, ManagerOK, ConfiguratorOK
  <2>4. CASE lastSeen' = lastSeen
    BY <1>1, <2>1, <2>3, <2>4 DEF Fresh
  <2>5. CASE lastSeen' = now + 1
    <3>1. configTimer - lastSeen' <= TimerInterval /\ lastSeen' \in Nat
      BY <2>3, <2>5, IntervalTypes
    <3> QED BY <1>1, <2>1, <3>1 DEF Fresh
  <2> QED BY <2>2, <2>4, <2>5
<1> QED BY <1>1, <1>2, <1>3, <1>4, <1>5, <1>6, <1>7 DEF IInv

(* What a rebuild leaves leaves by an interface with carrier, and a        *)
(* default route is among it.                                              *)
LEMMA RebuildIsUsable ==
  ASSUME ManagerOK, BothInterfaces, NEW static, static \in StaticRoutes
  PROVE  LET rebuilt == DirectRoutes \cup Optimized(static)
         IN /\ \E r \in rebuilt : r.dest = "default"
            /\ \A r \in rebuilt : HasCarrier(r.iface)
<1>1. \E l \in Link : HasCarrier(l)
  BY DEF ManagerOK, BothInterfaces, Link, HasCarrier
<1>2. \E r \in DirectRoutes : r.dest = "default"
  <2>1. PICK l \in Link : HasCarrier(l)
    BY <1>1
  <2> DEFINE default == [dest |-> "default", iface |-> l, gateway |-> FALSE]
  <2>2. default \in DirectRoutes
    BY <2>1 DEF DirectRoutes, Route, HasCarrier
  <2> QED BY <2>2
<1>3. \A r \in DirectRoutes : HasCarrier(r.iface)
  BY DEF DirectRoutes
<1>4. satCarrier \/ cellCarrier
  BY DEF ManagerOK, BothInterfaces
<1>5. static \subseteq Route
  BY DEF StaticRoutes
<1>6. \A r \in Optimized(static) : HasCarrier(r.iface)
  BY <1>4, <1>5 DEF Optimized, Route
<1> QED BY <1>2, <1>3, <1>6

(* A gatewayed satellite route a rebuild leaves follows a path.            *)
LEMMA RebuildIsFresh ==
  ASSUME NEW static, static \in StaticRoutes,
         NEW r, r \in DirectRoutes \cup Optimized(static), r.gateway, r.iface = "satellite"
  PROVE  Topology!PathExists
<1>1. r \in Optimized(static)
  BY DEF DirectRoutes
<1>2. static \subseteq Route
  BY DEF StaticRoutes
<1>3. \E q \in static : q.gateway /\ q.iface = "satellite"
  BY <1>1, <1>2 DEF Optimized, Route
<1> QED BY <1>3 DEF StaticRoutes

(* A firing of the configurator's timer.                                   *)
LEMMA ReinvokeStep ==
  ASSUME IInv, ReinvokeConfigurator
  PROVE  IInv'
<1>1. /\ ManagerOK /\ ConfiguratorOK /\ now = configTimer /\ configTimer' = now + TimerInterval
      /\ UNCHANGED <<now, isSatState, satCarrier, cellCarrier, lastSwitchTime, birth,
                     switchTimer, seesVehicle, seesStation, checkTimer, steadySince,
                     switchingMode, lastSeen>>
      /\ multicast' = multicast \div 2
  BY DEF IInv, ReinvokeConfigurator, MulticastLeft, managerVars, historyVars, skyVars
<1>2. PICK static \in StaticRoutes : routes' = DirectRoutes \cup Optimized(static)
  BY DEF ReinvokeConfigurator
<1>3. ManagerOK' /\ ConfiguratorOK'
  BY <1>1, IntervalTypes DEF ManagerOK, ConfiguratorOK
<1>4. (switchingMode = "time-based" => Alternates)'
  BY <1>1 DEF IInv, Alternates
<1>5. (switchingMode = "coverage-based" => Follows)'
  BY <1>1 DEF IInv, Follows, Agrees, Coverage!IsSatelliteVisible
<1>6. (BothInterfaces => Rebuilt)'
  BY <1>1, <1>2, RebuildIsUsable DEF BothInterfaces, Rebuilt, RoutesUsable, HasCarrier
<1>7. (LooksAtLinks => Fresh)'
  <2> SUFFICES ASSUME LooksAtLinks PROVE Fresh'
    BY DEF LooksAtLinks
  <2>1. Fresh
    BY DEF IInv
  <2>2. (\E r \in routes' : r.gateway /\ r.iface = "satellite") => seesVehicle # {}
    BY <1>2, RebuildIsFresh, NoSatelliteNoPath
  <2> QED BY <1>1, <2>1, <2>2, IntervalTypes DEF Fresh, ManagerOK
<1> QED BY <1>1, <1>3, <1>4, <1>5, <1>6, <1>7 DEF IInv

(* The end of the vehicle moves the totals only.                           *)
LEMMA QuietStep ==
  ASSUME IInv,
         UNCHANGED <<now, isSatState, satCarrier, cellCarrier, lastSwitchTime, birth,
                     switchTimer, skyVars, configVars, lastSeen>>
  PROVE  IInv'
<1>1. /\ UNCHANGED <<seesVehicle, seesStation, checkTimer, steadySince>>
      /\ UNCHANGED <<switchingMode, configTimer, routes, multicast>>
  BY DEF skyVars, configVars
<1>2. ManagerOK' /\ ConfiguratorOK'
  BY <1>1 DEF IInv, ManagerOK, ConfiguratorOK
<1>3. (switchingMode = "time-based" => Alternates)'
  BY <1>1 DEF IInv, Alternates
<1>4. (switchingMode = "coverage-based" => Follows)'
  BY <1>1 DEF IInv, Follows, Agrees, Coverage!IsSatelliteVisible
<1>5. (BothInterfaces => Rebuilt)'
  BY <1>1 DEF IInv, BothInterfaces, Rebuilt, RoutesUsable, HasCarrier
<1>6. (LooksAtLinks => Fresh)'
  BY <1>1 DEF IInv, Fresh, LooksAtLinks
<1> QED BY <1>1, <1>2, <1>3, <1>4, <1>5, <1>6 DEF IInv

(* Every step keeps the invariant.                                         *)
LEMMA NextIInv == IInv /\ [Next]_vars => IInv'
<1> SUFFICES ASSUME IInv, [Next]_vars PROVE IInv'
  OBVIOUS
<1>1. CASE ReinvokeConfigurator
  BY <1>1, ReinvokeStep
<1>2. CASE Switch /\ UNCHANGED <<configVars, lastSeen>>
  BY <1>2, SwitchStep
<1>3. CASE End /\ UNCHANGED <<configVars, lastSeen>>
  BY <1>3, QuietStep DEF End, TimeBased!End, TimeBased!Mgr!Finish, TimeBased!Mgr!FinishTotals,
                         TimeBased!Mgr!historyVars
<1>4. CASE TimePasses /\ UNCHANGED configVars
  BY <1>4, TimePassesStep
<1>5. CASE UNCHANGED vars
  BY <1>5, QuietStep DEF vars, managerVars, historyVars
<1> QED BY <1>1, <1>2, <1>3, <1>4, <1>5 DEF Next

(* The invariant holds of every reachable state.                           *)
THEOREM Invariance == Spec => []IInv
  BY InitIInv, NextIInv, PTL DEF Spec

-----------------------------------------------------------------------------
(* A whole number of intervals divides evenly.                             *)
LEMMA WholeIntervals ==
  ASSUME NEW n \in Nat, NEW k \in Nat, k > 0
  PROVE  (n * k) % k = 0 /\ (n * k) \div k = n
OBVIOUS

(* The time-based alternation never drifts: the interface in use is the    *)
(* one the vehicle's age asks for (TimeBasedStrategy::handleMessage).      *)
THEOREM Alternation == Spec => []InPhase
<1>1. IInv => InPhase
  <2> SUFFICES ASSUME IInv, switchingMode = "time-based" PROVE TimeBased!InPhase
    BY DEF InPhase
  <2>1. PICK n \in Nat :
          /\ switchTimer = birth + (n + 1) * SwitchInterval
          /\ isSatState = (IF n % 2 = 0 THEN StartWithSatellite ELSE ~StartWithSatellite)
    BY DEF IInv, Alternates
  <2>2. (n + 1) * SwitchInterval \in Nat /\ birth \in Nat /\ n + 1 \in Nat
    BY IntervalTypes DEF IInv, ManagerOK
  <2>3. switchTimer - birth = (n + 1) * SwitchInterval
    BY <2>1, <2>2
  <2>4. /\ (switchTimer - birth) % SwitchInterval = 0
        /\ (switchTimer - birth) \div SwitchInterval = n + 1
    BY <2>2, <2>3, WholeIntervals, IntervalTypes
  <2>5. (switchTimer - birth) \div SwitchInterval - 1 = n
    BY <2>4
  <2> QED BY <2>1, <2>4, <2>5 DEF TimeBased!InPhase
<1> QED BY Invariance, <1>1, PTL

(* Once the sky has been steady for more than a check interval, the        *)
(* vehicle uses the satellite exactly when one is usable, unless it has no *)
(* other interface (evaluateCoverage).                                     *)
THEOREM Follow == Spec => []FollowsCoverage
<1>1. IInv => FollowsCoverage
  BY IntervalTypes DEF IInv, ManagerOK, Follows, Agrees, FollowsCoverage, Coverage!FollowsCoverage
<1> QED BY Invariance, <1>1, PTL

(* A vehicle with both interfaces is blind for at most one timer interval  *)
(* of the configurator after a switch (reinvokeConfigurator).              *)
THEOREM BlindWindow ==
  ASSUME BothInterfaces
  PROVE  Spec => []BlindWindowBounded
<1>1. IInv => BlindWindowBounded
  BY IntervalTypes DEF IInv, ManagerOK, ConfiguratorOK, Rebuilt, RoutesUsable, BlindWindowBounded
<1> QED BY Invariance, <1>1, PTL

-----------------------------------------------------------------------------
(* Multicast routes: each firing leaves at most half of them.              *)

(* The powers of two, up to the k-th.                                      *)
PowersOfTwo(power, k) ==
  /\ power \in [0..k -> Nat]
  /\ power[0] = 1
  /\ \A n \in 1..k : power[n] = 2 * power[n - 1]

(* Once the timer stands more than n intervals after the vehicle's         *)
(* creation it has fired n times, and each time halved what was left.      *)
Halved(power, k) ==
  /\ multicast \in 0..MulticastRoutes
  /\ \A n \in 0..k :
       configTimer > birth + n * TimerInterval => multicast * power[n] <= MulticastRoutes

(* What half of the routes are worth at twice the price.                   *)
LEMMA HalfAtTwice ==
  ASSUME NEW m \in Nat, NEW p \in Nat
  PROVE  (m \div 2) * (2 * p) <= m * p
<1>1. PICK h \in Nat : m \div 2 = h /\ 2 * h <= m
  OBVIOUS
<1>2. h * (2 * p) = (2 * h) * p
  OBVIOUS
<1>3. PICK d \in Nat : m = 2 * h + d
  <2>1. m - 2 * h \in Nat /\ m = 2 * h + (m - 2 * h)
    BY <1>1
  <2> QED BY <2>1
<1>4. (2 * h + d) * p = (2 * h) * p + d * p /\ d * p \in Nat /\ (2 * h) * p \in Nat
  OBVIOUS
<1> QED BY <1>1, <1>2, <1>3, <1>4

(* Initially there are no more routes than were configured.                *)
LEMMA InitHalved ==
  ASSUME NEW k \in Nat, NEW power, PowersOfTwo(power, k), Init
  PROVE  Halved(power, k)
<1>1. IInv
  BY InitIInv
<1>2. /\ birth \in Nat /\ now = birth /\ configTimer \in Nat
      /\ configTimer <= now + TimerInterval
      /\ multicast \in 0..MulticastRoutes /\ MulticastRoutes \in Nat
  BY <1>1, HandoverAssumption DEF IInv, ManagerOK, ConfiguratorOK, Init, TimeBased!Init,
                                  TimeBased!Mgr!Init
<1>3. ASSUME NEW n \in 0..k, configTimer > birth + n * TimerInterval
      PROVE  multicast * power[n] <= MulticastRoutes
  <2>1. n = 0
    <3>1. SUFFICES ASSUME n > 0 PROVE FALSE
      BY <3>1
    <3>2. PICK j \in Nat : n = j + 1
      <4>1. n - 1 \in Nat /\ n = (n - 1) + 1
        BY <3>1
      <4> QED BY <4>1
    <3>3. (j + 1) * TimerInterval = j * TimerInterval + TimerInterval /\ j * TimerInterval \in Nat
      BY IntervalTypes
    <3> QED BY <1>2, <1>3, <3>2, <3>3, IntervalTypes
  <2> QED BY <1>2, <2>1 DEF PowersOfTwo
<1> QED BY <1>2, <1>3 DEF Halved

(* A firing halves them once more; nothing else touches them.              *)
LEMMA NextHalved ==
  ASSUME NEW k \in Nat, NEW power, PowersOfTwo(power, k),
         IInv, Halved(power, k), [Next]_vars
  PROVE  Halved(power, k)'
<1>1. MulticastRoutes \in Nat /\ multicast \in Nat /\ multicast <= MulticastRoutes
  BY HandoverAssumption DEF Halved
<1>2. CASE ReinvokeConfigurator
  <2>1. /\ multicast' = multicast \div 2 /\ configTimer' = configTimer + TimerInterval
        /\ birth' = birth /\ birth \in Nat /\ configTimer \in Nat
    BY <1>2 DEF ReinvokeConfigurator, MulticastLeft, historyVars, IInv, ManagerOK,
                ConfiguratorOK
  <2>2. multicast' \in 0..MulticastRoutes
    BY <1>1, <2>1
  <2>3. ASSUME NEW n \in 0..k, configTimer' > birth' + n * TimerInterval
        PROVE  multicast' * power[n] <= MulticastRoutes
    <3>1. CASE n = 0
      BY <2>2, <3>1, <1>1 DEF PowersOfTwo
    <3>2. CASE n # 0
      <4>1. PICK j \in 0..k : n = j + 1
        <5>1. n - 1 \in 0..k /\ n = (n - 1) + 1
          BY <3>2
        <5> QED BY <5>1
      <4>2. power[n] = 2 * power[j] /\ power[j] \in Nat
        <5>1. n \in 1..k /\ n - 1 = j
          BY <4>1
        <5> QED BY <5>1 DEF PowersOfTwo
      <4>3. (j + 1) * TimerInterval = j * TimerInterval + TimerInterval
            /\ j * TimerInterval \in Nat
        BY IntervalTypes
      <4>4. configTimer > birth + j * TimerInterval
        BY <2>1, <2>3, <4>1, <4>3, IntervalTypes
      <4>5. multicast * power[j] <= MulticastRoutes
        BY <4>4 DEF Halved
      <4>6. (multicast \div 2) * (2 * power[j]) <= multicast * power[j]
        BY <1>1, <4>2, HalfAtTwice
      <4>7. (multicast \div 2) * (2 * power[j]) \in Nat /\ multicast * power[j] \in Nat
        BY <1>1, <4>2
      <4> QED BY <1>1, <2>1, <4>2, <4>5, <4>6, <4>7
    <3> QED BY <3>1, <3>2
  <2> QED BY <2>2, <2>3 DEF Halved
<1>3. CASE UNCHANGED <<multicast, configTimer, birth>>
  BY <1>3 DEF Halved
<1>4. Next => ReinvokeConfigurator \/ UNCHANGED <<multicast, configTimer, birth>>
  BY DEF Next, Switch, End, TimePasses, configVars, TimeBased!Toggle, TimeBased!historyVars,
         Coverage!EvaluateCoverage, Coverage!historyVars, TimeBased!End, TimeBased!Mgr!Finish,
         TimeBased!Mgr!historyVars, TimeBased!TimePasses, TimeBased!Mgr!Tick,
         Coverage!TimePasses, Coverage!Mgr!Tick
<1>5. UNCHANGED vars => UNCHANGED <<multicast, configTimer, birth>>
  BY DEF vars, configVars, historyVars
<1> QED BY <1>2, <1>3, <1>4, <1>5

(* Fewer routes than the k-th power of two cannot be halved k times.       *)
LEMMA HalvedAway ==
  ASSUME NEW k \in Nat, NEW power, PowersOfTwo(power, k), MulticastRoutes < power[k]
  PROVE  IInv /\ Halved(power, k) => (now > birth + k * TimerInterval => multicast = 0)
<1> SUFFICES ASSUME IInv, Halved(power, k), now > birth + k * TimerInterval
             PROVE  multicast = 0
  OBVIOUS
<1>1. /\ now \in Nat /\ birth \in Nat /\ configTimer \in Nat /\ now <= configTimer
      /\ k * TimerInterval \in Nat
  BY IntervalTypes DEF IInv, ManagerOK, ConfiguratorOK
<1>2. configTimer > birth + k * TimerInterval
  BY <1>1
<1>3. multicast * power[k] <= MulticastRoutes /\ multicast \in Nat
  BY <1>2 DEF Halved
<1>4. power[k] \in Nat /\ MulticastRoutes \in Nat
  BY HandoverAssumption DEF PowersOfTwo
<1>5. \A m, p, r \in Nat : m * p <= r /\ r < p => m = 0
  <2> SUFFICES ASSUME NEW m \in Nat, NEW p \in Nat, m > 0 PROVE m * p >= p
    OBVIOUS
  <2>1. m - 1 \in Nat /\ (m - 1) * p \in Nat /\ m * p = (m - 1) * p + p
    OBVIOUS
  <2> QED BY <2>1
<1> QED BY <1>3, <1>4, <1>5

(* However many multicast routes the station has: fewer than the k-th      *)
(* power of two are gone k timer intervals after the vehicle's creation    *)
(* (reinvokeConfigurator, which skips every other route).                  *)
THEOREM AllMulticastGoes ==
  ASSUME NEW k \in Nat, NEW power, PowersOfTwo(power, k), MulticastRoutes < power[k]
  PROVE  Spec => [](now > birth + k * TimerInterval => multicast = 0)
<1>1. Init => Halved(power, k)
  BY InitHalved
<1>2. IInv /\ Halved(power, k) /\ [Next]_vars => Halved(power, k)'
  BY NextHalved
<1>3. IInv /\ Halved(power, k) => (now > birth + k * TimerInterval => multicast = 0)
  BY HalvedAway
<1> QED BY <1>1, <1>2, <1>3, Invariance, PTL DEF Spec

(* Up to three of them, then, after two firings.                           *)
THEOREM MulticastGoes ==
  ASSUME MulticastRoutes <= 3
  PROVE  Spec => []StaleMulticastGoes
<1> DEFINE power == [n \in 0..2 |-> IF n = 0 THEN 1 ELSE 2 * n]
<1>1. PowersOfTwo(power, 2)
  BY DEF PowersOfTwo
<1>2. MulticastRoutes < power[2] /\ 2 \in Nat
  BY HandoverAssumption
<1> HIDE DEF power
<1>3. Init => Halved(power, 2)
  BY <1>1, <1>2, InitHalved
<1>4. IInv /\ Halved(power, 2) /\ [Next]_vars => Halved(power, 2)'
  BY <1>1, <1>2, NextHalved
<1>5. IInv /\ Halved(power, 2) => StaleMulticastGoes
  BY <1>1, <1>2, HalvedAway DEF StaleMulticastGoes
<1> QED BY <1>3, <1>4, <1>5, Invariance, PTL DEF Spec

-----------------------------------------------------------------------------
(* With the propagation delay as metric, a gatewayed satellite route       *)
(* outlives the last satellite in reach by at most one timer interval,     *)
(* however the sky turns, and also where the time-based strategy leaves    *)
(* the vehicle on a satellite that has set (filterVeinsSatelliteLinks,     *)
(* computeWirelessLinkWeight).                                             *)
THEOREM RoutesFresh ==
  ASSUME LooksAtLinks
  PROVE  Spec => []SatelliteRoutesFresh
<1>1. IInv => SatelliteRoutesFresh
  BY IntervalTypes DEF IInv, ManagerOK, ConfiguratorOK, Fresh, SatelliteRoutesFresh
<1> QED BY Invariance, <1>1, PTL

(* Whenever the coverage-based strategy sees a usable satellite and the    *)
(* vehicle's carrier is on, the configurator has a path (isReachable on    *)
(* both sides), under every metric.                                        *)
THEOREM Routable == Spec => []CoveredMeansRoutable
<1>1. IInv => CoveredMeansRoutable
  <2> SUFFICES ASSUME IInv, Coverage!IsSatelliteVisible, satCarrier PROVE Topology!PathExists
    BY DEF CoveredMeansRoutable
  <2>1. PICK s : s \in seesVehicle /\ ValidPosition
    BY DEF Coverage!IsSatelliteVisible
  <2> QED BY <2>1, SeenMeansPath DEF IInv
<1> QED BY Invariance, <1>1, PTL

-----------------------------------------------------------------------------
(* The manager under the strategies.                                       *)

Manager == INSTANCE InterfaceManager_proofs

(* InterfaceManager's assumption is part of this module's.                 *)
ManagerAssumed ==
  /\ Births \subseteq Nat
  /\ MaxTime \in Nat /\ MaxSwitches \in Nat
  /\ StartWithSatellite \in BOOLEAN /\ HasSat \in BOOLEAN /\ HasCell \in BOOLEAN

(* The two strategies' manager is one and the same.                        *)
LEMMA OneManager ==
  ASSUME NEW sat, TimeBased!Mgr!PerformSwitch(sat) \/ Coverage!Mgr!PerformSwitch(sat)
  PROVE  Manager!PerformSwitch(sat)
BY DEF TimeBased!Mgr!PerformSwitch, TimeBased!Mgr!managerVars,
       TimeBased!Mgr!CompleteSwitch, TimeBased!Mgr!UpdateInterfaceStates,
       TimeBased!Mgr!SinceSwitch,
       Coverage!Mgr!PerformSwitch, Coverage!Mgr!managerVars,
       Coverage!Mgr!CompleteSwitch, Coverage!Mgr!UpdateInterfaceStates,
       Coverage!Mgr!SinceSwitch,
       Manager!PerformSwitch, Manager!managerVars, Manager!CompleteSwitch,
       Manager!UpdateInterfaceStates, Manager!SinceSwitch

(* A handover reaches the manager as one call at most; the configurator    *)
(* never calls it.                                                         *)
THEOREM UsesManager == Spec => Manager!OpenSpec
<1>1. Init => Manager!Init
  BY DEF Init, TimeBased!Init, TimeBased!Mgr!Init, Manager!Init
<1>2. IInv /\ [Next]_vars => [Manager!OpenNext]_Manager!vars
  <2> SUFFICES ASSUME IInv, [Next]_vars
               PROVE  [Manager!OpenNext]_Manager!vars
    OBVIOUS
  <2> USE DEF Manager!vars, Manager!managerVars, Manager!historyVars
  <2>1. ASSUME NEW sat \in BOOLEAN, ~finished,
               TimeBased!Mgr!PerformSwitch(sat) \/ Coverage!Mgr!PerformSwitch(sat),
               UNCHANGED <<now, finished, birth, satOnTime, cellOnTime>>
        PROVE  Manager!OpenNext
    <3>1. Manager!PerformSwitch(sat)
      BY <2>1, OneManager
    <3>2. Manager!Serve(sat)
      BY <2>1, <3>1 DEF Manager!Serve
    <3> QED BY <3>2 DEF Manager!OpenNext
  <2>2. CASE TimeBased!Toggle
    <3>1. (~isSatState) \in BOOLEAN
      BY DEF IInv, ManagerOK
    <3> QED BY <2>1, <2>2, <3>1 DEF TimeBased!Toggle, TimeBased!historyVars
  <2>3. CASE Coverage!EvaluateCoverage
    <3>1. ~finished /\ UNCHANGED <<now, finished, birth, satOnTime, cellOnTime>>
      BY <2>3 DEF Coverage!EvaluateCoverage, Coverage!historyVars
    <3>2. CASE Coverage!Mgr!PerformSwitch(FALSE) \/ Coverage!Mgr!PerformSwitch(TRUE)
      BY <2>1, <3>1, <3>2
    <3>3. CASE UNCHANGED Coverage!managerVars
      BY <3>1, <3>3 DEF Coverage!managerVars
    <3> QED BY <2>3, <3>2, <3>3 DEF Coverage!EvaluateCoverage
  <2>4. CASE TimePasses
    <3>1. Manager!Tick
      BY <2>4 DEF TimePasses, TimeBased!TimePasses, Coverage!TimePasses, TimeBased!Mgr!Tick,
                  Coverage!Mgr!Tick, TimeBased!Mgr!managerVars, Coverage!Mgr!managerVars,
                  Manager!Tick
    <3> QED BY <3>1 DEF Manager!OpenNext
  <2>5. CASE End
    <3>1. Manager!Finish
      BY <2>5 DEF End, TimeBased!End, TimeBased!Mgr!Finish, TimeBased!Mgr!FinishTotals,
                  TimeBased!Mgr!SinceSwitch, TimeBased!Mgr!historyVars,
                  Manager!Finish, Manager!FinishTotals, Manager!SinceSwitch
    <3> QED BY <3>1 DEF Manager!OpenNext
  <2>6. CASE ReinvokeConfigurator \/ UNCHANGED vars
    BY <2>6 DEF ReinvokeConfigurator, vars, managerVars, historyVars
  <2> QED BY <2>2, <2>3, <2>4, <2>5, <2>6 DEF Next, Switch
<1> QED BY <1>1, <1>2, Invariance, PTL DEF Spec, Manager!OpenSpec

(* So the usage statistics are the times the carriers were on, and every   *)
(* switch is hard, also under the strategies with a timer of their own.    *)
THEOREM ManagerKeepsPromises ==
  Spec =>
    [](Manager!UsageMatchesCarrier /\ Manager!OneCarrier) /\ Manager!ImplementsUsage
<1>1. ManagerAssumed
  BY HandoverAssumption DEF ManagerAssumed
<1>2. Manager!OpenSpec => []Manager!IInv
  BY <1>1, Manager!OpenInvariance, PTL DEF ManagerAssumed
<1>3. Manager!IInv => Manager!UsageMatchesCarrier /\ Manager!OneCarrier
  BY <1>1 DEF ManagerAssumed, Manager!IInv, Manager!TypeOK, Manager!CarriersFollowState,
              Manager!OneCarrier
<1>4. Manager!OpenSpec => Manager!ImplementsUsage
  BY <1>1, Manager!OpenRefinement, PTL DEF ManagerAssumed
<1> QED BY UsesManager, <1>2, <1>3, <1>4, PTL
=============================================================================
