------------------------- MODULE CoverageBasedStrategy -------------------------
(* The coverage-based strategy: satellite whenever one satellite sees both *)
(* the vehicle and the ground station.  A tick is half a second, the delay *)
(* of the first check.                                                     *)
EXTENDS Integers

CONSTANTS
  Births, MaxTime, MaxSwitches, StartWithSatellite, HasSat, HasCell, \* manager
  FirstCheck,     \* 0.5 s
  CheckInterval,  \* coverageCheckInterval
  Satellites,     \* the satellite modules of the network
  ValidPosition   \* has the vehicle a position Veins and the converter accept?

VARIABLES
  now, isSatState, satCarrier, cellCarrier, satTotalTime, cellTotalTime,
  lastSwitchTime, totalSwitchesCount, finished, birth, satOnTime, cellOnTime,
  seesVehicle, seesStation,  \* external: the satellites that reach each of them
  checkTimer,                \* when the timer fires
  steadySince                \* history: since when visibility has not changed

Mgr == INSTANCE InterfaceManager

managerVars == <<isSatState, satCarrier, cellCarrier, satTotalTime, cellTotalTime,
                 lastSwitchTime, totalSwitchesCount>>
historyVars == <<birth, satOnTime, cellOnTime>>
skyVars == <<seesVehicle, seesStation, steadySince>>
vars == <<now, managerVars, finished, historyVars, skyVars, checkTimer>>

(* One and the same satellite must reach both ends: it is a bent pipe.     *)
IsSatelliteVisible == ValidPosition /\ seesVehicle \cap seesStation # {}

(* Mutant: asks for the carrier instead of the interface.                  *)
IsCellularUp == cellCarrier

IsCellularAvailable == HasCell

Init ==
  /\ Mgr!Init
  /\ seesVehicle \in SUBSET Satellites
  /\ seesStation \in SUBSET Satellites
  /\ steadySince = now
  /\ checkTimer = now + FirstCheck

(* handleMessage and evaluateCoverage: prefer the satellite; when it is    *)
(* lost, go to cellular if there is any, else stay.                        *)
EvaluateCoverage ==
  /\ ~finished
  /\ now = checkTimer
  /\ \/ isSatState /\ ~IsSatelliteVisible /\ IsCellularAvailable /\ Mgr!PerformSwitch(FALSE)
     \/ ~isSatState /\ IsSatelliteVisible /\ Mgr!PerformSwitch(TRUE)
     \/ /\ IF isSatState THEN IsSatelliteVisible \/ ~IsCellularAvailable
                         ELSE ~IsSatelliteVisible
        /\ UNCHANGED managerVars
  /\ checkTimer' = now + CheckInterval
  /\ UNCHANGED <<now, finished, historyVars, skyVars>>

(* Satellites rise and set while time passes.                              *)
SkyTurns ==
  /\ seesVehicle' \in SUBSET Satellites
  /\ seesStation' \in SUBSET Satellites
  /\ steadySince' = IF IsSatelliteVisible' = IsSatelliteVisible THEN steadySince ELSE now'

TimePasses ==
  /\ now < checkTimer
  /\ Mgr!Tick
  /\ SkyTurns
  /\ UNCHANGED checkTimer

End == Mgr!Finish /\ UNCHANGED <<skyVars, checkTimer>>

Next == EvaluateCoverage \/ TimePasses \/ End

Spec == Init /\ [][Next]_vars

-----------------------------------------------------------------------------
(* Every variable has its type.                                            *)
TypeOK ==
  /\ Mgr!TypeOK
  /\ seesVehicle \subseteq Satellites /\ seesStation \subseteq Satellites
  /\ steadySince \in birth..now
  /\ checkTimer \in now..(now + FirstCheck + CheckInterval)

(* The vehicle follows the sky: once visibility has been steady for more   *)
(* than a check interval (or the first check), it is on the satellite      *)
(* exactly when one is usable, except that a vehicle without cellular      *)
(* stays on a satellite it has lost.                                       *)
FollowsCoverage ==
  now - steadySince > CheckInterval /\ now - birth > FirstCheck =>
    \/ isSatState = IsSatelliteVisible
    \/ isSatState /\ ~HasCell
=============================================================================
