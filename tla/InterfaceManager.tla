--------------------------- MODULE InterfaceManager ---------------------------
(***************************************************************************)
(* HybridInterfaceManager: the hard switch of a hybrid vehicle between its *)
(* satellite and its cellular interface.  The routing reads the carriers;  *)
(* the statistics read the usage times and the switch counter.             *)
(*                                                                         *)
(* The module stands alone, with PerformSwitch called at any time, and is  *)
(* instantiated by the strategies, which decide when to call it.  Time is  *)
(* counted in ticks from the start of the simulation.                      *)
(***************************************************************************)
EXTENDS Integers

CONSTANTS
  Births,              \* times at which the vehicle may be created
  MaxTime,             \* bound: the simulation ends here
  MaxSwitches,         \* bound: switches of the stand-alone specification
  StartWithSatellite,  \* NED parameter startWithSatellite
  HasSat, HasCell      \* does the interface table hold this interface?

ASSUME ManagerAssumption ==
  /\ Births \subseteq Nat
  /\ MaxTime \in Nat /\ MaxSwitches \in Nat
  /\ StartWithSatellite \in BOOLEAN /\ HasSat \in BOOLEAN /\ HasCell \in BOOLEAN

VARIABLES
  now,        \* simTime()
  isSatState, \* true: satellite active, false: cellular active
  satCarrier, cellCarrier,      \* carriers of satInterface and cellInterface
  satTotalTime, cellTotalTime,  \* usage charged so far
  lastSwitchTime, totalSwitchesCount,
  finished,                     \* finish() has run
  birth,      \* when this vehicle was created
  satOnTime, cellOnTime         \* history: how long each carrier was on

managerVars == <<isSatState, satCarrier, cellCarrier, satTotalTime, cellTotalTime,
                 lastSwitchTime, totalSwitchesCount>>
historyVars == <<birth, satOnTime, cellOnTime>>
vars == <<now, managerVars, finished, historyVars>>

(* Mutant: the interface that is left keeps its carrier.                   *)
RaiseOnly(sat) ==
  /\ satCarrier' = IF HasSat /\ sat THEN TRUE ELSE satCarrier
  /\ cellCarrier' = IF HasCell /\ ~sat THEN TRUE ELSE cellCarrier

(* updateInterfaceStates: an interface that exists gets the carrier of the *)
(* state; both stay administratively UP.                                   *)
UpdateInterfaceStates(sat) ==
  /\ satCarrier' = IF HasSat THEN sat ELSE satCarrier
  /\ cellCarrier' = IF HasCell THEN ~sat ELSE cellCarrier

(* Both initialization stages; the strategy starts with them.              *)
Init ==
  /\ birth \in Births
  /\ now = birth
  /\ isSatState = StartWithSatellite
  /\ satCarrier = (HasSat /\ StartWithSatellite)
  /\ cellCarrier = (HasCell /\ ~StartWithSatellite)
  /\ satTotalTime = 0 /\ cellTotalTime = 0
  /\ lastSwitchTime = now
  /\ totalSwitchesCount = 0
  /\ finished = FALSE
  /\ satOnTime = 0 /\ cellOnTime = 0

(* Mutants: the operands swapped; the creation for the last switch.        *)
SinceReversed == lastSwitchTime - now
SinceBirth == now - birth

(* simTime() - lastSwitchTime, what completeSwitch and finish charge.      *)
SinceSwitch == now - lastSwitchTime

(* completeSwitch: the time since the last switch goes to the interface    *)
(* that was active until now.                                              *)
CompleteSwitch(sat) ==
  /\ cellTotalTime' = IF sat THEN cellTotalTime + SinceSwitch ELSE cellTotalTime
  /\ satTotalTime' = IF sat THEN satTotalTime ELSE satTotalTime + SinceSwitch
  /\ totalSwitchesCount' = totalSwitchesCount + 1
  /\ lastSwitchTime' = now
  /\ UpdateInterfaceStates(sat)

(* performSwitch: nothing to do in the requested state.                    *)
PerformSwitch(toSatellite) ==
  IF isSatState = toSatellite
  THEN UNCHANGED managerVars
  ELSE isSatState' = toSatellite /\ CompleteSwitch(toSatellite)

(* Mutant: the tail of the run is charged to nobody.                       *)
DropTail == UNCHANGED managerVars

(* finish: the tail of the run goes to the interface active at the end.    *)
FinishTotals ==
  /\ satTotalTime' = IF isSatState THEN satTotalTime + SinceSwitch ELSE satTotalTime
  /\ cellTotalTime' = IF isSatState THEN cellTotalTime ELSE cellTotalTime + SinceSwitch
  /\ UNCHANGED <<isSatState, satCarrier, cellCarrier, lastSwitchTime,
                 totalSwitchesCount>>

-----------------------------------------------------------------------------
(* Time passes; the history charges it to the carriers that are on.        *)
Tick ==
  /\ ~finished
  /\ now < MaxTime
  /\ now' = now + 1
  /\ satOnTime' = IF satCarrier THEN satOnTime + 1 ELSE satOnTime
  /\ cellOnTime' = IF cellCarrier THEN cellOnTime + 1 ELSE cellOnTime
  /\ UNCHANGED <<managerVars, finished, birth>>

(* A strategy calls performSwitch.                                         *)
Call(toSatellite) ==
  /\ ~finished
  /\ totalSwitchesCount < MaxSwitches
  /\ PerformSwitch(toSatellite)
  /\ UNCHANGED <<now, finished, historyVars>>

(* The vehicle leaves or the simulation ends.                              *)
Finish ==
  /\ ~finished
  /\ finished' = TRUE
  /\ FinishTotals
  /\ UNCHANGED <<now, historyVars>>

Next ==
  \/ Tick
  \/ \E toSatellite \in BOOLEAN : Call(toSatellite)
  \/ Finish

Spec == Init /\ [][Next]_vars

-----------------------------------------------------------------------------
(* Properties.                                                             *)

(* Every variable has its type.                                            *)
TypeOK ==
  /\ birth \in Births
  /\ now \in Nat /\ lastSwitchTime \in Nat
  /\ birth <= lastSwitchTime /\ lastSwitchTime <= now
  /\ isSatState \in BOOLEAN /\ satCarrier \in BOOLEAN /\ cellCarrier \in BOOLEAN
  /\ satTotalTime \in Nat /\ cellTotalTime \in Nat
  /\ totalSwitchesCount \in Nat
  /\ finished \in BOOLEAN
  /\ satOnTime \in Nat /\ cellOnTime \in Nat

(* A hard switch: the two carriers are never on together, and a vehicle    *)
(* with both interfaces is never without a carrier (performSwitch,         *)
(* updateInterfaceStates).                                                 *)
OneCarrier ==
  /\ ~(satCarrier /\ cellCarrier)
  /\ HasSat /\ HasCell => satCarrier \/ cellCarrier

(* The time since the last switch, not yet charged to anybody.             *)
Pending(sat) == IF isSatState = sat /\ ~finished THEN now - lastSwitchTime ELSE 0

(* The usage statistics tell the truth: what the totals say, plus the time *)
(* since the last switch, is how long each interface really had a carrier, *)
(* however the switches fall and whenever the vehicle ends.                *)
UsageMatchesCarrier ==
  /\ HasSat  => satTotalTime + Pending(TRUE) = satOnTime
  /\ HasCell => cellTotalTime + Pending(FALSE) = cellOnTime

(* The manager implements the abstract link: one link in use, every        *)
(* instant charged to it.                                                  *)
Usage == INSTANCE LinkUsage WITH
  active <- IF isSatState THEN "satellite" ELSE "cellular",
  usage <- [l \in {"satellite", "cellular"} |->
              IF l = "satellite" THEN satTotalTime + Pending(TRUE)
                                 ELSE cellTotalTime + Pending(FALSE)]
ImplementsUsage == Usage!Spec
=============================================================================
