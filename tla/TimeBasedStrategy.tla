--------------------------- MODULE TimeBasedStrategy ---------------------------
(* The time-based strategy: a timer that toggles the interface.            *)
EXTENDS Integers

CONSTANTS
  Births, MaxTime, MaxSwitches, StartWithSatellite, HasSat, HasCell, \* manager
  SwitchInterval  \* NED parameter switchInterval

VARIABLES
  now, isSatState, satCarrier, cellCarrier, satTotalTime, cellTotalTime,
  lastSwitchTime, totalSwitchesCount, finished, birth, satOnTime, cellOnTime,
  switchTimer  \* when the timer fires

Mgr == INSTANCE InterfaceManager

managerVars == <<isSatState, satCarrier, cellCarrier, satTotalTime, cellTotalTime,
                 lastSwitchTime, totalSwitchesCount>>
historyVars == <<birth, satOnTime, cellOnTime>>
vars == <<now, managerVars, finished, historyVars, switchTimer>>

Init == Mgr!Init /\ switchTimer = now + SwitchInterval

(* Mutant: every firing asks for the satellite.                            *)
ToggleToSatellite ==
  /\ ~finished
  /\ now = switchTimer
  /\ Mgr!PerformSwitch(TRUE)
  /\ switchTimer' = now + SwitchInterval
  /\ UNCHANGED <<now, finished, historyVars>>

(* handleMessage: invert the manager's state, set the timer again.         *)
Toggle ==
  /\ ~finished
  /\ now = switchTimer
  /\ Mgr!PerformSwitch(~isSatState)
  /\ switchTimer' = now + SwitchInterval
  /\ UNCHANGED <<now, finished, historyVars>>

TimePasses == now < switchTimer /\ Mgr!Tick /\ UNCHANGED switchTimer

End == Mgr!Finish /\ UNCHANGED switchTimer

Next == Toggle \/ TimePasses \/ End

Spec == Init /\ [][Next]_vars

-----------------------------------------------------------------------------
(* Every variable has its type.                                            *)
TypeOK == Mgr!TypeOK /\ switchTimer \in now..(now + SwitchInterval)

(* The alternation never drifts: the timer stays in phase with the         *)
(* vehicle's creation, and the interface is the one its age asks for.      *)
InPhase ==
  LET turns == (switchTimer - birth) \div SwitchInterval - 1
  IN /\ (switchTimer - birth) % SwitchInterval = 0
     /\ isSatState = (IF turns % 2 = 0 THEN StartWithSatellite ELSE ~StartWithSatellite)
=============================================================================
