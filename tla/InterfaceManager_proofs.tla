------------------------ MODULE InterfaceManager_proofs ------------------------
(***************************************************************************)
(* Proofs about InterfaceManager, for any simulation time, any sequence of *)
(* calls and any set of interfaces: types, the hard switch, the usage      *)
(* statistics, and that the manager implements LinkUsage.                  *)
(***************************************************************************)
EXTENDS InterfaceManager, TLAPS

(* The carriers are what updateInterfaceStates makes of the state.  This   *)
(* is what the hard switch and the statistics both follow from.            *)
CarriersFollowState ==
  /\ satCarrier = (HasSat /\ isSatState)
  /\ cellCarrier = (HasCell /\ ~isSatState)

(* The inductive invariant.                                                *)
IInv == TypeOK /\ CarriersFollowState /\ UsageMatchesCarrier

(* The manager as a strategy sees it: called as often as it likes.  Spec   *)
(* bounds the calls for the model checker; the proofs need no bound.       *)
Serve(toSatellite) ==
  /\ ~finished
  /\ PerformSwitch(toSatellite)
  /\ UNCHANGED <<now, finished, historyVars>>

OpenNext ==
  \/ Tick
  \/ \E toSatellite \in BOOLEAN : Serve(toSatellite)
  \/ Finish

OpenSpec == Init /\ [][OpenNext]_vars

-----------------------------------------------------------------------------
(* The time since the last switch, which is charged next, is a natural.    *)
LEMMA SinceSwitchType == TypeOK => SinceSwitch \in Nat
  BY DEF TypeOK, SinceSwitch

(* The initial state satisfies the invariant.                              *)
LEMMA InitIInv == Init => IInv
<1> SUFFICES ASSUME Init PROVE IInv
  OBVIOUS
<1>1. TypeOK
  <2>1. isSatState \in BOOLEAN /\ satCarrier \in BOOLEAN /\ cellCarrier \in BOOLEAN
    BY ManagerAssumption, Zenon DEF Init
  <2>2. birth \in Nat /\ birth \in Births /\ now = birth /\ lastSwitchTime = now
    BY ManagerAssumption, Zenon DEF Init
  <2>3. /\ satTotalTime = 0 /\ cellTotalTime = 0 /\ totalSwitchesCount = 0
        /\ satOnTime = 0 /\ cellOnTime = 0 /\ finished = FALSE
    BY Zenon DEF Init
  <2>4. /\ now \in Nat /\ lastSwitchTime \in Nat
        /\ birth <= lastSwitchTime /\ lastSwitchTime <= now
    BY <2>2
  <2>5. /\ satTotalTime \in Nat /\ cellTotalTime \in Nat /\ totalSwitchesCount \in Nat
        /\ satOnTime \in Nat /\ cellOnTime \in Nat /\ finished \in BOOLEAN
    BY <2>3
  <2> QED BY <2>1, <2>2, <2>4, <2>5, Zenon DEF TypeOK
<1>2. CarriersFollowState
  BY ManagerAssumption DEF Init, CarriersFollowState
<1>3. UsageMatchesCarrier
  BY ManagerAssumption DEF Init, UsageMatchesCarrier, Pending
<1> QED BY <1>1, <1>2, <1>3 DEF IInv

(* A switch charges the time since the last one to the interface it        *)
(* leaves, and moves the carriers with the state.                          *)
LEMMA SwitchStep ==
  ASSUME IInv, NEW sat \in BOOLEAN, isSatState # sat, isSatState' = sat,
         CompleteSwitch(sat), UNCHANGED <<now, finished, historyVars>>, ~finished
  PROVE  IInv'
<1> USE ManagerAssumption DEF IInv, historyVars, CompleteSwitch
<1>1. SinceSwitch \in Nat
  BY SinceSwitchType
<1>2. TypeOK'
  BY <1>1 DEF TypeOK, UpdateInterfaceStates
<1>3. CarriersFollowState'
  BY DEF CarriersFollowState, TypeOK, UpdateInterfaceStates
<1>4. UsageMatchesCarrier'
  BY DEF UsageMatchesCarrier, Pending, SinceSwitch, TypeOK
<1> QED BY <1>2, <1>3, <1>4

(* Every step preserves the invariant.                                     *)
LEMMA NextIInv == IInv /\ [OpenNext]_vars => IInv'
<1> SUFFICES ASSUME IInv, [OpenNext]_vars PROVE IInv'
  OBVIOUS
<1> USE ManagerAssumption
<1>1. CASE Tick
  <2>1. TypeOK'
    BY <1>1 DEF Tick, managerVars, IInv, TypeOK
  <2>2. CarriersFollowState'
    BY <1>1 DEF Tick, managerVars, IInv, CarriersFollowState
  <2>3. UsageMatchesCarrier'
    BY <1>1 DEF Tick, managerVars, IInv, TypeOK, CarriersFollowState,
                UsageMatchesCarrier, Pending
  <2> QED BY <2>1, <2>2, <2>3 DEF IInv
<1>2. ASSUME NEW sat \in BOOLEAN, Serve(sat)
      PROVE  IInv'
  <2>1. CASE isSatState = sat
    BY <1>2, <2>1 DEF Serve, PerformSwitch, managerVars, historyVars, IInv, TypeOK,
                      CarriersFollowState, UsageMatchesCarrier, Pending
  <2>2. CASE isSatState # sat
    BY <1>2, <2>2, SwitchStep DEF Serve, PerformSwitch
  <2> QED BY <2>1, <2>2
<1>3. CASE Finish
  <2>1. SinceSwitch \in Nat
    BY SinceSwitchType DEF IInv
  <2>2. TypeOK'
    BY <1>3, <2>1 DEF Finish, FinishTotals, historyVars, IInv, TypeOK
  <2>3. CarriersFollowState'
    BY <1>3 DEF Finish, FinishTotals, IInv, CarriersFollowState
  <2>4. UsageMatchesCarrier'
    BY <1>3, <2>1 DEF Finish, FinishTotals, historyVars, IInv, TypeOK,
                UsageMatchesCarrier, Pending, SinceSwitch
  <2> QED BY <2>2, <2>3, <2>4 DEF IInv
<1>4. CASE UNCHANGED vars
  BY <1>4 DEF vars, managerVars, historyVars, IInv, TypeOK, CarriersFollowState,
              UsageMatchesCarrier, Pending
<1> QED BY <1>1, <1>2, <1>3, <1>4 DEF OpenNext

-----------------------------------------------------------------------------
(* The inductive invariant holds however often the manager is called.      *)
THEOREM OpenInvariance == OpenSpec => []IInv
  BY InitIInv, NextIInv, PTL DEF OpenSpec

(* What the model checker explores is a part of that.                      *)
THEOREM BoundedIsOpen == Spec => OpenSpec
<1>1. [Next]_vars => [OpenNext]_vars
  BY Zenon DEF Next, OpenNext, Call, Serve
<1> QED BY <1>1, PTL DEF Spec, OpenSpec

(* The inductive invariant holds of every behaviour of the manager.        *)
THEOREM Invariance == Spec => []IInv
  BY OpenInvariance, BoundedIsOpen, PTL

(* Every variable keeps its type; in particular no usage time is negative  *)
(* and the last switch never lies in the future (completeSwitch).          *)
THEOREM TypeCorrectness == Spec => []TypeOK
<1>1. IInv => TypeOK
  BY DEF IInv
<1> QED BY Invariance, <1>1, PTL

(* The switch is hard: never two carriers, and never none if the vehicle   *)
(* has both interfaces (updateInterfaceStates).                            *)
THEOREM HardSwitch == Spec => []OneCarrier
<1>1. IInv => OneCarrier
  BY ManagerAssumption DEF IInv, TypeOK, CarriersFollowState, OneCarrier
<1> QED BY Invariance, <1>1, PTL

(* The usage statistics are the times the carriers were on                 *)
(* (completeSwitch, finish).                                               *)
THEOREM TruthfulUsage == Spec => []UsageMatchesCarrier
<1>1. IInv => UsageMatchesCarrier
  BY DEF IInv
<1> QED BY Invariance, <1>1, PTL

-----------------------------------------------------------------------------
(* The manager implements the abstract link: a tick is charged to the link *)
(* in use, a switch moves no time, and finish changes nothing the abstract *)
(* link can see.                                                           *)
THEOREM OpenRefinement == OpenSpec => ImplementsUsage
<1> DEFINE active == IF isSatState THEN "satellite" ELSE "cellular"
           usage == [l \in {"satellite", "cellular"} |->
                       IF l = "satellite" THEN satTotalTime + Pending(TRUE)
                                          ELSE cellTotalTime + Pending(FALSE)]
<1>1. Init => Usage!Init
  BY ManagerAssumption DEF Init, Usage!Init, Usage!Link, Pending
<1>2. IInv /\ [OpenNext]_vars => [Usage!Next]_<<active, usage>>
  <2> SUFFICES ASSUME IInv, [OpenNext]_vars PROVE [Usage!Next]_<<active, usage>>
    OBVIOUS
  <2> USE DEF IInv, TypeOK, Pending
  <2>1. CASE Tick
    <3>1. usage' = [usage EXCEPT ![active] = @ + 1]
      <4> DEFINE sat == satTotalTime + Pending(TRUE)
                 cell == cellTotalTime + Pending(FALSE)
      <4>1. CASE isSatState
        <5>1. isSatState' /\ sat' = sat + 1 /\ cell' = cell
          BY <2>1, <4>1 DEF Tick, managerVars
        <5> HIDE DEF Pending, TypeOK
        <5> QED BY <4>1, <5>1
      <4>2. CASE ~isSatState
        <5>1. ~isSatState' /\ sat' = sat /\ cell' = cell + 1
          BY <2>1, <4>2 DEF Tick, managerVars
        <5> HIDE DEF Pending, TypeOK
        <5> QED BY <4>2, <5>1
      <4> QED BY <4>1, <4>2
    <3>2. active' = active
      BY <2>1 DEF Tick, managerVars
    <3> QED BY <3>1, <3>2 DEF Usage!Next, Usage!Elapse
  <2>2. ASSUME NEW sat \in BOOLEAN, Serve(sat)
        PROVE  [Usage!Next]_<<active, usage>>
    <3>1. CASE isSatState = sat
      BY <2>2, <3>1 DEF Serve, PerformSwitch, managerVars
    <3>2. CASE isSatState # sat
      <4>1. usage' = usage
        BY <2>2, <3>2 DEF Serve, PerformSwitch, CompleteSwitch, SinceSwitch
      <4>2. active' \in Usage!Link \ {active}
        BY <2>2, <3>2 DEF Serve, PerformSwitch, Usage!Link
      <4> QED BY <4>1, <4>2 DEF Usage!Next, Usage!Switch
    <3> QED BY <3>1, <3>2
  <2>3. CASE Finish
    BY <2>3 DEF Finish, FinishTotals, SinceSwitch
  <2>4. CASE UNCHANGED vars
    BY <2>4 DEF vars, managerVars
  <2> QED BY <2>1, <2>2, <2>3, <2>4 DEF OpenNext
<1> QED BY <1>1, <1>2, OpenInvariance, PTL DEF OpenSpec, ImplementsUsage, Usage!Spec

(* So does the manager the model checker explores.                         *)
THEOREM Refinement == Spec => ImplementsUsage
  BY OpenRefinement, BoundedIsOpen, PTL
=============================================================================
