------------------------ MODULE ScoreStrategies_proofs ------------------------
(***************************************************************************)
(* Theorems about the two score strategies, whichever of them a vehicle    *)
(* has, for any intervals, thresholds, weights and prices and any traffic. *)
(***************************************************************************)
EXTENDS ScoreStrategies, SequenceTheorems, Induction

-----------------------------------------------------------------------------
(* What the score strategies share.                                        *)

(* A packet handed over is on a carrier only if its interface exists.      *)
BothInterfaces == HasSat /\ HasCell

(* What updateInterfaceStates makes of the state.                          *)
CarriersFollowState ==
  /\ satCarrier = (HasSat /\ isSatState)
  /\ cellCarrier = (HasCell /\ ~isSatState)

(* The evaluation timer is set, at most one interval ahead.                *)
TimerRuns == now <= nextCheck /\ nextCheck <= now + CheckInterval

(* A satellite in use was visible at the last evaluation, or is now.       *)
SeenSinceCheck ==
  /\ visible => lastVisible = now
  /\ isSatState => nextCheck - lastVisible <= CheckInterval

(* No probe will be older than the window and one interval at the next     *)
(* evaluation.                                                             *)
RecentProbes ==
  \A s \in DOMAIN probeHistory : nextCheck - probeHistory[s].txTime <= CutOff + CheckInterval

(* No probe comes from the future, none was answered before it was sent.   *)
Chronological ==
  \A s \in DOMAIN probeHistory :
    /\ probeHistory[s].txTime <= now
    /\ probeHistory[s].received => probeHistory[s].txTime <= probeHistory[s].rxTime

(* Before the first switch the strategy's hold time counts from time 0.    *)
FirstHold == totalSwitchesCount = 0 => strategyLastSwitchTime = 0

(* The counter of degradations counts only what really was one.            *)
CountIsEarned == consecutiveDegradations <= Cardinality(DegradedSinceReset)

(* The inductive invariant.                                                *)
SInv ==
  /\ ScoreTypeOK
  /\ CarriersFollowState
  /\ MirrorsManager
  /\ FirstHold
  /\ BothInterfaces => TxFollowsCarrier
  /\ TimerRuns
  /\ SeenSinceCheck
  /\ RecentProbes
  /\ Chronological
  /\ CountIsEarned

-----------------------------------------------------------------------------
(* The check interval is a positive number of ticks.                       *)
LEMMA IntervalType == CheckInterval \in Nat /\ CheckInterval > 0
<1>1. CheckInterval \in Nat \ {0}
  BY ScoreAssumption
<1> QED BY <1>1

(* The manager keeps its types through a switch, and carriers follow.      *)
LEMMA SwitchKeepsManager ==
  ASSUME Mgr!TypeOK, CarriersFollowState, NEW sat \in BOOLEAN,
         Mgr!PerformSwitch(sat), UNCHANGED <<now, finished, historyVars>>
  PROVE  /\ Mgr!TypeOK'
         /\ CarriersFollowState'
         /\ isSatState' = sat
         /\ totalSwitchesCount' \in Nat
         /\ isSatState # sat => lastSwitchTime' = now /\ totalSwitchesCount' # 0
<1> USE ScoreAssumption DEF Mgr!TypeOK, CarriersFollowState, historyVars
<1>1. CASE isSatState = sat
  BY <1>1 DEF Mgr!PerformSwitch, Mgr!managerVars
<1>2. CASE isSatState # sat
  BY <1>2 DEF Mgr!PerformSwitch, Mgr!CompleteSwitch, Mgr!UpdateInterfaceStates,
              Mgr!SinceSwitch
<1> QED BY <1>1, <1>2

(* What a switch by the strategy does: the manager's state and the         *)
(* strategy's copies of it change together.                                *)
LEMMA SwitchToKeeps ==
  ASSUME Mgr!TypeOK, CarriersFollowState, MirrorsManager,
         currentInterfaceName \in Interface, NEW interface \in Interface, SwitchTo(interface),
         interface # currentInterfaceName,
         UNCHANGED <<now, finished, historyVars>>
  PROVE  /\ Mgr!TypeOK' /\ CarriersFollowState' /\ MirrorsManager' /\ FirstHold'
         /\ isSatState' = (interface = "satellite")
         /\ currentInterfaceName' = interface
         /\ strategyLastSwitchTime' = now /\ lastSwitchTime' = now
         /\ consecutiveDegradations' = 0
<1>1. Mgr!PerformSwitch(interface = "satellite") /\ (interface = "satellite") \in BOOLEAN
  BY DEF SwitchTo
<1>2. isSatState # (interface = "satellite")
  BY DEF MirrorsManager, Interface, Mgr!TypeOK
<1>3. /\ Mgr!TypeOK' /\ CarriersFollowState'
      /\ isSatState' = (interface = "satellite") /\ lastSwitchTime' = now
      /\ totalSwitchesCount' # 0
  BY <1>1, <1>2, SwitchKeepsManager
<1>4. /\ currentInterfaceName' = interface /\ strategyLastSwitchTime' = now
      /\ consecutiveDegradations' = 0
  BY DEF SwitchTo
<1> QED BY <1>3, <1>4 DEF MirrorsManager, FirstHold

(* What an evaluation may conclude.                                        *)
Outcome == {"lost", "critical", "skipped", "degraded", "switched", "good"}

(* One more conclusion: a degradation adds one to those since the last     *)
(* reset, a skipped evaluation none.                                       *)
LEMMA ConcludeStep ==
  ASSUME NEW o \in Outcome, outcomes \in Seq(Outcome), Conclude(o)
  PROVE  /\ outcomes' \in Seq(Outcome)
         /\ Len(outcomes') \in Nat /\ outcomes'[Len(outcomes')] = o
         /\ Cardinality(DegradedSinceReset) \in Nat
         /\ Cardinality(DegradedSinceReset)' \in Nat
         /\ o = "degraded" =>
              Cardinality(DegradedSinceReset)' = Cardinality(DegradedSinceReset) + 1
         /\ o = "skipped" =>
              Cardinality(DegradedSinceReset)' = Cardinality(DegradedSinceReset)
<1> DEFINE D == DegradedSinceReset
           n == Len(outcomes)
<1>1. /\ outcomes' \in Seq(Outcome) /\ n \in Nat /\ Len(outcomes') = n + 1
      /\ outcomes'[n + 1] = o /\ \A i \in 1..n : outcomes'[i] = outcomes[i]
  BY AppendProperties DEF Conclude
<1>2. D \in SUBSET (1..n) /\ D' \in SUBSET (1..(n + 1))
  BY <1>1 DEF DegradedSinceReset
<1>3. /\ IsFiniteSet(D) /\ Cardinality(D) \in Nat
      /\ IsFiniteSet(D') /\ Cardinality(D') \in Nat
  <2>0. n \in Int /\ n + 1 \in Int
    BY <1>1
  <2> HIDE DEF n
  <2>1. IsFiniteSet(1..n) /\ IsFiniteSet(1..(n + 1))
    BY ONLY <2>0, FS_Interval
  <2> HIDE DEF D
  <2>2. IsFiniteSet(D) /\ IsFiniteSet(D')
    BY ONLY <1>2, <2>1, FS_Subset
  <2> QED BY ONLY <2>2, FS_CardinalityType
<1>4. \A i \in 1..n : \A j \in i..n : j \in 1..n
  BY <1>1
<1>5. CASE o = "degraded"
  <2>1. n + 1 \notin D
    BY <1>1, <1>2
  <2>2. \A i \in 1..n : i \in D' <=> i \in D
    <3> SUFFICES ASSUME NEW i \in 1..n PROVE i \in D' <=> i \in D
      OBVIOUS
    <3>1. i \in 1..(n + 1) /\ \A j \in i..(n + 1) : j \in i..n \/ j = n + 1
      BY <1>1
    <3>2. \A j \in i..n : j \in i..(n + 1)
      BY <1>1
    <3> QED BY <1>1, <1>4, <1>5, <3>1, <3>2 DEF DegradedSinceReset
  <2>3. n + 1 \in D'
    <3>1. n + 1 \in 1..(n + 1) /\ \A j \in (n + 1)..(n + 1) : j = n + 1
      BY <1>1
    <3> QED BY <1>1, <1>5, <3>1 DEF DegradedSinceReset
  <2>4. \A i \in 1..(n + 1) : i \in 1..n \/ i = n + 1
    BY <1>1
  <2>5. D' = D \cup {n + 1}
    BY <1>2, <2>2, <2>3, <2>4
  <2>6. Cardinality(D') = Cardinality(D) + 1
    BY <1>3, <2>1, <2>5, FS_AddElement
  <2> QED BY <1>1, <1>3, <1>5, <2>6
<1>6. CASE o = "skipped"
  <2>1. \A i \in 1..n : i \in D' <=> i \in D
    <3> SUFFICES ASSUME NEW i \in 1..n PROVE i \in D' <=> i \in D
      OBVIOUS
    <3>1. i \in 1..(n + 1) /\ \A j \in i..(n + 1) : j \in i..n \/ j = n + 1
      BY <1>1
    <3>2. \A j \in i..n : j \in i..(n + 1)
      BY <1>1
    <3> QED BY <1>1, <1>4, <1>6, <3>1, <3>2 DEF DegradedSinceReset
  <2>2. n + 1 \notin D'
    BY <1>1, <1>6 DEF DegradedSinceReset
  <2>3. \A i \in 1..(n + 1) : i \in 1..n \/ i = n + 1
    BY <1>1
  <2>4. D' = D
    BY <1>2, <2>1, <2>2, <2>3
  <2> QED BY <1>1, <1>3, <1>6, <2>4
<1> QED BY <1>1, <1>3, <1>5, <1>6

(* The facts about a decision that both strategies' invariants rest on.    *)
DecisionKeeps ==
  /\ Mgr!TypeOK' /\ CarriersFollowState' /\ MirrorsManager' /\ FirstHold'
  /\ currentInterfaceName' \in Interface
  /\ strategyLastSwitchTime' \in 0..now
  /\ consecutiveDegradations' \in Nat
  /\ outcomes' \in Seq(Outcome)
  /\ isSatState' => visible /\ (isSatState \/ lastSwitchTime' = now)
  /\ CountIsEarned'

(* What VoluntarySwitchIsEarned asks of a step.                            *)
EarnedIfVoluntary ==
  Voluntary =>
    /\ SinceLastSwitch >= MinHold
    /\ Cardinality(DegradedSinceReset) + 1 >= MinDegradation
    /\ isSatState' => visible

(* The emergency's conclusion, or one of performDecision's.                *)
Decides(score) ==
  \/ currentInterfaceName = "satellite" /\ SwitchTo("cellular") /\ Conclude("critical")
  \/ PerformDecision(score)

(* evaluateAndDecide, forced or not, leaves the vehicle on a satellite     *)
(* only if it is visible now, and leaves a satellite that is visible only  *)
(* after the hold time and enough degradations.                            *)
LEMMA DecisionStep ==
  ASSUME SInv, UNCHANGED <<now, finished, historyVars>>, NEW score, Decides(score)
  PROVE  DecisionKeeps /\ EarnedIfVoluntary
<1> USE DEF Interface
<1> DEFINE degradations == Cardinality(DegradedSinceReset)
<1>1. /\ Mgr!TypeOK /\ CarriersFollowState /\ MirrorsManager /\ FirstHold
      /\ currentInterfaceName \in Interface /\ strategyLastSwitchTime \in 0..now
      /\ consecutiveDegradations \in Nat /\ outcomes \in Seq(Outcome)
      /\ consecutiveDegradations <= degradations
  BY DEF SInv, ScoreTypeOK, Outcome, CountIsEarned
<1>2. now \in Nat
  BY <1>1 DEF Mgr!TypeOK
<1>3. ASSUME NEW o \in {"lost", "critical"}, Conclude(o) PROVE ~Voluntary
  BY <1>1, <1>3, ConcludeStep DEF Voluntary, Outcome
<1>4. ASSUME currentInterfaceName = "satellite", SwitchTo("cellular"),
             NEW o \in {"lost", "critical"}, Conclude(o)
      PROVE  DecisionKeeps /\ EarnedIfVoluntary
  <2>1. "cellular" \in Interface /\ "cellular" # currentInterfaceName
    BY <1>4
  <2>2. /\ Mgr!TypeOK' /\ CarriersFollowState' /\ MirrorsManager' /\ FirstHold'
        /\ isSatState' = ("cellular" = "satellite")
        /\ currentInterfaceName' = "cellular" /\ strategyLastSwitchTime' = now
        /\ consecutiveDegradations' = 0
    BY <1>1, <1>4, <2>1, SwitchToKeeps
  <2>3. ~isSatState'
    BY <2>2
  <2>4. /\ currentInterfaceName' \in Interface /\ strategyLastSwitchTime' \in 0..now
        /\ consecutiveDegradations' \in Nat
    BY <1>2, <2>2
  <2>5. o \in Outcome
    BY DEF Outcome
  <2>6. outcomes' \in Seq(Outcome) /\ degradations' \in Nat
    BY <1>1, <1>4, <2>5, ConcludeStep
  <2>7. CountIsEarned'
    BY <2>2, <2>6 DEF CountIsEarned
  <2>8. EarnedIfVoluntary
    BY <1>3, <1>4 DEF EarnedIfVoluntary
  <2> QED BY <2>2, <2>3, <2>4, <2>6, <2>7, <2>8, Zenon DEF DecisionKeeps
<1>5. ASSUME NEW n \in Nat, ~SatelliteLost, Stay(n), outcomes' \in Seq(Outcome),
             n <= degradations'
      PROVE  DecisionKeeps /\ EarnedIfVoluntary
  <2>1. UNCHANGED <<isSatState, satCarrier, cellCarrier, satTotalTime, cellTotalTime,
                    lastSwitchTime, totalSwitchesCount, currentInterfaceName,
                    strategyLastSwitchTime>> /\ consecutiveDegradations' = n
    BY <1>5 DEF Stay, managerVars
  <2>2. Mgr!TypeOK' /\ CarriersFollowState' /\ MirrorsManager' /\ FirstHold'
    BY <1>1, <2>1 DEF Mgr!TypeOK, CarriersFollowState, MirrorsManager, FirstHold, historyVars
  <2>3. isSatState' => visible /\ isSatState
    BY <1>1, <1>5, <2>1 DEF SatelliteLost, MirrorsManager
  <2>4. CountIsEarned'
    BY <1>5, <2>1 DEF CountIsEarned
  <2>5. EarnedIfVoluntary
    BY <2>1 DEF EarnedIfVoluntary, Voluntary
  <2> QED BY <1>1, <1>5, <2>1, <2>2, <2>3, <2>4, <2>5 DEF DecisionKeeps
<1>6. CASE ~SatelliteLost /\ Stay(consecutiveDegradations) /\ Conclude("skipped")
  <2>1. /\ "skipped" \in Outcome /\ outcomes' \in Seq(Outcome)
        /\ degradations' = degradations
    BY <1>1, <1>6, ConcludeStep DEF Outcome
  <2> QED BY <1>1, <1>5, <1>6, <2>1
<1>7. CASE ~SatelliteLost /\ Stay(0) /\ Conclude("good")
  <2>1. "good" \in Outcome /\ outcomes' \in Seq(Outcome) /\ degradations' \in Nat
    BY <1>1, <1>7, ConcludeStep DEF Outcome
  <2> QED BY <1>5, <1>7, <2>1
<1>8. CASE ~SatelliteLost /\ Stay(consecutiveDegradations + 1) /\ Conclude("degraded")
  <2>1. /\ "degraded" \in Outcome /\ outcomes' \in Seq(Outcome) /\ degradations \in Nat
        /\ degradations' = degradations + 1
    BY <1>1, <1>8, ConcludeStep DEF Outcome
  <2> QED BY <1>1, <1>5, <1>8, <2>1
<1>9. CASE MaySwitch /\ SwitchTo(Other) /\ Conclude("switched")
  <2>1. "switched" \in Outcome /\ outcomes' \in Seq(Outcome)
        /\ degradations \in Nat /\ degradations' \in Nat
    BY <1>1, <1>9, ConcludeStep DEF Outcome
  <2>2. Other \in Interface /\ Other # currentInterfaceName
    BY <1>1 DEF Other
  <2>3. /\ Mgr!TypeOK' /\ CarriersFollowState' /\ MirrorsManager' /\ FirstHold'
        /\ isSatState' = (Other = "satellite") /\ currentInterfaceName' = Other
        /\ strategyLastSwitchTime' = now /\ consecutiveDegradations' = 0
        /\ lastSwitchTime' = now
    BY <1>1, <1>9, <2>2, SwitchToKeeps
  <2>4. isSatState' => visible
    BY <1>9, <2>3 DEF MaySwitch
  <2>5. CountIsEarned'
    BY <2>1, <2>3 DEF CountIsEarned
  <2>6. DecisionKeeps
    BY <1>2, <2>1, <2>2, <2>3, <2>4, <2>5 DEF DecisionKeeps
  <2>7. consecutiveDegradations + 1 >= MinDegradation /\ now - strategyLastSwitchTime >= MinHold
    BY <1>9 DEF MaySwitch
  <2>8. SinceLastSwitch >= MinHold
    <3>1. totalSwitchesCount \in Nat
      BY <1>1 DEF Mgr!TypeOK
    <3> QED BY <1>1, <1>2, <2>7, <3>1 DEF MirrorsManager, FirstHold, SinceLastSwitch
  <2>9. MinDegradation \in Nat
    BY ScoreAssumption
  <2>10. degradations + 1 >= MinDegradation
    BY <1>1, <2>1, <2>7, <2>9
  <2> QED BY <2>4, <2>6, <2>8, <2>10 DEF EarnedIfVoluntary
<1> QED BY <1>4, <1>6, <1>7, <1>8, <1>9 DEF Decides, PerformDecision, SatelliteLost

-----------------------------------------------------------------------------
(* The steps of the shared module.                                         *)

(* A strategy starts in the manager's initial state.                       *)
LEMMA InitSInv == StrategyInit => SInv
<1> SUFFICES ASSUME StrategyInit PROVE SInv
  OBVIOUS
<1> USE ScoreAssumption DEF StrategyInit, Interface
<1>1. /\ birth \in Births /\ birth \in Nat /\ now = birth /\ lastSwitchTime = now
      /\ satTotalTime = 0 /\ cellTotalTime = 0 /\ totalSwitchesCount = 0
      /\ satOnTime = 0 /\ cellOnTime = 0 /\ finished = FALSE
  BY DEF Mgr!Init
<1>2. isSatState \in BOOLEAN /\ satCarrier \in BOOLEAN /\ cellCarrier \in BOOLEAN
  BY DEF Mgr!Init
<1>3. Mgr!TypeOK
  <2>1. now \in Nat /\ lastSwitchTime \in Nat /\ birth <= lastSwitchTime /\ lastSwitchTime <= now
    BY <1>1
  <2>2. /\ satTotalTime \in Nat /\ cellTotalTime \in Nat /\ totalSwitchesCount \in Nat
        /\ satOnTime \in Nat /\ cellOnTime \in Nat /\ finished \in BOOLEAN
    BY <1>1
  <2> QED BY <1>1, <1>2, <2>1, <2>2, Zenon DEF Mgr!TypeOK
<1>4. CarriersFollowState
  BY DEF Mgr!Init, CarriersFollowState
<1>5. MirrorsManager /\ FirstHold
  BY <1>1, <1>2 DEF MirrorsManager, FirstHold
<1>6. TxFollowsCarrier
  BY DEF TxFollowsCarrier
<1>7. TimerRuns /\ SeenSinceCheck
  <2>1. now \in Nat /\ CheckInterval \in Nat
    BY <1>1, IntervalType
  <2>2. nextCheck = now + CheckInterval /\ lastVisible = now
    BY DEF StrategyInit
  <2> HIDE ScoreAssumption DEF StrategyInit
  <2>3. nextCheck - lastVisible = CheckInterval
    BY <2>1, <2>2
  <2>4. now <= nextCheck /\ nextCheck <= now + CheckInterval
    BY <2>1, <2>2
  <2> QED BY <2>1, <2>2, <2>3, <2>4 DEF TimerRuns, SeenSinceCheck
<1>8. ScoreTypeOK
  <2>1. /\ currentInterfaceName \in Interface /\ strategyLastSwitchTime \in 0..now
        /\ consecutiveDegradations \in Nat /\ nextCheck \in Nat
        /\ visible \in BOOLEAN /\ lastVisible \in 0..now
        /\ sent \in 0..MaxProbes /\ data \in 0..MaxData
    <3>1. /\ now \in Nat /\ {CheckInterval, MaxProbes, MaxData} \subseteq Nat
          /\ visible \in BOOLEAN /\ currentInterfaceName \in Interface
      BY <1>1, <1>2, IntervalType
    <3>2. /\ strategyLastSwitchTime = 0 /\ consecutiveDegradations = 0
          /\ nextCheck = now + CheckInterval /\ lastVisible = now /\ sent = 0 /\ data = 0
      OBVIOUS
    <3> HIDE ScoreAssumption DEF StrategyInit, Interface
    <3> QED BY <3>1, <3>2
  <2>2. /\ DOMAIN probeHistory \subseteq 0..(sent - 1)
        /\ \A s \in DOMAIN probeHistory : probeHistory[s] \in Probe
    OBVIOUS
  <2>3. /\ inFlight \subseteq Seqs
        /\ txBytes \in [Interface -> Nat] /\ rxBytes \in [Interface -> Nat]
        /\ txOnCarrier \in [Interface -> Nat]
        /\ outcomes \in Seq({"lost", "critical", "skipped", "degraded", "switched", "good"})
    OBVIOUS
  <2> QED BY <1>3, <2>1, <2>2, <2>3 DEF ScoreTypeOK
<1>9. RecentProbes /\ Chronological
  BY DEF RecentProbes, Chronological
<1>10. CountIsEarned
  <2>1. DegradedSinceReset = {}
    BY DEF DegradedSinceReset
  <2> QED BY <2>1, FS_EmptySet DEF CountIsEarned
<1> QED BY <1>3, <1>4, <1>5, <1>6, <1>7, <1>8, <1>9, <1>10 DEF SInv

(* Time never passes an evaluation, and the satellite rises and sets.      *)
LEMMA TimeStep == SInv /\ TimePasses => SInv'
<1> SUFFICES ASSUME SInv, TimePasses PROVE SInv'
  OBVIOUS
<1>1. /\ now \in Nat /\ now' = now + 1 /\ now < nextCheck /\ ~finished
      /\ UNCHANGED <<isSatState, satCarrier, cellCarrier, satTotalTime, cellTotalTime,
                     lastSwitchTime, totalSwitchesCount, finished, birth>>
      /\ UNCHANGED <<currentInterfaceName, strategyLastSwitchTime, consecutiveDegradations>>
      /\ UNCHANGED <<probeHistory, txBytes, rxBytes, sent, data, inFlight, txOnCarrier>>
      /\ UNCHANGED <<nextCheck, outcomes>>
  BY DEF SInv, ScoreTypeOK, TimePasses, Mgr!TypeOK, Mgr!Tick, Mgr!managerVars,
         decisionVars, trafficVars
<1>2. visible' \in BOOLEAN /\ lastVisible' = IF visible' THEN now' ELSE lastVisible
  BY DEF TimePasses
<1>3. Mgr!TypeOK'
  BY <1>1 DEF SInv, ScoreTypeOK, TimePasses, Mgr!TypeOK, Mgr!Tick
<1>4. nextCheck \in Nat /\ lastVisible \in 0..now /\ strategyLastSwitchTime \in 0..now
  BY DEF SInv, ScoreTypeOK
<1>5. ScoreTypeOK'
  <2>1. lastVisible' \in 0..now' /\ strategyLastSwitchTime' \in 0..now' /\ nextCheck' \in Nat
    BY <1>1, <1>2, <1>4
  <2> QED BY <1>1, <1>2, <1>3, <2>1 DEF SInv, ScoreTypeOK
<1>6. /\ CarriersFollowState' /\ MirrorsManager' /\ FirstHold'
      /\ (BothInterfaces => TxFollowsCarrier)'
  BY <1>1 DEF SInv, CarriersFollowState, MirrorsManager, FirstHold, TxFollowsCarrier,
              BothInterfaces
<1>7. TimerRuns' /\ SeenSinceCheck'
  BY <1>1, <1>2, <1>4, IntervalType DEF SInv, TimerRuns, SeenSinceCheck
<1>8. RecentProbes' /\ CountIsEarned'
  BY <1>1 DEF SInv, RecentProbes, CountIsEarned, DegradedSinceReset
<1>9. Chronological'
  BY <1>1 DEF SInv, ScoreTypeOK, Probe, Chronological
<1> QED BY <1>5, <1>6, <1>7, <1>8, <1>9 DEF SInv

(* A packet is counted on the interface that carries it.                   *)
LEMMA CountTxStep ==
  ASSUME SInv, CountTx
  PROVE  /\ txBytes' \in [Interface -> Nat] /\ txOnCarrier' \in [Interface -> Nat]
         /\ BothInterfaces => TxFollowsCarrier'
<1>1. /\ txBytes \in [Interface -> Nat] /\ txOnCarrier \in [Interface -> Nat]
      /\ currentInterfaceName \in Interface
  BY DEF SInv, ScoreTypeOK
<1>2. /\ txBytes' = [txBytes EXCEPT ![currentInterfaceName] = txBytes[currentInterfaceName] + 1]
      /\ txOnCarrier' = [i \in Interface |->
           IF i \in CarrierOn THEN txOnCarrier[i] + 1 ELSE txOnCarrier[i]]
  BY DEF CountTx
<1>3. ASSUME BothInterfaces PROVE TxFollowsCarrier'
  <2>1. CarrierOn = {currentInterfaceName}
    BY <1>1, <1>3 DEF SInv, BothInterfaces, CarriersFollowState, MirrorsManager,
                      CarrierOn, Interface
  <2>2. txBytes = txOnCarrier
    BY <1>3 DEF SInv, TxFollowsCarrier
  <2> QED BY <1>1, <1>2, <2>1, <2>2 DEF TxFollowsCarrier
<1> QED BY <1>1, <1>2, <1>3

(* An application's signal touches neither the manager nor the decision.   *)
LEMMA TrafficStep == SInv /\ Traffic => SInv'
<1> SUFFICES ASSUME SInv, Traffic PROVE SInv'
  OBVIOUS
<1>1. /\ UNCHANGED <<now, finished, birth, satOnTime, cellOnTime>>
      /\ UNCHANGED <<isSatState, satCarrier, cellCarrier, satTotalTime, cellTotalTime,
                     lastSwitchTime, totalSwitchesCount>>
      /\ UNCHANGED <<currentInterfaceName, strategyLastSwitchTime, consecutiveDegradations>>
      /\ UNCHANGED <<visible, lastVisible, nextCheck, outcomes>>
  BY DEF Traffic, managerVars, historyVars, decisionVars, envVars
<1>2. Mgr!TypeOK'
  BY <1>1 DEF SInv, ScoreTypeOK, Mgr!TypeOK
<1>3. /\ CarriersFollowState' /\ MirrorsManager' /\ FirstHold' /\ TimerRuns'
      /\ SeenSinceCheck' /\ CountIsEarned'
  BY <1>1 DEF SInv, CarriersFollowState, MirrorsManager, FirstHold, TimerRuns, SeenSinceCheck,
              CountIsEarned, DegradedSinceReset
<1>4. /\ now \in Nat /\ sent \in 0..MaxProbes /\ data \in 0..MaxData
      /\ DOMAIN probeHistory \subseteq 0..(sent - 1)
      /\ \A s \in DOMAIN probeHistory : probeHistory[s] \in Probe
      /\ txBytes \in [Interface -> Nat] /\ rxBytes \in [Interface -> Nat]
      /\ txOnCarrier \in [Interface -> Nat] /\ inFlight \subseteq Seqs
      /\ currentInterfaceName \in Interface
      /\ MaxProbes \in Nat /\ MaxData \in Nat
  BY ScoreAssumption DEF SInv, ScoreTypeOK, Mgr!TypeOK
<1> DEFINE TrafficOK ==
      /\ DOMAIN probeHistory' \subseteq 0..(sent' - 1)
      /\ \A s \in DOMAIN probeHistory' : probeHistory'[s] \in Probe
      /\ txBytes' \in [Interface -> Nat] /\ rxBytes' \in [Interface -> Nat]
      /\ sent' \in 0..MaxProbes /\ data' \in 0..MaxData /\ inFlight' \subseteq Seqs
      /\ txOnCarrier' \in [Interface -> Nat]
      /\ BothInterfaces => TxFollowsCarrier'
      /\ RecentProbes' /\ Chronological'
<1>5. ASSUME TrafficOK PROVE SInv'
  <2>1. ScoreTypeOK'
    BY <1>1, <1>2, <1>5 DEF SInv, ScoreTypeOK
  <2> QED BY <1>3, <1>5, <2>1 DEF SInv, BothInterfaces
<1>6. CASE ProbeSent
  <2>1. /\ CountTx /\ sent' = sent + 1 /\ sent < MaxProbes
        /\ inFlight' = inFlight \cup {sent} /\ rxBytes' = rxBytes /\ data' = data
    BY <1>6 DEF ProbeSent
  <2>2. [txTime |-> now, rxTime |-> 0, received |-> FALSE,
         usedInterface |-> currentInterfaceName] \in Probe
    BY <1>4 DEF Probe
  <2>3. /\ DOMAIN probeHistory' = DOMAIN probeHistory \cup {sent}
        /\ \A s \in DOMAIN probeHistory' : probeHistory'[s] \in Probe
        /\ \A s \in DOMAIN probeHistory' :
             IF s = sent THEN probeHistory'[s].txTime = now /\ ~probeHistory'[s].received
             ELSE s \in DOMAIN probeHistory /\ probeHistory'[s] = probeHistory[s]
    BY <1>4, <1>6, <2>2 DEF ProbeSent
  <2>4. /\ sent' \in 0..MaxProbes /\ sent \in Seqs /\ sent \in 0..(sent' - 1)
        /\ 0..(sent - 1) \subseteq 0..(sent' - 1)
    BY <1>4, <2>1 DEF Seqs
  <2>5. RecentProbes'
    <3>1. nextCheck' = nextCheck /\ nextCheck \in Nat /\ nextCheck - now <= CheckInterval
      BY <1>1, <1>4, IntervalType DEF SInv, ScoreTypeOK, TimerRuns
    <3>2. CutOff \in Nat
      BY ScoreAssumption
    <3> QED BY <1>4, <2>3, <3>1, <3>2, IntervalType DEF SInv, RecentProbes
  <2>6. Chronological'
    BY <1>1, <1>4, <2>3 DEF SInv, Chronological
  <2> QED BY <1>4, <1>5, <2>1, <2>3, <2>4, <2>5, <2>6, CountTxStep
<1>7. CASE DataSent
  <2>1. /\ CountTx /\ data' \in 0..MaxData
        /\ UNCHANGED <<probeHistory, rxBytes, sent, inFlight>>
    BY <1>4, <1>7 DEF DataSent
  <2>2. RecentProbes' /\ Chronological'
    BY <1>1, <2>1 DEF SInv, RecentProbes, Chronological
  <2> QED BY <1>4, <1>5, <2>1, <2>2, CountTxStep
<1>8. ASSUME NEW s \in Seqs, ProbeReceived(s) PROVE SInv'
  <2>1. /\ UNCHANGED <<txBytes, sent, data, txOnCarrier>>
        /\ inFlight' \subseteq Seqs
        /\ rxBytes' \in [Interface -> Nat]
    BY <1>4, <1>8 DEF ProbeReceived
  <2>2. /\ DOMAIN probeHistory' = DOMAIN probeHistory
        /\ \A r \in DOMAIN probeHistory' :
             /\ probeHistory'[r] \in Probe /\ probeHistory'[r].txTime = probeHistory[r].txTime
             /\ \/ probeHistory'[r] = probeHistory[r]
                \/ probeHistory'[r].rxTime = now
    BY <1>4, <1>8 DEF ProbeReceived, Probe
  <2>3. BothInterfaces => TxFollowsCarrier'
    BY <2>1 DEF SInv, TxFollowsCarrier
  <2>4. RecentProbes'
    BY <1>1, <2>2 DEF SInv, RecentProbes
  <2>5. Chronological'
    BY <1>1, <2>2 DEF SInv, Chronological
  <2> QED BY <1>4, <1>5, <2>1, <2>2, <2>3, <2>4, <2>5
<1> QED BY <1>6, <1>7, <1>8 DEF Traffic

(* An evaluation may only leave the vehicle on a satellite that is         *)
(* visible; cleaning the history keeps its types.                          *)
LEMMA EvaluationStep ==
  ASSUME SInv, DecisionKeeps, CleanOldEvents, now = nextCheck,
         nextCheck' = now + CheckInterval,
         UNCHANGED <<now, finished, historyVars, txBytes, rxBytes, sent, data,
                     inFlight, txOnCarrier, envVars>>
  PROVE  SInv'
<1>1. /\ now \in Nat /\ nextCheck' \in Nat
      /\ UNCHANGED <<now, visible, lastVisible>>
  BY IntervalType DEF SInv, ScoreTypeOK, Mgr!TypeOK, envVars
<1>2. /\ DOMAIN probeHistory' \subseteq DOMAIN probeHistory
      /\ \A s \in DOMAIN probeHistory' : probeHistory'[s] = probeHistory[s]
  BY DEF CleanOldEvents
<1>3. ScoreTypeOK'
  BY <1>1, <1>2 DEF SInv, ScoreTypeOK, DecisionKeeps, Outcome
<1>4. /\ CarriersFollowState' /\ MirrorsManager' /\ FirstHold'
      /\ (BothInterfaces => TxFollowsCarrier)'
  BY DEF SInv, DecisionKeeps, TxFollowsCarrier, BothInterfaces
<1>5. TimerRuns'
  BY <1>1, IntervalType DEF TimerRuns
<1>6. SeenSinceCheck'
  BY <1>1, IntervalType DEF SInv, SeenSinceCheck, DecisionKeeps
<1>7. RecentProbes'
  <2>1. \A s \in DOMAIN probeHistory' :
          probeHistory[s] \in Probe /\ probeHistory[s].txTime >= now - CutOff
    BY <1>2 DEF CleanOldEvents, SInv, ScoreTypeOK
  <2>2. CutOff \in Nat
    BY ScoreAssumption
  <2> QED BY <1>1, <1>2, <2>1, <2>2, IntervalType DEF RecentProbes, Probe
<1>8. Chronological'
  BY <1>1, <1>2 DEF SInv, Chronological
<1> QED BY <1>3, <1>4, <1>5, <1>6, <1>7, <1>8 DEF SInv, DecisionKeeps

(* At the end of the run the manager charges the tail; the strategy does   *)
(* nothing more.                                                           *)
LEMMA FinishStep == SInv /\ StrategyFinish => SInv'
<1> SUFFICES ASSUME SInv, StrategyFinish PROVE SInv'
  OBVIOUS
<1>1. /\ UNCHANGED <<now, birth, satOnTime, cellOnTime>> /\ finished' = TRUE
      /\ UNCHANGED <<isSatState, satCarrier, cellCarrier, lastSwitchTime, totalSwitchesCount>>
      /\ UNCHANGED <<currentInterfaceName, strategyLastSwitchTime, consecutiveDegradations>>
      /\ UNCHANGED <<probeHistory, txBytes, rxBytes, sent, data, inFlight, txOnCarrier>>
      /\ UNCHANGED <<visible, lastVisible, nextCheck, outcomes>>
  BY DEF StrategyFinish, Mgr!Finish, Mgr!FinishTotals, Mgr!historyVars, strategyVars,
         decisionVars, trafficVars, envVars
<1>2. Mgr!TypeOK'
  BY <1>1 DEF SInv, ScoreTypeOK, StrategyFinish, Mgr!Finish, Mgr!FinishTotals,
              Mgr!SinceSwitch, Mgr!TypeOK
<1> QED BY <1>1, <1>2 DEF SInv, ScoreTypeOK, CarriersFollowState, MirrorsManager, FirstHold,
                          TxFollowsCarrier, TimerRuns, SeenSinceCheck, BothInterfaces,
                          RecentProbes, Chronological, CountIsEarned, DegradedSinceReset

(* Nothing changes in a stuttering step.                                   *)
LEMMA StutterStep ==
  SInv /\ UNCHANGED <<now, managerVars, finished, historyVars, strategyVars>> => SInv'
<1> SUFFICES ASSUME SInv, UNCHANGED <<now, managerVars, finished, historyVars, strategyVars>>
             PROVE  SInv'
  OBVIOUS
<1>1. /\ UNCHANGED <<now, finished, birth, satOnTime, cellOnTime>>
      /\ UNCHANGED <<isSatState, satCarrier, cellCarrier, satTotalTime, cellTotalTime,
                     lastSwitchTime, totalSwitchesCount>>
      /\ UNCHANGED <<currentInterfaceName, strategyLastSwitchTime, consecutiveDegradations>>
      /\ UNCHANGED <<probeHistory, txBytes, rxBytes, sent, data, inFlight, txOnCarrier>>
      /\ UNCHANGED <<visible, lastVisible, nextCheck, outcomes>>
  BY DEF managerVars, historyVars, strategyVars, decisionVars, trafficVars, envVars
<1> QED BY <1>1 DEF SInv, ScoreTypeOK, Mgr!TypeOK, CarriersFollowState, MirrorsManager,
                    FirstHold, TxFollowsCarrier, TimerRuns, SeenSinceCheck, BothInterfaces,
                          RecentProbes, Chronological, CountIsEarned, DegradedSinceReset

(* What the shared invariant promises.                                     *)
LEMMA OffInTime == SInv => LeavesLostSatellite
  BY IntervalType
     DEF SInv, ScoreTypeOK, Mgr!TypeOK, TimerRuns, SeenSinceCheck, LeavesLostSatellite

(* No evaluation meets a probe older than the window and one interval.     *)
LEMMA SamplesFresh ==
  SInv /\ now = nextCheck =>
    \A s \in Samples : now - probeHistory[s].txTime <= CutOff + CheckInterval
  BY DEF SInv, RecentProbes, Samples

(* Only an evaluation concludes anything, or moves the vehicle.            *)
LEMMA QuietStep ==
  TimePasses \/ Traffic \/ StrategyFinish
     \/ UNCHANGED <<now, managerVars, finished, historyVars, strategyVars>>
  => UNCHANGED <<outcomes, isSatState>>
  BY DEF TimePasses, Traffic, StrategyFinish, Mgr!Tick, Mgr!Finish, Mgr!FinishTotals,
         Mgr!managerVars, managerVars, strategyVars

-----------------------------------------------------------------------------
(* The scores.                                                             *)

(* Integer division by a positive number.                                  *)
LEMMA DivBounds ==
  ASSUME NEW a \in Int, NEW n \in Nat, n > 0
  PROVE  /\ a \div n \in Int
         /\ a >= 0 => a \div n >= 0
         /\ \A b \in Int : a <= b * n => a \div n <= b
         /\ \A b \in Int : b * n <= a => b <= a \div n
<1> DEFINE q == a \div n
<1>1. q \in Int /\ n * q <= a /\ a < n * (q + 1)
  OBVIOUS
<1> HIDE DEF q
<1>2. a >= 0 => q >= 0
  <2> SUFFICES ASSUME a >= 0, q + 1 <= 0 PROVE FALSE
    BY <1>1
  <2>1. n * (q + 1) <= 0
    BY <1>1
  <2> QED BY <1>1, <2>1
<1>3. ASSUME NEW b \in Int, a <= b * n PROVE q <= b
  <2> SUFFICES ASSUME b + 1 <= q PROVE FALSE
    BY <1>1
  <2>1. n * (b + 1) <= n * q
    BY <1>1
  <2> QED BY <1>1, <1>3, <2>1
<1>4. ASSUME NEW b \in Int, b * n <= a PROVE b <= q
  <2> SUFFICES ASSUME q + 1 <= b PROVE FALSE
    BY <1>1
  <2>1. n * (q + 1) <= n * b
    BY <1>1
  <2> QED BY <1>1, <1>4, <2>1
<1> QED BY <1>1, <1>2, <1>3, <1>4 DEF q

(* The round trips are summed over the answered probes.                    *)
LEMMA SumRTT ==
  ASSUME IsFiniteSet(Received), \A s \in Received : RTT(s) \in Nat
  PROVE  MapThenSumSet(RTT, Received) \in Nat
<1> DEFINE S == Received
           weight == [s \in S |-> RTT(s)]
           body(g) == [s \in SUBSET S |-> IF s = {} THEN 0
                         ELSE RTT(CHOOSE k \in s : TRUE) + g[s \ {CHOOSE k \in s : TRUE}]]
           iter == CHOOSE g : g = body(g)
<1>1. weight \in [S -> Nat]
  OBVIOUS
<1>2. \A g : SumsUp(g, weight, S) <=> g = body(g)
  <2> TAKE g
  <2>1. ASSUME NEW s \in SUBSET S PROVE SumFrom(g, weight, s) = body(g)[s]
    <3>1. s # {} => Picked(s) \in S
      BY DEF Picked
    <3> QED BY <3>1 DEF SumFrom, Picked
  <2> HIDE DEF weight, S
  <2> QED BY <2>1 DEF SumsUp
<1>3. SumsUp(iter, weight, S)
  <2>1. \E g : SumsUp(g, weight, S)
    <3> HIDE DEF weight, S
    <3> QED BY <1>1, SumExists DEF S
  <2> HIDE DEF body, weight, S
  <2> QED BY <1>2, <2>1
<1>4. iter[S] \in Nat
  <2> HIDE DEF iter, weight
  <2> QED BY <1>1, <1>3, SumType
<1> QED BY <1>4 DEF MapThenSumSet, MapThenFoldSet

(* The jitter is summed over neighbours.                                   *)
LEMMA SumJitter ==
  ASSUME IsFiniteSet(Neighbours), \A p \in Neighbours : Abs(RTT(p[2]) - RTT(p[1])) \in Nat
  PROVE  MapThenSumSet(LAMBDA p : Abs(RTT(p[2]) - RTT(p[1])), Neighbours) \in Nat
<1> DEFINE S == Neighbours
           w(p) == Abs(RTT(p[2]) - RTT(p[1]))
           weight == [p \in S |-> w(p)]
           body(g) == [s \in SUBSET S |-> IF s = {} THEN 0
                         ELSE w(CHOOSE k \in s : TRUE) + g[s \ {CHOOSE k \in s : TRUE}]]
           iter == CHOOSE g : g = body(g)
<1>1. weight \in [S -> Nat]
  OBVIOUS
<1>2. \A g : SumsUp(g, weight, S) <=> g = body(g)
  <2> TAKE g
  <2>1. ASSUME NEW s \in SUBSET S PROVE SumFrom(g, weight, s) = body(g)[s]
    <3>1. s # {} => Picked(s) \in S
      BY DEF Picked
    <3> HIDE DEF w, S
    <3> QED BY <3>1 DEF SumFrom, Picked
  <2> HIDE DEF weight, S, w
  <2> QED BY <2>1 DEF SumsUp
<1>3. SumsUp(iter, weight, S)
  <2>1. \E g : SumsUp(g, weight, S)
    <3> HIDE DEF weight, S
    <3> QED BY <1>1, SumExists DEF S
  <2> HIDE DEF body, weight, S
  <2> QED BY <1>2, <2>1
<1>4. iter[S] \in Nat
  <2> HIDE DEF iter, weight
  <2> QED BY <1>1, <1>3, SumType
<1> QED BY <1>4 DEF MapThenSumSet, MapThenFoldSet, w

(* The statistics are natural numbers, whatever was sent and answered      *)
(* (calculateAvgRTT, calculateAvgJitter, calculateAvgPDR).                 *)
LEMMA StatisticsType ==
  ASSUME ScoreTypeOK, Chronological
  PROVE  AvgRTT \in Nat /\ AvgJitter \in Nat /\ AvgPDR \in Nat
<1>1. /\ MaxRTT \in Nat /\ MaxRTT > 0 /\ MaxJitter \in Nat /\ MaxJitter > 0
  BY ScoreAssumption
<1>2. IsFiniteSet(Samples) /\ IsFiniteSet(Received)
  <2>1. sent \in Int
    BY DEF ScoreTypeOK
  <2>2. IsFiniteSet(0..(sent - 1))
    BY <2>1, FS_Interval
  <2>3. Samples \subseteq 0..(sent - 1) /\ Received \subseteq Samples
    BY DEF ScoreTypeOK, Samples, Received
  <2> QED BY <2>2, <2>3, FS_Subset
<1>3. /\ Cardinality(Samples) \in Nat /\ Cardinality(Received) \in Nat
      /\ Received # {} => Cardinality(Received) > 0
      /\ Samples # {} => Cardinality(Samples) > 0
  BY <1>2, FS_CardinalityType, FS_EmptySet
<1>4. \A s \in Received : RTT(s) \in Nat
  BY DEF Received, Samples, ScoreTypeOK, Chronological, Probe, RTT
<1>5. MapThenSumSet(RTT, Received) \in Nat
  BY <1>2, <1>4, SumRTT
<1>6. MapThenSumSet(LAMBDA p : Abs(RTT(p[2]) - RTT(p[1])), Neighbours) \in Nat
  <2>1. IsFiniteSet(Received \X Received) /\ Neighbours \in SUBSET (Received \X Received)
    BY <1>2, FS_Product DEF Neighbours
  <2>2. IsFiniteSet(Neighbours)
    BY <2>1, FS_Subset
  <2>3. ASSUME NEW p \in Neighbours PROVE Abs(RTT(p[2]) - RTT(p[1])) \in Nat
    <3>1. p[1] \in Received /\ p[2] \in Received
      BY DEF Neighbours
    <3>2. RTT(p[1]) \in Nat /\ RTT(p[2]) \in Nat
      BY <1>4, <3>1
    <3> QED BY <3>2 DEF Abs
  <2> QED BY <2>2, <2>3, SumJitter
<1>7. AvgRTT \in Nat
  <2> DEFINE total == MapThenSumSet(RTT, Received)
  <2>1. CASE Received = {}
    BY <2>1 DEF AvgRTT
  <2>2. CASE Received # {}
    <3> HIDE DEF total
    <3>1. /\ 1000 * total \in Nat
          /\ Cardinality(Received) * MaxRTT \in Nat /\ Cardinality(Received) * MaxRTT > 0
      BY <1>1, <1>3, <1>5, <2>2 DEF total
    <3>2. (1000 * total) \div (Cardinality(Received) * MaxRTT) \in Nat
      BY <3>1, DivBounds
    <3> QED BY <2>2, <3>2 DEF AvgRTT, total
  <2> QED BY <2>1, <2>2
<1>8. AvgJitter \in Nat
  <2> DEFINE total == MapThenSumSet(LAMBDA p : Abs(RTT(p[2]) - RTT(p[1])), Neighbours)
             gaps == Cardinality(Received) - 1
  <2>1. CASE Cardinality(Received) < 2
    BY <2>1 DEF AvgJitter
  <2>2. CASE ~(Cardinality(Received) < 2)
    <3>1. gaps \in Nat /\ gaps > 0 /\ 1000 * total \in Nat
      BY <1>3, <1>6, <2>2
    <3> HIDE DEF total, gaps
    <3>2. gaps * MaxJitter \in Nat /\ gaps * MaxJitter > 0
      BY <1>1, <3>1
    <3>3. (1000 * total) \div (gaps * MaxJitter) \in Nat
      BY <3>1, <3>2, DivBounds
    <3> QED BY <2>2, <3>3 DEF AvgJitter, total, gaps
  <2> QED BY <2>1, <2>2
<1>9. AvgPDR \in Nat
  <2>1. CASE Samples = {}
    BY <2>1 DEF AvgPDR
  <2>2. CASE Samples # {}
    <3>1. 1000 * Cardinality(Received) \in Nat /\ 1000 * Cardinality(Received) >= 0
      BY <1>3
    <3>2. /\ (1000 * Cardinality(Received)) \div Cardinality(Samples) \in Int
          /\ (1000 * Cardinality(Received)) \div Cardinality(Samples) >= 0
      BY <1>3, <2>2, <3>1, DivBounds
    <3> QED BY <2>2, <3>2 DEF AvgPDR
  <2> QED BY <2>1, <2>2
<1> QED BY <1>7, <1>8, <1>9

(* A weighted average lies where what it averages lies.                    *)
LEMMA AverageBounds ==
  ASSUME NEW total \in Int, NEW weight \in Nat, weight > 0,
         total >= 0, total <= 1000 * weight
  PROVE  total \div weight \in 0..1000
<1>1. /\ total \div weight \in Int /\ total \div weight >= 0
      /\ total \div weight <= 1000
  BY DivBounds
<1> QED BY <1>1

(* A share of a weight is at most the weight.                              *)
LEMMA ShareBounds ==
  ASSUME NEW share \in 0..1000, NEW weight \in Nat
  PROVE  share * weight \in Nat /\ share * weight <= 1000 * weight
OBVIOUS

(* Each term of the QoS score is a share of its weight, so the score never *)
(* leaves its range, whatever the probes say (computeQoSScore).            *)
LEMMA QoSScoreBounds == ScoreTypeOK /\ Chronological => QoSScore \in 0..1000
<1> SUFFICES ASSUME ScoreTypeOK, Chronological PROVE QoSScore \in 0..1000
  OBVIOUS
<1> DEFINE a == 1000 - AtMost(AvgRTT, 1000)
           b == AtMost((1000 * AvgPDR) \div MinPDR, 1000)
           c == 1000 - AtMost(AvgJitter, 1000)
<1>1. /\ WRTT \in Nat /\ WPDR \in Nat /\ WJitter \in Nat /\ WRTT + WPDR + WJitter > 0
      /\ MinPDR \in Nat /\ MinPDR > 0
  BY ScoreAssumption
<1>2. AvgRTT \in Nat /\ AvgJitter \in Nat /\ AvgPDR \in Nat
  BY StatisticsType
<1>3. CASE Cardinality(Samples) < 2 \/ AvgPDR = 0
  BY <1>3 DEF QoSScore
<1>4. CASE ~(Cardinality(Samples) < 2 \/ AvgPDR = 0)
  <2>1. (1000 * AvgPDR) \div MinPDR \in Int /\ (1000 * AvgPDR) \div MinPDR >= 0
    <3>1. 1000 * AvgPDR \in Int /\ 1000 * AvgPDR >= 0
      BY <1>2
    <3> QED BY <1>1, <3>1, DivBounds
  <2>2. QoSScore = (a * WRTT + b * WPDR + c * WJitter) \div (WRTT + WPDR + WJitter)
    BY <1>4 DEF QoSScore
  <2>3. a \in 0..1000 /\ c \in 0..1000 /\ b \in 0..1000
    BY <1>2, <2>1 DEF AtMost
  <2> HIDE DEF a, b, c
  <2>4. /\ a * WRTT \in Nat /\ a * WRTT <= 1000 * WRTT
        /\ b * WPDR \in Nat /\ b * WPDR <= 1000 * WPDR
        /\ c * WJitter \in Nat /\ c * WJitter <= 1000 * WJitter
    BY <1>1, <2>3, ShareBounds
  <2>5. /\ a * WRTT + b * WPDR + c * WJitter \in Nat
        /\ a * WRTT + b * WPDR + c * WJitter <= 1000 * (WRTT + WPDR + WJitter)
        /\ WRTT + WPDR + WJitter \in Nat
    <3> DEFINE x == a * WRTT
               y == b * WPDR
               z == c * WJitter
    <3>1. x \in Nat /\ y \in Nat /\ z \in Nat
          /\ x <= 1000 * WRTT /\ y <= 1000 * WPDR /\ z <= 1000 * WJitter
      BY <2>4
    <3> HIDE DEF x, y, z
    <3>2. x + y + z \in Nat /\ x + y + z <= 1000 * (WRTT + WPDR + WJitter)
      BY <1>1, <3>1
    <3> QED BY <1>1, <3>2 DEF x, y, z
  <2> QED BY <1>1, <2>2, <2>5, AverageBounds
<1> QED BY <1>3, <1>4

(* The dearer interface gains efficiency with the charge, up to that of    *)
(* the cheaper one, which has all of it at any charge                      *)
(* (computeEnergyEfficiency).                                              *)
LEMMA EfficiencyBounds ==
  ASSUME residual \in Nat, currentInterfaceName \in Interface
  PROVE  /\ EnergyEfficiency \in 0..1000
         /\ currentInterfaceName = "cellular" /\ CellCost <= SatCost => EnergyEfficiency = 1000
<1> DEFINE cost == IF currentInterfaceName = "satellite" THEN SatCost ELSE CellCost
           least == AtMost(SatCost, CellCost)
           static == (1000 * least) \div cost
           charge == AtMost(residual, NominalEnergy)
           gain == ((1000 - static) * charge) \div NominalEnergy
<1>1. /\ NominalEnergy \in Nat /\ NominalEnergy > 0
      /\ SatCost \in Nat /\ SatCost > 0 /\ CellCost \in Nat /\ CellCost > 0
  BY EnergyAssumption
<1>2. /\ cost \in Nat /\ cost > 0 /\ least \in Nat /\ least <= cost
      /\ charge \in Nat /\ charge <= NominalEnergy
  BY <1>1 DEF AtMost
<1>3. EnergyEfficiency = static + gain
  BY DEF EnergyEfficiency
<1>4. currentInterfaceName = "cellular" /\ CellCost <= SatCost => least = cost
  BY <1>1 DEF AtMost
<1> HIDE DEF cost, least, charge
<1>5. static \in 0..1000 /\ (least = cost => static = 1000)
  <2>1. /\ 1000 * least \in Int /\ 1000 * least >= 0
        /\ 1000 * least <= 1000 * cost
    BY <1>2
  <2>2. static \in Int /\ static >= 0 /\ static <= 1000
    BY <1>2, <2>1, DivBounds
  <2>3. ASSUME least = cost PROVE 1000 <= static
    BY <1>2, <2>1, <2>3, DivBounds
  <2> QED BY <2>2, <2>3
<1> HIDE DEF static
<1>6. gain \in 0..(1000 - static)
  <2> DEFINE left == 1000 - static
  <2>1. left \in Nat
    BY <1>5
  <2> HIDE DEF left
  <2>2. left * charge \in Nat /\ left * charge <= left * NominalEnergy
    BY <1>1, <1>2, <2>1
  <2>3. /\ (left * charge) \div NominalEnergy \in Int
        /\ (left * charge) \div NominalEnergy >= 0
        /\ (left * charge) \div NominalEnergy <= left
    BY <1>1, <2>1, <2>2, DivBounds
  <2> QED BY <2>1, <2>3 DEF left
<1> HIDE DEF gain
<1> QED BY <1>3, <1>4, <1>5, <1>6

(* The utility never leaves its range.  On a cellular interface that is    *)
(* not the dearer one, it is at least the energy's share of the weights    *)
(* (computeUtilityScore).                                                  *)
LEMMA UtilityScoreBounds ==
  ASSUME residual \in Nat, currentInterfaceName \in Interface, QoSScore \in 0..1000
  PROVE  /\ UtilityScore \in 0..1000
         /\ \A least \in Int :
              /\ currentInterfaceName = "cellular" /\ CellCost <= SatCost
              /\ least * (WEnergy + WQoS) <= 1000 * WEnergy + WQoS * QoSScore
              => least <= UtilityScore
<1> DEFINE total == WEnergy * EnergyEfficiency + WQoS * QoSScore
           weight == WEnergy + WQoS
<1>1. WEnergy \in Nat /\ WQoS \in Nat /\ weight \in Nat /\ weight > 0
  BY EnergyAssumption
<1>2. /\ EnergyEfficiency \in 0..1000
      /\ currentInterfaceName = "cellular" /\ CellCost <= SatCost => EnergyEfficiency = 1000
  BY EfficiencyBounds
<1>3. UtilityScore = total \div weight
  BY DEF UtilityScore
<1>4. /\ EnergyEfficiency * WEnergy \in Nat /\ EnergyEfficiency * WEnergy <= 1000 * WEnergy
      /\ QoSScore * WQoS \in Nat /\ QoSScore * WQoS <= 1000 * WQoS
  BY <1>1, <1>2, ShareBounds
<1>5. total = EnergyEfficiency * WEnergy + QoSScore * WQoS
  BY <1>1, <1>2
<1>6. total \in Nat /\ total <= 1000 * weight
  <2> DEFINE x == EnergyEfficiency * WEnergy
             y == QoSScore * WQoS
  <2>1. /\ x \in Nat /\ x <= 1000 * WEnergy /\ y \in Nat /\ y <= 1000 * WQoS
        /\ total = x + y
    BY <1>4, <1>5
  <2> HIDE DEF x, y, total
  <2> QED BY <1>1, <2>1
<1>7. EnergyEfficiency = 1000 => total = 1000 * WEnergy + WQoS * QoSScore
  BY <1>1
<1> HIDE DEF total, weight
<1>8. UtilityScore \in 0..1000
  BY <1>1, <1>3, <1>6, AverageBounds
<1>9. ASSUME NEW least \in Int, currentInterfaceName = "cellular", CellCost <= SatCost,
             least * weight <= 1000 * WEnergy + WQoS * QoSScore
      PROVE  least <= UtilityScore
  <2>1. least * weight <= total
    BY <1>2, <1>7, <1>9
  <2>2. total \in Int
    BY <1>6
  <2> QED BY <1>1, <1>3, <2>1, <2>2, DivBounds
<1> QED BY <1>8, <1>9 DEF weight

-----------------------------------------------------------------------------
(* The energy-aware strategy.                                              *)

(* A vehicle on the satellite had a sufficient battery at the last         *)
(* evaluation, or has since, or was put there by that evaluation.          *)
SufficientSinceCheck ==
  /\ ~Critical => lastSufficient = now
  /\ isSatState =>
       \/ nextCheck - lastSufficient <= CheckInterval
       \/ nextCheck - lastSwitchTime <= CheckInterval

(* The battery and its history.                                            *)
BatteryOK == residual \in 0..NominalEnergy /\ lastSufficient \in 0..now

(* What the energy-aware strategy keeps.                                   *)
EInv == SInv /\ BatteryOK /\ SufficientSinceCheck

(* The battery starts full.                                                *)
LEMMA InitEInv == Init => EInv
<1> SUFFICES ASSUME Init PROVE EInv
  OBVIOUS
<1>1. SInv
  BY InitSInv DEF Init
<1>2. now \in Nat /\ nextCheck = now + CheckInterval /\ ScoreTypeOK
  BY <1>1 DEF Init, StrategyInit, SInv, ScoreTypeOK, Mgr!TypeOK
<1>3. NominalEnergy \in Nat
  BY EnergyAssumption
<1>4. residual \in 0..NominalEnergy /\ lastSufficient = now
  BY <1>3 DEF Init
<1> QED BY <1>1, <1>2, <1>4, IntervalType DEF EInv, BatteryOK, SufficientSinceCheck

(* Every step preserves the invariant.                                     *)
LEMMA NextEInv == EInv /\ [Next]_vars => EInv'
<1> SUFFICES ASSUME EInv, [Next]_vars PROVE EInv'
  OBVIOUS
<1>1. /\ SInv /\ now \in Nat /\ nextCheck \in Nat /\ lastSwitchTime \in Nat
      /\ residual \in 0..NominalEnergy /\ lastSufficient \in 0..now
      /\ NominalEnergy \in Nat /\ CriticalEnergy \in Nat
      /\ SufficientSinceCheck
  BY EnergyAssumption DEF EInv, SInv, ScoreTypeOK, BatteryOK, Mgr!TypeOK
<1>2. ASSUME SInv', residual' \in 0..NominalEnergy, lastSufficient' \in 0..now',
             SufficientSinceCheck'
      PROVE  EInv'
  BY <1>2 DEF EInv, BatteryOK, SInv
<1>3. CASE Drain
  <2>1. /\ SInv' /\ now' = now + 1
        /\ UNCHANGED <<isSatState, lastSwitchTime, nextCheck>>
    BY <1>1, <1>3, TimeStep DEF Drain, TimePasses, Mgr!Tick, Mgr!managerVars
  <2>2. residual' \in 0..NominalEnergy
    BY <1>1, <1>3 DEF Drain
  <2>3. lastSufficient' = IF residual' >= CriticalEnergy THEN now' ELSE lastSufficient
    BY <1>3 DEF Drain
  <2>4. lastSufficient' \in 0..now' /\ SufficientSinceCheck'
    BY <1>1, <2>1, <2>2, <2>3, IntervalType DEF SufficientSinceCheck, Critical
  <2> QED BY <1>2, <2>1, <2>2, <2>4
<1>4. CASE EvaluateAndDecide
  <2>1. /\ UNCHANGED <<now, finished, historyVars, residual, lastSufficient>>
        /\ now = nextCheck /\ nextCheck' = now + CheckInterval
    BY <1>4 DEF EvaluateAndDecide, energyVars
  <2>2. Emergency => currentInterfaceName = "satellite"
    BY <1>1 DEF Emergency, SInv, ScoreTypeOK, Interface
  <2>3. Decides(UtilityScore)
    BY <1>4, <2>2 DEF EvaluateAndDecide, Decides
  <2>4. DecisionKeeps
    BY <1>1, <2>1, <2>3, DecisionStep
  <2>5. SInv'
    BY <1>1, <1>4, <2>1, <2>4, EvaluationStep DEF EvaluateAndDecide
  <2>6. Emergency => ~isSatState'
    <3>1. CASE Emergency
      <4>1. currentInterfaceName' = "cellular"
        BY <1>4, <3>1 DEF EvaluateAndDecide, SwitchTo
      <4> QED BY <2>5, <4>1 DEF SInv, MirrorsManager
    <3> QED BY <3>1
  <2>7. SufficientSinceCheck'
    <3>1. ~Critical' => lastSufficient' = now'
      BY <1>1, <2>1 DEF SufficientSinceCheck, Critical
    <3>2. CASE isSatState' /\ isSatState
      <4>1. ~Critical
        BY <1>1, <2>6, <3>2 DEF Emergency, SInv, MirrorsManager
      <4> QED BY <1>1, <2>1, <3>1, <4>1, IntervalType DEF SufficientSinceCheck
    <3>3. CASE isSatState' /\ lastSwitchTime' = now
      BY <1>1, <2>1, <3>1, <3>3, IntervalType DEF SufficientSinceCheck
    <3> QED BY <2>4, <3>1, <3>2, <3>3 DEF DecisionKeeps, SufficientSinceCheck
  <2> QED BY <1>1, <1>2, <2>1, <2>5, <2>7
<1>5. ASSUME SInv', UNCHANGED <<now, isSatState, lastSwitchTime, nextCheck, energyVars>>
      PROVE  EInv'
  BY <1>1, <1>2, <1>5 DEF energyVars, SufficientSinceCheck, Critical
<1>6. CASE ReceiveSignal
  BY <1>1, <1>5, <1>6, TrafficStep DEF ReceiveSignal, Traffic, managerVars
<1>7. CASE StrategyFinish /\ UNCHANGED energyVars
  BY <1>1, <1>5, <1>7, FinishStep
     DEF StrategyFinish, Mgr!Finish, Mgr!FinishTotals, strategyVars
<1>8. CASE UNCHANGED vars
  BY <1>1, <1>5, <1>8, StutterStep DEF vars, managerVars, strategyVars
<1> QED BY <1>3, <1>4, <1>6, <1>7, <1>8 DEF Next

-----------------------------------------------------------------------------
(* The qos-based strategy.                                                 *)

(* Every step preserves the invariant of the score strategies.             *)
LEMMA QoSNextSInv == SInv /\ [QoSNext]_qosVars => SInv'
<1> SUFFICES ASSUME SInv, [QoSNext]_qosVars PROVE SInv'
  OBVIOUS
<1>1. CASE EvaluateQoS
  <2>1. DecisionKeeps
    BY <1>1, DecisionStep DEF EvaluateQoS, Decides
  <2> QED BY <1>1, <2>1, EvaluationStep DEF EvaluateQoS
<1>2. CASE UNCHANGED qosVars
  BY <1>2, StutterStep DEF qosVars
<1> QED BY <1>1, <1>2, TimeStep, TrafficStep, FinishStep DEF QoSNext

-----------------------------------------------------------------------------
(* Either strategy.                                                        *)

strategiesVars == <<vars, switchingMode>>

(* The inductive invariant: the battery is accounted for if it is used.    *)
IInv ==
  /\ SInv /\ BatteryOK
  /\ switchingMode \in {"qos-based", "energy-aware"}
  /\ switchingMode = "energy-aware" => SufficientSinceCheck
  /\ switchingMode = "qos-based" => residual = NominalEnergy

(* A strategy is chosen once and for all.                                  *)
LEMMA NextIInv == IInv /\ [StrategiesNext]_strategiesVars => IInv'
<1> SUFFICES ASSUME IInv, [StrategiesNext]_strategiesVars PROVE IInv'
  OBVIOUS
<1>1. CASE switchingMode = "qos-based" /\ QoSStep /\ UNCHANGED switchingMode
  <2>1. SInv' /\ UNCHANGED <<residual, lastSufficient, switchingMode>>
    BY <1>1, QoSNextSInv DEF IInv, QoSStep, energyVars
  <2>2. now \in Nat /\ now' \in Nat /\ now <= now'
    <3>1. now \in Nat
      BY DEF IInv, SInv, ScoreTypeOK, Mgr!TypeOK
    <3>2. now' = now + 1 \/ now' = now
      BY <1>1 DEF QoSStep, QoSNext, TimePasses, Traffic, EvaluateQoS, StrategyFinish,
                  Mgr!Tick, Mgr!Finish
    <3> QED BY <3>1, <3>2
  <2>3. residual \in 0..NominalEnergy /\ lastSufficient \in 0..now
    BY DEF IInv, BatteryOK
  <2>4. residual' \in 0..NominalEnergy /\ lastSufficient' \in 0..now'
    BY <2>1, <2>2, <2>3
  <2> QED BY <1>1, <2>1, <2>4 DEF IInv, BatteryOK, SInv
<1>2. CASE switchingMode = "energy-aware" /\ EnergyStep /\ UNCHANGED switchingMode
  <2>1. EInv'
    BY <1>2, NextEInv DEF IInv, EInv, EnergyStep
  <2> QED BY <1>2, <2>1 DEF IInv, EInv
<1>3. CASE UNCHANGED strategiesVars
  <2>1. UNCHANGED <<now, managerVars, finished, historyVars, strategyVars>>
        /\ UNCHANGED <<residual, lastSufficient, switchingMode>>
    BY <1>3 DEF strategiesVars, vars, energyVars
  <2>2. SInv'
    BY <2>1, StutterStep DEF IInv
  <2>3. UNCHANGED <<now, nextCheck, isSatState, lastSwitchTime>>
    BY <2>1 DEF strategyVars, managerVars
  <2> QED BY <2>1, <2>2, <2>3 DEF IInv, BatteryOK, SInv, SufficientSinceCheck, Critical
<1> QED BY <1>1, <1>2, <1>3 DEF StrategiesNext

(* The inductive invariant holds of every behaviour.                       *)
THEOREM Invariance == StrategiesSpec => []IInv
<1>1. StrategiesInit => IInv
  <2> SUFFICES ASSUME StrategiesInit PROVE IInv
    OBVIOUS
  <2>1. EInv /\ residual = NominalEnergy
    BY InitEInv DEF StrategiesInit, Init
  <2> QED BY <2>1 DEF EInv, IInv, StrategiesInit
<1> QED BY <1>1, NextIInv, PTL DEF StrategiesSpec, strategiesVars

(* Every variable keeps its type and every score its range, through any    *)
(* order of signals, evaluations and late echoes, and for any weights      *)
(* (computeQoSScore, computeUtilityScore).                                 *)
THEOREM TypeCorrectness == StrategiesSpec => []EnergyTypeOK
<1>1. IInv => EnergyTypeOK
  <2> SUFFICES ASSUME IInv PROVE EnergyTypeOK
    OBVIOUS
  <2>1. ScoreTypeOK /\ Chronological /\ BatteryOK
    BY DEF IInv, SInv
  <2>2. QoSScore \in 0..1000
    BY <2>1, QoSScoreBounds
  <2>3. UtilityScore \in 0..1000
    BY <2>1, <2>2, UtilityScoreBounds DEF ScoreTypeOK, BatteryOK
  <2> QED BY <2>1, <2>2, <2>3 DEF EnergyTypeOK, BatteryOK
<1> QED BY Invariance, <1>1, PTL

(* A critical battery is off the satellite within one check interval of    *)
(* becoming critical or of the switch that put it there                    *)
(* (evaluateAndDecide's emergency check).  A full battery is not critical. *)
THEOREM CriticalStretch ==
  ASSUME CriticalEnergy <= NominalEnergy
  PROVE  StrategiesSpec => []CriticalStretchBounded
<1>1. IInv => CriticalStretchBounded
  <2> SUFFICES ASSUME IInv, isSatState, Critical
               PROVE  \/ now - lastSufficient <= CheckInterval
                      \/ now - lastSwitchTime <= CheckInterval
    BY DEF CriticalStretchBounded
  <2>1. /\ now \in Nat /\ nextCheck \in Nat /\ now <= nextCheck
        /\ lastSufficient \in 0..now /\ lastSwitchTime \in Nat
    BY DEF IInv, SInv, ScoreTypeOK, Mgr!TypeOK, BatteryOK, TimerRuns
  <2>2. switchingMode # "qos-based"
    BY EnergyAssumption DEF IInv, Critical
  <2>3. switchingMode = "energy-aware"
    BY <2>2 DEF IInv
  <2> QED BY <2>1, <2>3, IntervalType DEF IInv, SufficientSinceCheck
<1> QED BY Invariance, <1>1, PTL

(* The strategy's copies of the interface in use and of the time of the    *)
(* last switch agree with the manager's (performDecision).                 *)
THEOREM Mirrors == StrategiesSpec => []MirrorsManager
<1>1. IInv => MirrorsManager
  BY DEF IInv, SInv
<1> QED BY Invariance, <1>1, PTL

(* A satellite that has set is left within one check interval, however few *)
(* probes there are to judge it by (evaluateAndDecide).                    *)
THEOREM LostSatelliteLeft == StrategiesSpec => []LeavesLostSatellite
<1>1. IInv => LeavesLostSatellite
  BY OffInTime DEF IInv
<1> QED BY Invariance, <1>1, PTL

(* With both interfaces, bytes are charged to the one that carried them    *)
(* (receiveSignal).                                                        *)
THEOREM TruthfulBytes ==
  ASSUME BothInterfaces
  PROVE  StrategiesSpec => []TxFollowsCarrier
<1>1. IInv => TxFollowsCarrier
  BY DEF IInv, SInv
<1> QED BY Invariance, <1>1, PTL

(* What is not an evaluation concludes nothing and moves nobody.           *)
LEMMA OnlyEvaluations ==
  [StrategiesNext]_strategiesVars =>
    EvaluateQoS \/ EvaluateAndDecide \/ UNCHANGED <<outcomes, isSatState>>
<1> SUFFICES ASSUME [StrategiesNext]_strategiesVars, ~EvaluateQoS, ~EvaluateAndDecide
             PROVE  UNCHANGED <<outcomes, isSatState>>
  OBVIOUS
<1>1. \/ TimePasses \/ Traffic \/ StrategyFinish
      \/ UNCHANGED <<now, managerVars, finished, historyVars, strategyVars>>
  BY DEF StrategiesNext, QoSStep, QoSNext, EnergyStep, Next, Drain, ReceiveSignal,
         strategiesVars, vars
<1> QED BY <1>1, QuietStep

(* No evaluation counts a probe older than the window and one interval     *)
(* (cleanOldEvents).                                                       *)
THEOREM Staleness == StrategiesSpec => StalenessBounded
<1>1. IInv /\ [StrategiesNext]_strategiesVars =>
        [outcomes' # outcomes =>
           \A s \in Samples : now - probeHistory[s].txTime <= CutOff + CheckInterval]_outcomes
  <2> SUFFICES ASSUME IInv, [StrategiesNext]_strategiesVars, outcomes' # outcomes
               PROVE  \A s \in Samples : now - probeHistory[s].txTime <= CutOff + CheckInterval
    OBVIOUS
  <2>1. now = nextCheck
    BY OnlyEvaluations DEF EvaluateQoS, EvaluateAndDecide
  <2> QED BY <2>1, SamplesFresh DEF IInv
<1> QED BY Invariance, <1>1, PTL DEF StrategiesSpec, StalenessBounded, strategiesVars

(* A voluntary switch has waited for the hold time and for enough          *)
(* degradations, and never leads to a satellite out of sight               *)
(* (performDecision).                                                      *)
THEOREM EarnedSwitches == StrategiesSpec => VoluntarySwitchIsEarned
<1>1. IInv /\ [StrategiesNext]_strategiesVars =>
        [Voluntary =>
           /\ SinceLastSwitch >= MinHold
           /\ Cardinality(DegradedSinceReset) + 1 >= MinDegradation
           /\ isSatState' => visible]_<<outcomes, isSatState>>
  <2> SUFFICES ASSUME IInv, [StrategiesNext]_strategiesVars PROVE EarnedIfVoluntary
    BY DEF EarnedIfVoluntary
  <2>1. CASE EvaluateQoS
    <3>1. Decides(QoSScore)
      BY <2>1 DEF EvaluateQoS, Decides
    <3> QED BY <2>1, <3>1, DecisionStep DEF EvaluateQoS, IInv
  <2>2. CASE EvaluateAndDecide
    <3>1. Emergency => currentInterfaceName = "satellite"
      BY DEF IInv, SInv, ScoreTypeOK, Interface, Emergency
    <3>2. Decides(UtilityScore)
      BY <2>2, <3>1 DEF EvaluateAndDecide, Decides
    <3> QED BY <2>2, <3>2, DecisionStep DEF EvaluateAndDecide, IInv
  <2>3. CASE UNCHANGED <<outcomes, isSatState>>
    BY <2>3 DEF EarnedIfVoluntary, Voluntary
  <2> QED BY <2>1, <2>2, <2>3, OnlyEvaluations
<1> QED BY Invariance, <1>1, PTL DEF StrategiesSpec, VoluntarySwitchIsEarned, strategiesVars

(* Where the cellular interface is not the dearer one, a vehicle only goes *)
(* back to the satellite when its QoS is too poor to make up for what the  *)
(* energy's share leaves open (computeUtilityScore, performDecision).      *)
ReturnsForPoorQoS ==
  [][switchingMode = "energy-aware" /\ ~isSatState /\ isSatState' =>
       1000 * WEnergy + WQoS * QoSScore < MinScore * (WEnergy + WQoS)]_isSatState

(* What makes a vehicle go back to the satellite, for any weights.         *)
THEOREM Return ==
  ASSUME CellCost <= SatCost
  PROVE  StrategiesSpec => ReturnsForPoorQoS
<1> DEFINE Poor == 1000 * WEnergy + WQoS * QoSScore < MinScore * (WEnergy + WQoS)
<1>1. ASSUME IInv, [StrategiesNext]_strategiesVars, switchingMode = "energy-aware",
             ~isSatState, isSatState'
      PROVE  Poor
  <2>1. EvaluateAndDecide
    <3>1. ~(TimePasses \/ Traffic \/ StrategyFinish)
      BY <1>1, QuietStep
    <3>2. Next
      BY <1>1 DEF StrategiesNext, EnergyStep, strategiesVars, vars, managerVars
    <3> QED BY <3>1, <3>2 DEF Next, Drain, ReceiveSignal
  <2>2. /\ ScoreTypeOK /\ Chronological /\ residual \in Nat
        /\ currentInterfaceName \in Interface /\ currentInterfaceName = "cellular"
    <3>1. ScoreTypeOK /\ Chronological /\ MirrorsManager /\ residual \in 0..NominalEnergy
      BY <1>1 DEF IInv, SInv, BatteryOK
    <3>2. currentInterfaceName \in Interface
      BY <3>1 DEF ScoreTypeOK
    <3>3. currentInterfaceName # "satellite"
      BY <1>1, <3>1 DEF MirrorsManager
    <3> QED BY <3>1, <3>2, <3>3, EnergyAssumption DEF Interface
  <2>3. PerformDecision(UtilityScore)
    BY <2>1, <2>2 DEF EvaluateAndDecide, Emergency
  <2>4. UtilityScore < MinScore
    <3>1. ~SatelliteLost
      BY <2>2 DEF SatelliteLost
    <3>2. \A n : ~Stay(n)
      BY <1>1 DEF Stay, managerVars
    <3> QED BY <2>3, <3>1, <3>2 DEF PerformDecision
  <2>5. QoSScore \in 0..1000
    BY <2>2, QoSScoreBounds
  <2>6. /\ MinScore \in Nat /\ WEnergy \in Nat /\ WQoS \in Nat
    BY ScoreAssumption, EnergyAssumption
  <2>7. UtilityScore \in Int
    BY <2>2, <2>5, UtilityScoreBounds
  <2>8. ~(MinScore * (WEnergy + WQoS) <= 1000 * WEnergy + WQoS * QoSScore)
    BY <2>2, <2>4, <2>5, <2>6, <2>7, UtilityScoreBounds
  <2>9. /\ MinScore * (WEnergy + WQoS) \in Int
        /\ 1000 * WEnergy + WQoS * QoSScore \in Int
    BY <2>5, <2>6
  <2> QED BY <2>8, <2>9
<1>2. IInv /\ [StrategiesNext]_strategiesVars =>
        [switchingMode = "energy-aware" /\ ~isSatState /\ isSatState' => Poor]_isSatState
  BY <1>1
<1> QED BY Invariance, <1>2, PTL DEF StrategiesSpec, ReturnsForPoorQoS, strategiesVars

(* With an energy weight that alone reaches the threshold, as with the     *)
(* default parameters, cellular is for good.                               *)
CellularForGood ==
  [][switchingMode = "energy-aware" /\ ~isSatState => ~isSatState']_isSatState

(* No poor QoS brings a vehicle back whose score it cannot push below the  *)
(* threshold (HybridInterfaceManager.ned: minUtilityScore, weightEnergy).  *)
THEOREM NoReturn ==
  ASSUME CellCost <= SatCost, MinScore * (WEnergy + WQoS) <= 1000 * WEnergy
  PROVE  StrategiesSpec => CellularForGood
<1>1. IInv => QoSScore \in 0..1000
  BY QoSScoreBounds DEF IInv, SInv
<1>2. ASSUME QoSScore \in 0..1000
      PROVE  ~(1000 * WEnergy + WQoS * QoSScore < MinScore * (WEnergy + WQoS))
  <2>1. WQoS \in Nat /\ WEnergy \in Nat /\ MinScore \in Nat
    BY ScoreAssumption, EnergyAssumption
  <2>2. WQoS * QoSScore \in Nat /\ MinScore * (WEnergy + WQoS) \in Nat
    BY <1>2, <2>1
  <2> QED BY <2>1, <2>2
<1>3. IInv /\ [switchingMode = "energy-aware" /\ ~isSatState /\ isSatState' =>
                 1000 * WEnergy + WQoS * QoSScore < MinScore * (WEnergy + WQoS)]_isSatState
      => [switchingMode = "energy-aware" /\ ~isSatState => ~isSatState']_isSatState
  BY <1>1, <1>2
<1> QED BY Invariance, Return, <1>3, PTL DEF ReturnsForPoorQoS, CellularForGood

-----------------------------------------------------------------------------
(* The manager under the strategies.                                       *)

Manager == INSTANCE InterfaceManager_proofs

(* InterfaceManager's assumption is part of this module's.                 *)
ManagerAssumed ==
  /\ Births \subseteq Nat
  /\ MaxTime \in Nat /\ MaxSwitches \in Nat
  /\ StartWithSatellite \in BOOLEAN /\ HasSat \in BOOLEAN /\ HasCell \in BOOLEAN

(* A decision reaches the manager as one call, or as none.                 *)
LEMMA DecisionServed ==
  ASSUME NEW score, Decides(score), ~finished, UNCHANGED <<now, finished, historyVars>>
  PROVE  [Manager!OpenNext]_Manager!vars
<1>1. ASSUME NEW interface, SwitchTo(interface)
      PROVE  [Manager!OpenNext]_Manager!vars
  <2> DEFINE sat == interface = "satellite"
  <2>1. sat \in BOOLEAN /\ Manager!PerformSwitch(sat)
    BY <1>1 DEF SwitchTo, Mgr!PerformSwitch, Manager!PerformSwitch, Mgr!managerVars,
                Manager!managerVars, Mgr!CompleteSwitch, Manager!CompleteSwitch,
                Mgr!UpdateInterfaceStates, Manager!UpdateInterfaceStates,
                Mgr!SinceSwitch, Manager!SinceSwitch
  <2>2. Manager!Serve(sat)
    BY <2>1 DEF Manager!Serve, Manager!historyVars, historyVars
  <2> QED BY <2>1, <2>2 DEF Manager!OpenNext
<1>2. ASSUME NEW n, Stay(n)
      PROVE  UNCHANGED Manager!vars
  BY <1>2 DEF Stay, managerVars, historyVars, Manager!vars, Manager!managerVars,
              Manager!historyVars
<1> QED BY <1>1, <1>2 DEF Decides, PerformDecision

(* Every other step of a strategy lets time pass, ends the run or leaves   *)
(* the manager alone.                                                      *)
LEMMA OtherStepServed ==
  TimePasses \/ Traffic \/ StrategyFinish
     \/ UNCHANGED <<now, managerVars, finished, historyVars, strategyVars>>
  => [Manager!OpenNext]_Manager!vars
<1>1. TimePasses => Manager!Tick
  BY DEF TimePasses, Mgr!Tick, Manager!Tick, Mgr!managerVars, Manager!managerVars
<1>2. StrategyFinish => Manager!Finish
  BY DEF StrategyFinish, Mgr!Finish, Manager!Finish, Mgr!FinishTotals, Manager!FinishTotals,
         Mgr!SinceSwitch, Manager!SinceSwitch, Mgr!historyVars, Manager!historyVars
<1>3. Traffic \/ UNCHANGED <<now, managerVars, finished, historyVars, strategyVars>>
      => UNCHANGED Manager!vars
  BY DEF Traffic, managerVars, historyVars, Manager!vars, Manager!managerVars,
         Manager!historyVars
<1> QED BY <1>1, <1>2, <1>3 DEF Manager!OpenNext

(* Whatever a score strategy does, the manager under it sees nothing but   *)
(* the calls it is specified for.                                          *)
THEOREM UsesManager == StrategiesSpec => Manager!OpenSpec
<1>1. StrategiesInit => Manager!Init
  BY DEF StrategiesInit, Init, StrategyInit, Mgr!Init, Manager!Init
<1>2. IInv /\ [StrategiesNext]_strategiesVars => [Manager!OpenNext]_Manager!vars
  <2> SUFFICES ASSUME IInv, [StrategiesNext]_strategiesVars
               PROVE  [Manager!OpenNext]_Manager!vars
    OBVIOUS
  <2>1. CASE EvaluateQoS
    BY <2>1, DecisionServed DEF EvaluateQoS, Decides
  <2>2. CASE EvaluateAndDecide
    <3>1. Emergency => currentInterfaceName = "satellite"
      BY DEF Emergency, IInv, SInv, ScoreTypeOK, Interface
    <3> QED BY <2>2, <3>1, DecisionServed DEF EvaluateAndDecide, Decides
  <2>3. CASE TimePasses \/ Traffic \/ StrategyFinish
    BY <2>3, OtherStepServed
  <2>4. CASE UNCHANGED strategiesVars
    BY <2>4, OtherStepServed DEF strategiesVars, vars
  <2> QED BY <2>1, <2>2, <2>3, <2>4
          DEF StrategiesNext, QoSStep, QoSNext, EnergyStep, Next, Drain, ReceiveSignal
<1> QED BY <1>1, <1>2, Invariance, PTL DEF StrategiesSpec, Manager!OpenSpec, strategiesVars

(* So the usage statistics of a vehicle under a score strategy are the     *)
(* times its carriers were on, its switches are hard, and the two links    *)
(* behave as LinkUsage promises (HybridInterfaceManager.cc: completeSwitch *)
(* and finish), whatever the traffic, the sky and the battery do.          *)
THEOREM ManagerKeepsPromises ==
  StrategiesSpec =>
    [](Manager!UsageMatchesCarrier /\ Manager!OneCarrier) /\ Manager!ImplementsUsage
<1>1. ManagerAssumed
  BY ScoreAssumption DEF ManagerAssumed
<1>2. Manager!OpenSpec => []Manager!IInv
  BY <1>1, Manager!OpenInvariance, PTL DEF ManagerAssumed
<1>3. Manager!IInv => Manager!UsageMatchesCarrier /\ Manager!OneCarrier
  BY <1>1 DEF ManagerAssumed, Manager!IInv, Manager!TypeOK, Manager!CarriersFollowState,
              Manager!OneCarrier
<1>4. Manager!OpenSpec => Manager!ImplementsUsage
  BY <1>1, Manager!OpenRefinement, PTL DEF ManagerAssumed
<1> QED BY UsesManager, <1>2, <1>3, <1>4, PTL
=============================================================================
