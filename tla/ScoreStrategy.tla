---------------------------- MODULE ScoreStrategy ----------------------------
(***************************************************************************)
(* What QoSBasedStrategy and EnergyAwareStrategy share: the probe history  *)
(* fed by the application's signals, the statistics of the interface in    *)
(* use, the QoS score, and the decision ladder of performDecision.  Both   *)
(* classes carry the same code; this module is translated from             *)
(* QoSBasedStrategy.cc.                                                    *)
(*                                                                         *)
(* Scores are in thousandths, each weighted term rounded down.  A packet   *)
(* counts one byte.  The averages live only inside one evaluation, which   *)
(* recomputes them first, so they are operators and not state.             *)
(***************************************************************************)
EXTENDS Integers, Sequences, FiniteSetsExt

CONSTANTS
  Births, MaxTime, MaxSwitches, StartWithSatellite, HasSat, HasCell, \* manager
  CheckInterval, CutOff,   \* qosCheckInterval, qosCutOffInterval
  MinHold, MinDegradation, \* minHoldTime, minDegradationCount
  MinScore,                \* minQosScore or minUtilityScore, in thousandths
  MaxRTT, MaxJitter,       \* maxAcceptableRTT, maxAcceptableJitter
  MinPDR,                  \* minAcceptablePDR, in thousandths
  WRTT, WPDR, WJitter,     \* the three weights
  MaxProbes, MaxData       \* bounds: probes and other packets sent

ASSUME ScoreAssumption ==
  /\ Births \subseteq Nat /\ {MaxTime, MaxSwitches} \subseteq Nat
  /\ {StartWithSatellite, HasSat, HasCell} \subseteq BOOLEAN
  /\ {CheckInterval, MaxRTT, MaxJitter, MinPDR} \subseteq Nat \ {0}
  /\ {CutOff, MinHold, MinDegradation, MinScore, MaxProbes, MaxData} \subseteq Nat
  /\ {WRTT, WPDR, WJitter} \subseteq Nat /\ WRTT + WPDR + WJitter > 0

Interface == {"satellite", "cellular"}
Seqs == 0..(MaxProbes - 1)

VARIABLES
  now, isSatState, satCarrier, cellCarrier, satTotalTime, cellTotalTime,
  lastSwitchTime, totalSwitchesCount, finished, birth, satOnTime, cellOnTime

Mgr == INSTANCE InterfaceManager

managerVars == <<isSatState, satCarrier, cellCarrier, satTotalTime, cellTotalTime,
                 lastSwitchTime, totalSwitchesCount>>
historyVars == <<birth, satOnTime, cellOnTime>>

VARIABLES
  currentInterfaceName,
  strategyLastSwitchTime,    \* the strategy's own lastSwitchTime
  consecutiveDegradations,
  probeHistory,              \* sequence number -> probe, for those remembered
  txBytes, rxBytes,          \* the four byte accumulators
  nextCheck,                 \* when the evaluation timer fires
  visible,                   \* external: isSatelliteVisible() right now
  sent, data,                \* external: probes and other packets sent so far
  inFlight,                  \* external: probes whose echo may still arrive
  lastVisible,               \* history: the last time with visible = TRUE
  txOnCarrier,               \* history: packets sent while each carrier was on
  outcomes                   \* history: what each evaluation concluded

decisionVars == <<currentInterfaceName, strategyLastSwitchTime,
                  consecutiveDegradations>>
trafficVars == <<probeHistory, txBytes, rxBytes, sent, data, inFlight, txOnCarrier>>
envVars == <<visible, lastVisible>>
strategyVars == <<decisionVars, trafficVars, envVars, nextCheck, outcomes>>

Probe == [txTime : Nat, rxTime : Nat, received : BOOLEAN, usedInterface : Interface]

(* initialize at INITSTAGE_APPLICATION_LAYER.  The strategy's              *)
(* lastSwitchTime starts at 0 whenever the vehicle is created.             *)
StrategyInit ==
  /\ Mgr!Init
  /\ currentInterfaceName = IF isSatState THEN "satellite" ELSE "cellular"
  /\ strategyLastSwitchTime = 0
  /\ consecutiveDegradations = 0
  /\ probeHistory = <<>>
  /\ txBytes = [i \in Interface |-> 0] /\ rxBytes = [i \in Interface |-> 0]
  /\ nextCheck = now + CheckInterval
  /\ visible \in BOOLEAN
  /\ lastVisible = now
  /\ sent = 0 /\ data = 0 /\ inFlight = {}
  /\ txOnCarrier = [i \in Interface |-> 0]
  /\ outcomes = <<>>

-----------------------------------------------------------------------------
(* receiveSignal.                                                          *)

CarrierOn == {i \in Interface : IF i = "satellite" THEN satCarrier ELSE cellCarrier}

CountTx ==
  /\ txBytes' = [txBytes EXCEPT ![currentInterfaceName] = @ + 1]
  /\ txOnCarrier' = [i \in Interface |->
       IF i \in CarrierOn THEN txOnCarrier[i] + 1 ELSE txOnCarrier[i]]

(* packetSent for a probe: remember it under its sequence number.          *)
ProbeSent ==
  /\ sent < MaxProbes
  /\ CountTx
  /\ probeHistory' = [s \in DOMAIN probeHistory \cup {sent} |->
       IF s = sent THEN [txTime |-> now, rxTime |-> 0, received |-> FALSE,
                         usedInterface |-> currentInterfaceName]
                   ELSE probeHistory[s]]
  /\ sent' = sent + 1
  /\ inFlight' = inFlight \cup {sent}
  /\ UNCHANGED <<rxBytes, data>>

(* packetSent for any other packet.                                        *)
DataSent ==
  /\ data < MaxData
  /\ CountTx
  /\ data' = data + 1
  /\ UNCHANGED <<probeHistory, rxBytes, sent, inFlight>>

(* Mutant: an echo of a forgotten probe inserts a default record.          *)
ProbeInserted(s) ==
  /\ s \in inFlight
  /\ rxBytes' = [rxBytes EXCEPT ![currentInterfaceName] = @ + 1]
  /\ probeHistory' = [r \in DOMAIN probeHistory \cup {s} |->
       IF r # s THEN probeHistory[r]
       ELSE [txTime |-> IF s \in DOMAIN probeHistory THEN probeHistory[s].txTime ELSE 0,
             rxTime |-> now, received |-> TRUE,
             usedInterface |-> IF s \in DOMAIN probeHistory
                               THEN probeHistory[s].usedInterface ELSE ""]]
  /\ inFlight' = inFlight \ {s}
  /\ UNCHANGED <<txBytes, sent, data, txOnCarrier>>

(* packetReceived for the echo of a probe, however late: a probe that has  *)
(* been cleaned away is not found.                                         *)
ProbeReceived(s) ==
  /\ s \in inFlight
  /\ rxBytes' = [rxBytes EXCEPT ![currentInterfaceName] = @ + 1]
  /\ probeHistory' = IF s \in DOMAIN probeHistory
                     THEN [probeHistory EXCEPT ![s].rxTime = now,
                                               ![s].received = TRUE]
                     ELSE probeHistory
  /\ inFlight' = inFlight \ {s}
  /\ UNCHANGED <<txBytes, sent, data, txOnCarrier>>

-----------------------------------------------------------------------------
(* The statistics of the interface in use.                                 *)

Samples == {s \in DOMAIN probeHistory :
              probeHistory[s].usedInterface = currentInterfaceName}
Received == {s \in Samples : probeHistory[s].received}

RTT(s) == probeHistory[s].rxTime - probeHistory[s].txTime

(* Probes answered in sequence order, neighbours for the jitter.           *)
Neighbours ==
  {p \in Received \X Received :
     p[1] < p[2] /\ \A r \in Received : ~(p[1] < r /\ r < p[2])}

Abs(n) == IF n < 0 THEN -n ELSE n
AtMost(n, cap) == IF n < cap THEN n ELSE cap

(* calculateAvgRTT, calculateAvgJitter and calculateAvgPDR, the first two  *)
(* already divided by their acceptable maximum, all in thousandths.        *)
AvgRTT ==
  IF Received = {} THEN (IF Samples = {} THEN 0 ELSE 2000)
  ELSE (1000 * MapThenSumSet(RTT, Received)) \div (Cardinality(Received) * MaxRTT)

AvgJitter ==
  IF Cardinality(Received) < 2 THEN 0
  ELSE (1000 * MapThenSumSet(LAMBDA p : Abs(RTT(p[2]) - RTT(p[1])), Neighbours))
         \div ((Cardinality(Received) - 1) * MaxJitter)

AvgPDR ==
  IF Samples = {} THEN 1000 ELSE (1000 * Cardinality(Received)) \div Cardinality(Samples)

(* computeQoSScore: 0 without enough samples or without any delivery.      *)
QoSScore ==
  IF Cardinality(Samples) < 2 \/ AvgPDR = 0 THEN 0
  ELSE (  (1000 - AtMost(AvgRTT, 1000)) * WRTT
        + AtMost((1000 * AvgPDR) \div MinPDR, 1000) * WPDR
        + (1000 - AtMost(AvgJitter, 1000)) * WJitter) \div (WRTT + WPDR + WJitter)

(* Mutant: only probes that were answered are ever dropped.                *)
CleanAnswered ==
  LET kept == {s \in DOMAIN probeHistory :
                 ~probeHistory[s].received \/ probeHistory[s].txTime >= now - CutOff}
  IN probeHistory' = [s \in kept |-> probeHistory[s]]

(* cleanOldEvents, which evaluateAndDecide calls after the statistics.     *)
CleanOldEvents ==
  LET kept == {s \in DOMAIN probeHistory : probeHistory[s].txTime >= now - CutOff}
  IN probeHistory' = [s \in kept |-> probeHistory[s]]

-----------------------------------------------------------------------------
(* performDecision.                                                        *)

Other == IF currentInterfaceName = "satellite" THEN "cellular" ELSE "satellite"

(* Mutants: the strategy's copy of the switch time, or of the interface in *)
(* use, is not updated.                                                    *)
SwitchForgetsTime(interface) ==
  /\ Mgr!PerformSwitch(interface = "satellite")
  /\ currentInterfaceName' = interface
  /\ consecutiveDegradations' = 0
  /\ UNCHANGED strategyLastSwitchTime

SwitchForgetsName(interface) ==
  /\ Mgr!PerformSwitch(interface = "satellite")
  /\ strategyLastSwitchTime' = now
  /\ consecutiveDegradations' = 0
  /\ UNCHANGED currentInterfaceName

(* Mutant: the degradations counted before a switch count after it too.    *)
SwitchForgetsCount(interface) ==
  /\ Mgr!PerformSwitch(interface = "satellite")
  /\ currentInterfaceName' = interface
  /\ strategyLastSwitchTime' = now
  /\ UNCHANGED consecutiveDegradations

SwitchTo(interface) ==
  /\ Mgr!PerformSwitch(interface = "satellite")
  /\ currentInterfaceName' = interface
  /\ strategyLastSwitchTime' = now
  /\ consecutiveDegradations' = 0

Stay(degradations) ==
  /\ consecutiveDegradations' = degradations
  /\ UNCHANGED <<managerVars, currentInterfaceName, strategyLastSwitchTime>>

Conclude(outcome) == outcomes' = Append(outcomes, outcome)

(* Mutant: the samples are counted before the satellite is looked for.     *)
SatelliteLostIfSampled ==
  currentInterfaceName = "satellite" /\ ~visible /\ Cardinality(Samples) >= 2

(* Priority 1: the satellite in use has set.                               *)
SatelliteLost == currentInterfaceName = "satellite" /\ ~visible

(* Priority 2: too few samples leave everything as it is, the counter too. *)
TooFewSamples == Cardinality(Samples) < 2

(* Priority 3: enough degradations, hold time over, other side reachable.  *)
MaySwitch ==
  /\ consecutiveDegradations + 1 >= MinDegradation
  /\ now - strategyLastSwitchTime >= MinHold
  /\ Other = "satellite" => visible

PerformDecision(score) ==
  \/ /\ SatelliteLost
     /\ SwitchTo("cellular") /\ Conclude("lost")
  \/ /\ ~SatelliteLost /\ TooFewSamples
     /\ Stay(consecutiveDegradations) /\ Conclude("skipped")
  \/ /\ ~SatelliteLost /\ ~TooFewSamples /\ score < MinScore
     /\ IF MaySwitch
        THEN SwitchTo(Other) /\ Conclude("switched")
        ELSE Stay(consecutiveDegradations + 1) /\ Conclude("degraded")
  \/ /\ ~SatelliteLost /\ ~TooFewSamples /\ score >= MinScore
     /\ Stay(0) /\ Conclude("good")

-----------------------------------------------------------------------------
(* The environment: time never passes the evaluation timer, and the        *)
(* satellite rises and sets.                                               *)
TimePasses ==
  /\ now < nextCheck
  /\ Mgr!Tick
  /\ visible' \in BOOLEAN
  /\ lastVisible' = IF visible' THEN now' ELSE lastVisible
  /\ UNCHANGED <<decisionVars, trafficVars, nextCheck, outcomes>>

(* One application signal.                                                 *)
Traffic ==
  /\ ~finished
  /\ ProbeSent \/ DataSent \/ \E s \in Seqs : ProbeReceived(s)
  /\ UNCHANGED <<now, managerVars, finished, historyVars,
                 decisionVars, envVars, nextCheck, outcomes>>

(* The manager's finish; the strategy's only emits statistics.             *)
StrategyFinish == Mgr!Finish /\ UNCHANGED strategyVars

-----------------------------------------------------------------------------
(* Properties of every score strategy.                                     *)

(* Every variable has its type.                                            *)
ScoreTypeOK ==
  /\ Mgr!TypeOK
  /\ currentInterfaceName \in Interface
  /\ strategyLastSwitchTime \in 0..now
  /\ consecutiveDegradations \in Nat
  /\ DOMAIN probeHistory \subseteq 0..(sent - 1)
  /\ \A s \in DOMAIN probeHistory : probeHistory[s] \in Probe
  /\ txBytes \in [Interface -> Nat] /\ rxBytes \in [Interface -> Nat]
  /\ nextCheck \in Nat
  /\ visible \in BOOLEAN /\ lastVisible \in 0..now
  /\ sent \in 0..MaxProbes /\ data \in 0..MaxData /\ inFlight \subseteq Seqs
  /\ txOnCarrier \in [Interface -> Nat]
  /\ outcomes \in Seq({"lost", "critical", "skipped", "degraded", "switched", "good"})

(* The strategy keeps its own copy of the interface in use and of the last *)
(* switch; they never disagree with the manager's.                         *)
MirrorsManager ==
  /\ isSatState = (currentInterfaceName = "satellite")
  /\ totalSwitchesCount > 0 => strategyLastSwitchTime = lastSwitchTime

(* The bytes reported as transmitted over an interface are those handed    *)
(* over while that interface had the carrier.                              *)
TxFollowsCarrier == txBytes = txOnCarrier

(* A vehicle is off a satellite that has set within one check interval.    *)
LeavesLostSatellite == isSatState => now - lastVisible <= CheckInterval

(* No evaluation counts a probe older than the window plus one interval:   *)
(* the history is cleaned after the statistics, so what one evaluation     *)
(* leaves behind the next still counts.                                    *)
StalenessBounded ==
  [][outcomes' # outcomes =>
       \A s \in Samples : now - probeHistory[s].txTime <= CutOff + CheckInterval]_outcomes

(* A switch forced neither by a lost satellite nor by the battery waits    *)
(* for the hold time since the last switch, and for MinDegradation         *)
(* evaluations, itself the last, that found the score too low since the    *)
(* last switch of any kind or the last good evaluation.  The first hold    *)
(* time counts from the start of the simulation, not from the vehicle's    *)
(* creation: that is where the strategy's lastSwitchTime starts.           *)
DegradedSinceReset ==
  {i \in 1..Len(outcomes) :
     /\ outcomes[i] = "degraded"
     /\ \A j \in i..Len(outcomes) :
          outcomes[j] \notin {"lost", "critical", "switched", "good"}}

Voluntary ==
  isSatState' # isSatState /\ outcomes'[Len(outcomes')] \notin {"lost", "critical"}

SinceLastSwitch == IF totalSwitchesCount > 0 THEN now - lastSwitchTime ELSE now

VoluntarySwitchIsEarned ==
  [][Voluntary =>
       /\ SinceLastSwitch >= MinHold
       /\ Cardinality(DegradedSinceReset) + 1 >= MinDegradation
       /\ isSatState' => visible]_<<outcomes, isSatState>>

(* What QoSBasedStrategy.h says of cutOffInterval, "time window for        *)
(* measurements": an evaluation counts only probes inside the window.      *)
MeasuresInsideWindow ==
  [][outcomes' # outcomes =>
       \A s \in Samples : now - probeHistory[s].txTime <= CutOff]_outcomes
=============================================================================
