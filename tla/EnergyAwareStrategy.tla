-------------------------- MODULE EnergyAwareStrategy --------------------------
(* The energy-aware strategy: the score is a utility that mixes QoS with   *)
(* the battery and the price per byte, and a critical battery forces the   *)
(* vehicle to cellular.                                                    *)
EXTENDS ScoreStrategy

CONSTANTS
  NominalEnergy, CriticalEnergy,  \* nominal capacity, criticalEnergyThreshold
  SatCost, CellCost,              \* satellite-, cellularEnergyCostPerByte
  WEnergy, WQoS                   \* weightEnergy, weightQos

ASSUME EnergyAssumption ==
  /\ {NominalEnergy, SatCost, CellCost} \subseteq Nat \ {0}
  /\ {CriticalEnergy, WEnergy, WQoS} \subseteq Nat /\ WEnergy + WQoS > 0

VARIABLES
  residual,       \* external: the residual energy of the battery
  lastSufficient  \* history: the last time the battery was not critical

energyVars == <<residual, lastSufficient>>
vars == <<now, managerVars, finished, historyVars, strategyVars, energyVars>>

(* computeEnergyEfficiency, in thousandths: the cheaper interface has 1;   *)
(* the dearer one approaches its price ratio as the battery empties.       *)
EnergyEfficiency ==
  LET cost   == IF currentInterfaceName = "satellite" THEN SatCost ELSE CellCost
      static == (1000 * AtMost(SatCost, CellCost)) \div cost
  IN static + ((1000 - static) * AtMost(residual, NominalEnergy)) \div NominalEnergy

UtilityScore ==
  (WEnergy * EnergyEfficiency + WQoS * QoSScore) \div (WEnergy + WQoS)

Critical == residual < CriticalEnergy

(* Mutant: the emergency waits for samples like any other decision.        *)
EmergencyIfSampled ==
  Critical /\ currentInterfaceName # "cellular" /\ ~TooFewSamples

Emergency == Critical /\ currentInterfaceName # "cellular"

(* evaluateAndDecide: the emergency check comes before performDecision.    *)
EvaluateAndDecide ==
  /\ ~finished
  /\ now = nextCheck
  /\ CleanOldEvents
  /\ IF Emergency
     THEN SwitchTo("cellular") /\ Conclude("critical")
     ELSE PerformDecision(UtilityScore)
  /\ nextCheck' = now + CheckInterval
  /\ UNCHANGED <<now, finished, historyVars, txBytes, rxBytes, sent, data,
                 inFlight, txOnCarrier, envVars, energyVars>>

Init ==
  /\ StrategyInit
  /\ residual = NominalEnergy
  /\ lastSufficient = now

(* The radios draw on the battery as time passes.                          *)
Drain ==
  /\ TimePasses
  /\ residual' \in {residual, residual - 1} \cap Nat
  /\ lastSufficient' = IF residual' >= CriticalEnergy THEN now' ELSE lastSufficient

(* receiveSignal, as in the qos-based strategy.                            *)
ReceiveSignal == Traffic /\ UNCHANGED energyVars

Next ==
  \/ Drain
  \/ ReceiveSignal
  \/ EvaluateAndDecide
  \/ StrategyFinish /\ UNCHANGED energyVars

Spec == Init /\ [][Next]_vars

-----------------------------------------------------------------------------
(* Properties.                                                             *)

(* Every variable has its type, and both scores their range, whatever was  *)
(* answered when and however empty the battery is.                         *)
EnergyTypeOK ==
  /\ ScoreTypeOK
  /\ residual \in 0..NominalEnergy
  /\ lastSufficient \in 0..now
  /\ QoSScore \in 0..1000 /\ UtilityScore \in 0..1000

(* A vehicle with a critical battery is off the satellite within one check *)
(* interval of the battery becoming critical, or of the strategy having    *)
(* put it on the satellite all the same.                                   *)
CriticalStretchBounded ==
  isSatState /\ Critical =>
    \/ now - lastSufficient <= CheckInterval
    \/ now - lastSwitchTime <= CheckInterval

(* What evaluateAndDecide's comment says of the emergency check, "if       *)
(* energy is critically low, switch to cellular immediately": no           *)
(* evaluation with a critical battery leaves the vehicle on the satellite. *)
CriticalMeansCellular ==
  [][outcomes' # outcomes /\ Critical => ~isSatState']_outcomes
=============================================================================
