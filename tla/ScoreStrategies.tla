--------------------------- MODULE ScoreStrategies ---------------------------
(***************************************************************************)
(* Both score strategies side by side, as createStrategy chooses one of    *)
(* them for a vehicle: everything they share is checked for both.  A       *)
(* vehicle with the qos-based strategy has no use for its battery.         *)
(***************************************************************************)
EXTENDS EnergyAwareStrategy, QoSBasedStrategy

CONSTANTS MaxQoSTraffic, MaxEnergyTraffic \* bounds: packets sent under each strategy

ASSUME {MaxQoSTraffic, MaxEnergyTraffic} \subseteq Nat

VARIABLE switchingMode

StrategiesInit ==
  /\ Init
  /\ switchingMode \in {"qos-based", "energy-aware"}

QoSStep == QoSNext /\ sent' + data' <= MaxQoSTraffic /\ UNCHANGED energyVars

EnergyStep == Next /\ sent' + data' <= MaxEnergyTraffic

StrategiesNext ==
  /\ \/ switchingMode = "qos-based" /\ QoSStep
     \/ switchingMode = "energy-aware" /\ EnergyStep
  /\ UNCHANGED switchingMode

StrategiesSpec == StrategiesInit /\ [][StrategiesNext]_<<vars, switchingMode>>
=============================================================================
