--------------------------- MODULE QoSBasedStrategy ---------------------------
(* The qos-based strategy on top of the manager.  Its operators are named  *)
(* apart from those of the energy-aware strategy, which ScoreStrategies    *)
(* puts beside them.                                                       *)
EXTENDS ScoreStrategy

qosVars == <<now, managerVars, finished, historyVars, strategyVars>>

(* handleMessage: evaluateAndDecide, then the timer is set again.  The     *)
(* statistics precede cleanOldEvents, so Samples reads the old history.    *)
EvaluateQoS ==
  /\ ~finished
  /\ now = nextCheck
  /\ CleanOldEvents
  /\ PerformDecision(QoSScore)
  /\ nextCheck' = now + CheckInterval
  /\ UNCHANGED <<now, finished, historyVars, txBytes, rxBytes, sent, data,
                 inFlight, txOnCarrier, envVars>>

QoSInit == StrategyInit

QoSNext == TimePasses \/ Traffic \/ EvaluateQoS \/ StrategyFinish

QoSSpec == QoSInit /\ [][QoSNext]_qosVars
=============================================================================
