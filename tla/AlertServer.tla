------------------------------ MODULE AlertServer ------------------------------
(***************************************************************************)
(* AlertServerApp: every AlertTriggerPacket is rebroadcast, one packet per *)
(* vehicle, through a queue that a timer drains one packet per Stagger.    *)
(*                                                                         *)
(* Time is relative: sendTimer counts down to its event, and the           *)
(* history's clocks stop at the largest value anybody asks about, so the   *)
(* model runs on without a last instant.  A tick is a fraction of a        *)
(* millisecond.  An address is whatever the vehicle's active interface     *)
(* has; switches, exits and reconfigurations change it under the server.   *)
(***************************************************************************)
EXTENDS Integers, Sequences, FiniteSets

CONSTANTS
  N,            \* bound: vehicles of the network, visited in this order
  MaxAddr,      \* bound: addresses in use
  Stagger,      \* STAGGER_MS, in ticks
  Periods,      \* external: least distances between two triggers' arrivals
  MaxTriggers,  \* bound: triggers the incident vehicle sends
  MaxRebinds    \* bound: changes of a vehicle's active address

ASSUME AlertAssumption ==
  /\ {N, Stagger} \subseteq Nat \ {0}
  /\ {MaxAddr, MaxTriggers, MaxRebinds} \cup Periods \subseteq Nat
  /\ N <= MaxAddr

Vehicle == 1..N
Source  == 1  \* node[0], the incident vehicle
Addr    == 1..MaxAddr
Unspecified == 0
Off     == -1 \* a timer that is not scheduled

VARIABLES
  period,         \* external: how fast triggers arrive, one of Periods
  active,         \* vehicle -> address of its active interface
  created,        \* triggers sent so far; a trigger's creation time is its number
  inFlight,       \* external: triggers on their way, each with its source address
  pendingAlerts,  \* the queue
  sendTimer,      \* ticks until the timer fires, or Off
  numSent,
  rebinds,        \* counts Rebind for its bound
  sinceSend, sinceTrigger,  \* history: ticks since the last send and arrival
  enqueued, sentLog,        \* history: all that entered the queue, all that was sent
  ages            \* history: ticks each queued alert has waited

serverVars  == <<pendingAlerts, sendTimer, numSent>>
networkVars == <<period, active, created, inFlight, rebinds>>
clockVars   == <<sinceSend, sinceTrigger>>
logVars     == <<enqueued, sentLog, ages>>
vars == <<serverVars, networkVars, clockVars, logVars>>

(* At first the configurator has given some vehicles an address.           *)
Init ==
  /\ period \in Periods
  /\ \E configured \in Vehicle :
       active = [v \in Vehicle |-> IF v <= configured THEN v ELSE Unspecified]
  /\ created = 0 /\ inFlight = {}
  /\ pendingAlerts = <<>> /\ sendTimer = Off /\ numSent = 0
  /\ rebinds = 0
  /\ sinceSend = Stagger /\ sinceTrigger = period
  /\ enqueued = <<>> /\ sentLog = <<>> /\ ages = <<>>

-----------------------------------------------------------------------------
(* The network.                                                            *)

(* The active interface of v, or its address, changes.                     *)
Rebind(v) ==
  /\ rebinds < MaxRebinds
  /\ rebinds' = rebinds + 1
  /\ \E a \in (Addr \ {active[w] : w \in Vehicle}) \cup {Unspecified} :
       active' = [active EXCEPT ![v] = a]
  /\ UNCHANGED <<period, created, inFlight, serverVars, clockVars, logVars>>

(* The incident vehicle sends a trigger from the address it has now.       *)
SendTrigger ==
  /\ created < MaxTriggers
  /\ active[Source] # Unspecified
  /\ created' = created + 1
  /\ inFlight' = inFlight \cup {[time |-> created', src |-> active[Source]]}
  /\ UNCHANGED <<period, active, rebinds, serverVars, clockVars, logVars>>

Lose(trigger) ==
  /\ trigger \in inFlight
  /\ inFlight' = inFlight \ {trigger}
  /\ UNCHANGED <<period, active, created, rebinds, serverVars, clockVars, logVars>>

-----------------------------------------------------------------------------
(* The server.                                                             *)

(* Mutant: a vehicle without an address is alerted all the same.           *)
ReachableUnresolved(trigger) == {v \in Vehicle : active[v] # trigger.src}

(* resolveNodeDestAddr for every node, skipping those without an address   *)
(* and the one that equals the trigger's source address.                   *)
Reachable(trigger) ==
  {v \in Vehicle : active[v] # Unspecified /\ active[v] # trigger.src}

(* SubmoduleIterator visits the nodes in one order; there is one such      *)
(* sequence for every set of vehicles.                                     *)
InNetworkOrder(vs) ==
  {s \in [1..Cardinality(vs) -> vs] : \A i, j \in DOMAIN s : i < j => s[i] < s[j]}

(* Every alert of a broadcast carries the same sequence number.            *)
Alerts(trigger, visited) ==
  [i \in DOMAIN visited |-> [destAddr |-> active[visited[i]],
                             triggerCreationTime |-> trigger.time,
                             sequenceNumber |-> numSent]]

(* Mutant: the new alerts overtake those that wait.                        *)
EnqueueFront(alerts) == alerts \o pendingAlerts

Enqueue(alerts) == pendingAlerts \o alerts

(* Mutants: a broadcast restarts the interval, or fires a timer that runs. *)
RestartStagger == Stagger
FireNow == 0

(* broadcastAlert's timer: at once, unless it is already set.              *)
ArmedAt == IF sendTimer = Off THEN 0 ELSE sendTimer

(* processPacket of a trigger and broadcastAlert: queue the alerts; set    *)
(* the timer to fire at once unless it is already set.                     *)
BroadcastAlert(trigger) ==
  /\ trigger \in inFlight
  /\ sinceTrigger >= period
  /\ inFlight' = inFlight \ {trigger}
  /\ \E visited \in InNetworkOrder(Reachable(trigger)) :
       LET alerts == Alerts(trigger, visited)
       IN  /\ pendingAlerts' = Enqueue(alerts)
           /\ enqueued' = enqueued \o alerts
           /\ ages' = ages \o [i \in DOMAIN visited |-> 0]
  /\ sendTimer' = ArmedAt
  /\ sinceTrigger' = 0
  /\ UNCHANGED <<numSent, period, active, created, rebinds, sinceSend, sentLog>>

(* The timer fires with nothing queued (nobody was reachable).             *)
NothingPending ==
  /\ sendTimer = 0
  /\ pendingAlerts = <<>>
  /\ sendTimer' = Off
  /\ UNCHANGED <<pendingAlerts, numSent, networkVars, clockVars, logVars>>

(* Mutant: the last alert of the queue is not counted.                     *)
RearmOffByOne(rest) == IF Len(rest) > 1 THEN Stagger ELSE Off

(* sendNextPending's timer: again while something is queued.               *)
Rearm(rest) == IF rest # <<>> THEN Stagger ELSE Off

(* sendNextPending: send the oldest; set the timer if more are queued.     *)
SendNextPending ==
  /\ sendTimer = 0
  /\ pendingAlerts # <<>>
  /\ pendingAlerts' = Tail(pendingAlerts)
  /\ numSent' = numSent + 1
  /\ sendTimer' = Rearm(pendingAlerts')
  /\ sinceSend' = 0
  /\ sentLog' = Append(sentLog, Head(pendingAlerts))
  /\ ages' = Tail(ages)
  /\ UNCHANGED <<networkVars, sinceTrigger, enqueued>>

AtMost(n, cap) == IF n < cap THEN n ELSE cap

(* Bound: no alert waits longer than for all the others.                   *)
MaxAge == N * MaxTriggers * Stagger

(* Time passes, but never over an event that is due.                       *)
Tick ==
  /\ sendTimer # 0
  /\ sendTimer' = IF sendTimer = Off THEN Off ELSE sendTimer - 1
  /\ sinceSend' = AtMost(sinceSend + 1, Stagger)
  /\ sinceTrigger' = AtMost(sinceTrigger + 1, period)
  /\ ages' = [i \in 1..Len(ages) |-> AtMost(ages[i] + 1, MaxAge)]
  /\ UNCHANGED <<pendingAlerts, numSent, networkVars, enqueued, sentLog>>

Next ==
  \/ \E v \in Vehicle : Rebind(v)
  \/ SendTrigger
  \/ \E trigger \in inFlight : Lose(trigger) \/ BroadcastAlert(trigger)
  \/ NothingPending
  \/ SendNextPending
  \/ Tick

Spec == Init /\ [][Next]_vars

(* The simulation's event loop goes on: time advances and due events fire. *)
FairSpec == Spec /\ WF_vars(Tick) /\ WF_vars(NothingPending \/ SendNextPending)

-----------------------------------------------------------------------------
(* Properties.                                                             *)

Alert == [destAddr : Addr, triggerCreationTime : 1..MaxTriggers, sequenceNumber : Nat]

(* Every variable has its type.                                            *)
TypeOK ==
  /\ period \in Periods
  /\ active \in [Vehicle -> Addr \cup {Unspecified}]
  /\ created \in 0..MaxTriggers /\ rebinds \in 0..MaxRebinds
  /\ inFlight \subseteq [time : 1..MaxTriggers, src : Addr]
  /\ pendingAlerts \in Seq(Alert) /\ enqueued \in Seq(Alert) /\ sentLog \in Seq(Alert)
  /\ sendTimer \in -1..Stagger
  /\ numSent \in Nat
  /\ sinceSend \in 0..Stagger /\ sinceTrigger \in 0..period
  /\ ages \in Seq(Nat)

(* Nothing is lost, duplicated or reordered between trigger and socket:    *)
(* what was sent, followed by what is queued, is what the broadcasts       *)
(* enqueued, each alert with its own trigger's creation time.              *)
SentInOrderOnce == enqueued = sentLog \o pendingAlerts

(* No alert is stranded: while one is queued the timer is set, and it is   *)
(* never set for long without one.                                         *)
TimerGuardsQueue ==
  /\ pendingAlerts # <<>> => sendTimer # Off
  /\ pendingAlerts = <<>> => sendTimer \in {Off, 0}

(* When triggers arrive no faster than one broadcast drains, the queue     *)
(* never holds more than one broadcast and no alert waits longer than its  *)
(* predecessors take: the address it was resolved to is at most that old.  *)
Paced == period >= N * Stagger

BacklogBounded ==
  Paced => /\ Len(pendingAlerts) <= N
           /\ \A i \in 1..Len(ages) : ages[i] <= (N - 1) * Stagger

(* AlertServerApp.h calls STAGGER_MS the "stagger interval between         *)
(* consecutive AlertPackets".  Under the same pace it holds between any    *)
(* two sends; at any pace it holds inside one broadcast, but a trigger     *)
(* that arrives just after the queue ran dry is served at once.            *)
StaggerHolds ==
  [][Len(sentLog') > Len(sentLog) =>
       \/ sinceSend >= Stagger
       \/ ~Paced /\ Head(pendingAlerts).triggerCreationTime
                      # sentLog[Len(sentLog)].triggerCreationTime]_sentLog

(* Every queued alert is eventually sent.                                  *)
EventuallySent ==
  \A n \in 1..(N * MaxTriggers) : Len(enqueued) >= n ~> Len(sentLog) >= n
=============================================================================
