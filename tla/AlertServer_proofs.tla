-------------------------- MODULE AlertServer_proofs --------------------------
(***************************************************************************)
(* Theorems about the alert server, for any number of vehicles, triggers   *)
(* and changes of address, any stagger interval and any pace of triggers.  *)
(***************************************************************************)
EXTENDS AlertServer, SequenceTheorems, FiniteSetTheorems, TLAPS

(* Every queued alert has its age.                                         *)
Aging == Len(ages) = Len(pendingAlerts)

(* A trigger is received once: what is on its way has not been broadcast.  *)
Fresh ==
  /\ \A t \in inFlight : t.time <= created
  /\ \A t, u \in inFlight : t.time = u.time => t = u
  /\ \A i \in 1..Len(enqueued) : enqueued[i].triggerCreationTime <= created
  /\ \A t \in inFlight, i \in 1..Len(enqueued) : enqueued[i].triggerCreationTime # t.time

(* Under the pace of one broadcast the queue drains before the next one,   *)
(* and holds alerts of the last broadcast only.                            *)
Drains ==
  /\ Len(pendingAlerts) <= N
  /\ pendingAlerts # <<>> =>
       sinceTrigger + sendTimer + (Len(pendingAlerts) - 1) * Stagger <= (N - 1) * Stagger
  /\ \A i \in 1..Len(ages) : ages[i] <= sinceTrigger
  /\ pendingAlerts = <<>> => sinceSend >= Stagger \/ sinceTrigger <= sinceSend + (N - 1) * Stagger

(* The next send will keep the interval, or begins another broadcast.      *)
Staggered ==
  /\ sentLog = <<>> => sinceSend = Stagger
  /\ pendingAlerts # <<>> =>
       \/ sinceSend + sendTimer >= Stagger
       \/ /\ ~Paced /\ sentLog # <<>>
          /\ pendingAlerts[1].triggerCreationTime # sentLog[Len(sentLog)].triggerCreationTime

(* The inductive invariant.                                                *)
IInv ==
  /\ TypeOK
  /\ SentInOrderOnce
  /\ TimerGuardsQueue
  /\ Aging
  /\ Fresh
  /\ Paced => Drains
  /\ Staggered

-----------------------------------------------------------------------------
(* The constants.                                                          *)
LEMMA ConstantTypes ==
  /\ N \in Nat /\ N > 0 /\ Stagger \in Nat /\ Stagger > 0 /\ N <= MaxAddr
  /\ MaxAddr \in Nat /\ MaxTriggers \in Nat /\ MaxRebinds \in Nat /\ Periods \subseteq Nat
  BY AlertAssumption

(* One alert more takes one interval more.                                 *)
LEMMA Intervals ==
  ASSUME NEW n \in Int
  PROVE  /\ n * Stagger \in Int
         /\ (n - 1) * Stagger = n * Stagger - Stagger
<1>1. Stagger \in Int
  BY ConstantTypes
<1> QED BY <1>1

(* Fewer alerts take no longer.                                            *)
LEMMA FewerAreFaster ==
  ASSUME NEW n \in Nat, NEW k \in Nat, k <= n
  PROVE  (k - 1) * Stagger <= (n - 1) * Stagger
<1>1. Stagger \in Nat
  BY ConstantTypes
<1>2. PICK d \in Nat : n = k + d
  <2>1. n - k \in Nat /\ n = k + (n - k)
    OBVIOUS
  <2> QED BY <2>1
<1>3. (n - 1) * Stagger = (k - 1) * Stagger + d * Stagger
  BY <1>1, <1>2
<1>4. d * Stagger \in Nat /\ (k - 1) * Stagger \in Int
  BY <1>1
<1> QED BY <1>3, <1>4

(* At most every vehicle is visited.                                       *)
LEMMA VisitedType ==
  ASSUME NEW trigger, NEW visited \in InNetworkOrder(Reachable(trigger))
  PROVE  /\ visited \in Seq(Reachable(trigger))
         /\ Len(visited) \in 0..N
<1> DEFINE vs == Reachable(trigger)
<1>1. N \in Nat
  BY ConstantTypes
<1>2. IsFiniteSet(Vehicle) /\ Cardinality(Vehicle) = N
  <2>1. 1..N \subseteq Int /\ IsFiniteSet(1..N) /\ Cardinality(1..N) = IF 1 > N THEN 0 ELSE N - 1 + 1
    BY <1>1, FS_Interval
  <2> QED BY <1>1, <2>1, ConstantTypes DEF Vehicle
<1>3. vs \subseteq Vehicle
  BY DEF Reachable
<1>4. Cardinality(vs) \in Nat /\ Cardinality(vs) <= N
  BY <1>2, <1>3, FS_Subset, FS_CardinalityType
<1>5. visited \in [1..Cardinality(vs) -> vs]
  BY DEF InNetworkOrder
<1> QED BY <1>1, <1>4, <1>5

(* A broadcast is a sequence of alerts with its trigger's creation time.   *)
LEMMA AlertsType ==
  ASSUME TypeOK, NEW trigger \in inFlight, NEW visited \in InNetworkOrder(Reachable(trigger))
  PROVE  /\ Alerts(trigger, visited) \in Seq(Alert)
         /\ Len(Alerts(trigger, visited)) = Len(visited)
         /\ \A i \in 1..Len(visited) :
              Alerts(trigger, visited)[i].triggerCreationTime = trigger.time
<1> DEFINE alert(i) == [destAddr |-> active[visited[i]],
                        triggerCreationTime |-> trigger.time,
                        sequenceNumber |-> numSent]
<1>1. visited \in Seq(Reachable(trigger)) /\ Len(visited) \in Nat /\ DOMAIN visited = 1..Len(visited)
  BY VisitedType, LenProperties
<1>2. \A i \in 1..Len(visited) : active[visited[i]] \in Addr
  <2> SUFFICES ASSUME NEW i \in 1..Len(visited) PROVE active[visited[i]] \in Addr
    OBVIOUS
  <2>1. visited[i] \in Reachable(trigger)
    BY <1>1, ElementOfSeq
  <2> QED BY <2>1 DEF Reachable, TypeOK
<1>3. trigger.time \in 1..MaxTriggers /\ numSent \in Nat
  BY DEF TypeOK
<1>4. \A i \in 1..Len(visited) : alert(i) \in Alert
  BY <1>2, <1>3 DEF Alert
<1>5. Alerts(trigger, visited) = [i \in 1..Len(visited) |-> alert(i)]
  BY <1>1 DEF Alerts
<1> HIDE DEF alert
<1>6. Alerts(trigger, visited) \in [1..Len(visited) -> Alert]
  BY <1>4, <1>5
<1>7. Alerts(trigger, visited) \in Seq(Alert) /\ Len(Alerts(trigger, visited)) = Len(visited)
  BY <1>1, <1>6
<1>8. \A i \in 1..Len(visited) : Alerts(trigger, visited)[i].triggerCreationTime = trigger.time
  BY <1>5 DEF alert
<1> QED BY <1>7, <1>8

-----------------------------------------------------------------------------
(* At first nothing is queued and nothing was sent.                        *)
LEMMA InitIInv == Init => IInv
<1> SUFFICES ASSUME Init PROVE IInv
  OBVIOUS
<1> USE DEF Init
<1>1. PICK configured \in Vehicle :
        active = [v \in Vehicle |-> IF v <= configured THEN v ELSE Unspecified]
  OBVIOUS
<1>2. active \in [Vehicle -> Addr \cup {Unspecified}]
  BY <1>1, ConstantTypes DEF Vehicle, Addr
<1>3. period \in Nat
  BY ConstantTypes
<1>4. TypeOK
  BY <1>2, <1>3, ConstantTypes, EmptySeq DEF TypeOK, Off
<1>5. SentInOrderOnce /\ TimerGuardsQueue /\ Aging /\ Fresh /\ Staggered
  <2>1. <<>> \o <<>> = <<>>
    BY ConcatEmptySeq, EmptySeq
  <2>2. Len(<<>>) = 0
    BY EmptySeq
  <2> QED BY <2>1, <2>2 DEF SentInOrderOnce, TimerGuardsQueue, Aging, Fresh, Staggered
<1>6. Drains
  <2>1. Len(pendingAlerts) = 0 /\ Len(ages) = 0
    BY EmptySeq
  <2> QED BY <2>1, ConstantTypes DEF Drains
<1> QED BY <1>4, <1>5, <1>6 DEF IInv

(* What the network does is of no concern to the server, as long as the    *)
(* triggers on their way stay fresh.                                       *)
LEMMA NetworkStep ==
  ASSUME IInv, UNCHANGED <<period, serverVars, clockVars, logVars>>, TypeOK', Fresh'
  PROVE  IInv'
  BY DEF IInv, serverVars, clockVars, logVars, SentInOrderOnce, TimerGuardsQueue, Aging,
         Drains, Staggered, Paced

(* An address changes.                                                     *)
LEMMA RebindStep ==
  ASSUME IInv, NEW v \in Vehicle, Rebind(v)
  PROVE  IInv'
<1> USE DEF Rebind, IInv, serverVars, clockVars, logVars
<1>1. TypeOK'
  <2>1. active' \in [Vehicle -> Addr \cup {Unspecified}]
    BY DEF TypeOK
  <2>2. rebinds' \in 0..MaxRebinds
    BY ConstantTypes DEF TypeOK
  <2> QED BY <2>1, <2>2 DEF TypeOK
<1>2. Fresh'
  BY DEF Fresh
<1> QED BY <1>1, <1>2, NetworkStep

(* A trigger is sent, with a creation time of its own.                     *)
LEMMA SendTriggerStep ==
  ASSUME IInv, SendTrigger
  PROVE  IInv'
<1> USE DEF SendTrigger, serverVars, clockVars, logVars
<1> DEFINE trigger == [time |-> created', src |-> active[Source]]
<1>1. created \in Nat /\ created' = created + 1 /\ created' \in 1..MaxTriggers
  BY ConstantTypes DEF IInv, TypeOK
<1>2. active[Source] \in Addr
  <2>1. Source \in Vehicle
    BY ConstantTypes DEF Source, Vehicle
  <2> QED BY <2>1 DEF IInv, TypeOK
<1>3. trigger \in [time : 1..MaxTriggers, src : Addr]
  BY <1>1, <1>2
<1>4. inFlight' = inFlight \cup {trigger}
  OBVIOUS
<1>5. TypeOK'
  <2>1. inFlight' \subseteq [time : 1..MaxTriggers, src : Addr]
    BY <1>3, <1>4 DEF IInv, TypeOK
  <2>2. created' \in 0..MaxTriggers
    BY <1>1
  <2> QED BY <2>1, <2>2 DEF IInv, TypeOK
<1>6. Fresh'
  <2>1. \A t \in inFlight : t.time \in Nat /\ t.time <= created
    BY DEF IInv, TypeOK, Fresh
  <2>2. \A i \in 1..Len(enqueued) :
          /\ enqueued[i].triggerCreationTime \in Nat
          /\ enqueued[i].triggerCreationTime <= created
    <3>1. \A i \in 1..Len(enqueued) : enqueued[i] \in Alert
      BY ElementOfSeq DEF IInv, TypeOK
    <3> QED BY <3>1 DEF IInv, Fresh, Alert
  <2>3. trigger.time = created + 1
    BY <1>1
  <2>4. UNCHANGED enqueued
    OBVIOUS
  <2> HIDE DEF trigger, SendTrigger
  <2>5. \A t \in inFlight' : t.time <= created'
    BY <1>1, <1>4, <2>1, <2>3
  <2>6. \A t, u \in inFlight' : t.time = u.time => t = u
    BY <1>1, <1>4, <2>1, <2>3 DEF IInv, Fresh
  <2>7. \A i \in 1..Len(enqueued') : enqueued'[i].triggerCreationTime <= created'
    BY <1>1, <2>2, <2>4
  <2>8. \A t \in inFlight', i \in 1..Len(enqueued') : enqueued'[i].triggerCreationTime # t.time
    BY <1>1, <1>4, <2>2, <2>3, <2>4 DEF IInv, Fresh
  <2> QED BY <2>5, <2>6, <2>7, <2>8 DEF Fresh
<1> QED BY <1>5, <1>6, NetworkStep

(* A trigger is lost.                                                      *)
LEMMA LoseStep ==
  ASSUME IInv, NEW trigger \in inFlight, Lose(trigger)
  PROVE  IInv'
<1> USE DEF Lose, serverVars, clockVars, logVars
<1>1. TypeOK'
  BY DEF IInv, TypeOK
<1>2. Fresh'
  BY DEF IInv, Fresh
<1> QED BY <1>1, <1>2, NetworkStep

(* The timer fires for an empty queue.                                     *)
LEMMA NothingPendingStep ==
  ASSUME IInv, NothingPending
  PROVE  IInv'
<1>1. TypeOK'
  BY ConstantTypes DEF IInv, TypeOK, NothingPending, networkVars, clockVars, logVars, Off
<1> QED BY <1>1 DEF IInv, NothingPending, networkVars, clockVars, logVars,
                    SentInOrderOnce, TimerGuardsQueue, Aging, Fresh, Drains, Staggered, Paced

(* The clocks advance together, and the timer runs down as they do.        *)
LEMMA TickStep ==
  ASSUME IInv, Tick
  PROVE  IInv'
<1>1. /\ sendTimer' = IF sendTimer = Off THEN Off ELSE sendTimer - 1
      /\ sinceSend' = AtMost(sinceSend + 1, Stagger)
      /\ sinceTrigger' = AtMost(sinceTrigger + 1, period)
      /\ ages' = [i \in 1..Len(ages) |-> AtMost(ages[i] + 1, MaxAge)]
      /\ sendTimer # 0
      /\ UNCHANGED <<pendingAlerts, numSent, period, active, created, inFlight, rebinds,
                     enqueued, sentLog>>
  BY DEF Tick, networkVars
<1>2. /\ sendTimer \in -1..Stagger /\ sinceSend \in 0..Stagger /\ sinceTrigger \in 0..period
      /\ period \in Nat /\ Stagger \in Nat /\ N \in Nat /\ N > 0 /\ Stagger > 0
      /\ ages \in Seq(Nat) /\ Len(ages) \in Nat
      /\ pendingAlerts \in Seq(Alert) /\ Len(pendingAlerts) \in Nat
  BY ConstantTypes, LenProperties DEF IInv, TypeOK
<1>3. MaxAge \in Nat
  <2>1. N * MaxTriggers \in Nat
    BY ConstantTypes
  <2> QED BY <2>1, ConstantTypes DEF MaxAge
<1>4. /\ sendTimer' \in -1..Stagger /\ sinceSend' \in 0..Stagger /\ sinceTrigger' \in 0..period
      /\ sinceTrigger' <= sinceTrigger + 1
      /\ sinceSend' = sinceSend + 1 \/ sinceSend' = Stagger
  BY <1>1, <1>2 DEF AtMost, Off
<1>5. \A i \in 1..Len(ages) : ages[i] \in Nat
  BY <1>2, ElementOfSeq
<1>6. ages' \in Seq(Nat) /\ Len(ages') = Len(ages)
      /\ \A i \in 1..Len(ages) : ages'[i] = AtMost(ages[i] + 1, MaxAge)
  <2>1. \A i \in 1..Len(ages) : AtMost(ages[i] + 1, MaxAge) \in Nat
    BY <1>3, <1>5 DEF AtMost
  <2>2. ages' \in [1..Len(ages) -> Nat]
    BY <1>1, <2>1
  <2>3. Len(ages) \in Nat
    BY <1>2
  <2>4. ages' \in Seq(Nat) /\ Len(ages') = Len(ages)
    BY <2>2, <2>3
  <2>5. \A i \in 1..Len(ages) : ages'[i] = AtMost(ages[i] + 1, MaxAge)
    BY <1>1
  <2> QED BY <2>4, <2>5
<1>7. TypeOK'
  BY <1>1, <1>4, <1>6 DEF IInv, TypeOK
<1>8. TimerGuardsQueue'
  BY <1>1, <1>2 DEF IInv, TimerGuardsQueue, Off
<1>9. SentInOrderOnce' /\ Aging' /\ Fresh'
  BY <1>1, <1>6 DEF IInv, SentInOrderOnce, Aging, Fresh
<1>10. ASSUME Paced PROVE Drains'
  <2> DEFINE last == (N - 1) * Stagger
             rest == (Len(pendingAlerts) - 1) * Stagger
  <2>1. /\ last \in Nat /\ N * Stagger = last + Stagger /\ rest \in Int
        /\ pendingAlerts # <<>> => rest \in Nat
    <3>1. last \in Int /\ N * Stagger = last + Stagger /\ rest \in Int
      BY <1>2, Intervals
    <3>2. N - 1 \in Nat
      BY <1>2
    <3>3. last \in Nat
      BY <1>2, <3>2
    <3>4. CASE pendingAlerts # <<>>
      <4>1. Len(pendingAlerts) - 1 \in Nat
        BY <1>2, <3>4, EmptySeq
      <4> QED BY <1>2, <4>1, <3>1, <3>3
    <3> QED BY <3>1, <3>3, <3>4
  <2>2. period >= last + Stagger
    BY <1>10, <2>1 DEF Paced
  <2>3. pendingAlerts # <<>> =>
          /\ sendTimer \in Nat /\ sendTimer > 0 /\ sendTimer' = sendTimer - 1
          /\ sinceTrigger + sendTimer + rest <= last
          /\ sinceTrigger' = sinceTrigger + 1
    <3> SUFFICES ASSUME pendingAlerts # <<>>
                 PROVE  /\ sendTimer \in Nat /\ sendTimer > 0 /\ sendTimer' = sendTimer - 1
                        /\ sinceTrigger + sendTimer + rest <= last
                        /\ sinceTrigger' = sinceTrigger + 1
      OBVIOUS
    <3>1. sendTimer \in Nat /\ sendTimer > 0 /\ sendTimer' = sendTimer - 1
      BY <1>1, <1>2 DEF IInv, TimerGuardsQueue, Off
    <3>2. sinceTrigger + sendTimer + rest <= last /\ rest \in Nat
      BY <1>10, <2>1 DEF IInv, Drains
    <3> HIDE DEF last, rest
    <3>3. sinceTrigger + 1 <= period
      BY <1>2, <2>1, <2>2, <3>1, <3>2
    <3> QED BY <1>1, <1>2, <3>1, <3>2, <3>3 DEF AtMost
  <2>4. pendingAlerts # <<>> => sinceTrigger' + sendTimer' + rest <= last
    <3> HIDE DEF last, rest
    <3> QED BY <1>2, <2>1, <2>3
  <2>5. ASSUME NEW i \in 1..Len(ages) PROVE ages'[i] <= sinceTrigger'
    <3>1. pendingAlerts # <<>>
      BY <1>2, EmptySeq DEF IInv, Aging
    <3>2. ages[i] <= sinceTrigger
      BY <1>10 DEF IInv, Drains
    <3> QED BY <1>2, <1>3, <1>5, <1>6, <2>3, <3>1, <3>2 DEF AtMost
  <2>6. pendingAlerts = <<>> => sinceSend' >= Stagger \/ sinceTrigger' <= sinceSend' + last
    <3>1. pendingAlerts = <<>> => sinceSend >= Stagger \/ sinceTrigger <= sinceSend + last
      BY <1>10 DEF IInv, Drains
    <3> HIDE DEF last
    <3> QED BY <1>1, <1>2, <1>4, <2>1, <3>1 DEF AtMost
  <2>7. Len(pendingAlerts) <= N
    BY <1>10 DEF IInv, Drains
  <2> QED BY <1>1, <1>6, <2>4, <2>5, <2>6, <2>7 DEF Drains
<1>11. Staggered'
  <2>1. sentLog = <<>> => sinceSend' = Stagger
    BY <1>1, <1>2 DEF IInv, Staggered, AtMost
  <2>2. ASSUME pendingAlerts # <<>>, sinceSend + sendTimer >= Stagger
        PROVE  sinceSend' + sendTimer' >= Stagger
    <3>1. sendTimer' = sendTimer - 1 /\ sendTimer \in Nat /\ sendTimer > 0
      BY <1>1, <1>2, <2>2 DEF IInv, TimerGuardsQueue, Off
    <3>2. /\ sinceSend \in Nat /\ sinceSend' \in Nat /\ Stagger \in Nat
          /\ sinceSend' = sinceSend + 1 \/ sinceSend' = Stagger
      BY <1>2, <1>4
    <3>3. sinceSend + sendTimer >= Stagger
      BY <2>2
    <3>4. CASE sinceSend' = sinceSend + 1
      BY <3>1, <3>2, <3>3, <3>4
    <3>5. CASE sinceSend' = Stagger
      BY <3>1, <3>2, <3>5
    <3> QED BY <3>2, <3>4, <3>5
  <2> QED BY <1>1, <2>1, <2>2 DEF IInv, Staggered, Paced
<1> QED BY <1>1, <1>7, <1>8, <1>9, <1>10, <1>11 DEF IInv, Paced

(* The oldest alert is sent; the rest waits one interval.                  *)
LEMMA SendNextPendingStep ==
  ASSUME IInv, SendNextPending
  PROVE  IInv'
<1> DEFINE head == pendingAlerts[1]
<1>1. /\ sendTimer = 0 /\ pendingAlerts # <<>>
      /\ pendingAlerts' = Tail(pendingAlerts) /\ numSent' = numSent + 1
      /\ sendTimer' = IF pendingAlerts' # <<>> THEN Stagger ELSE Off
      /\ sinceSend' = 0 /\ sentLog' = Append(sentLog, Head(pendingAlerts))
      /\ ages' = Tail(ages)
      /\ UNCHANGED <<period, active, created, inFlight, rebinds, sinceTrigger, enqueued>>
  BY DEF SendNextPending, Rearm, networkVars
<1>2. /\ pendingAlerts \in Seq(Alert) /\ sentLog \in Seq(Alert) /\ ages \in Seq(Nat)
      /\ Len(pendingAlerts) \in Nat /\ Len(ages) = Len(pendingAlerts) /\ ages # <<>>
      /\ Stagger \in Nat /\ Stagger > 0 /\ numSent \in Nat
      /\ sinceTrigger \in Nat /\ N \in Nat /\ Len(pendingAlerts) > 0
  BY <1>1, ConstantTypes, EmptySeq, LenProperties DEF IInv, TypeOK, Aging
<1>3. /\ Head(pendingAlerts) = head /\ head \in Alert
      /\ pendingAlerts' \in Seq(Alert) /\ Len(pendingAlerts') = Len(pendingAlerts) - 1
  BY <1>1, <1>2, HeadTailProperties
<1>4. /\ ages' \in Seq(Nat) /\ Len(ages') = Len(ages) - 1
      /\ \A i \in 1..Len(ages') : ages'[i] = ages[i + 1]
  BY <1>1, <1>2, HeadTailProperties
<1>5. /\ sentLog' \in Seq(Alert) /\ sentLog' # <<>> /\ sentLog' = sentLog \o <<head>>
      /\ <<head>> \in Seq(Alert)
  BY <1>1, <1>2, <1>3, AppendProperties, AppendIsConcat
<1>6. TypeOK'
  BY <1>1, <1>2, <1>3, <1>4, <1>5 DEF IInv, TypeOK, Off
<1>7. SentInOrderOnce'
  <2>1. pendingAlerts = <<head>> \o pendingAlerts'
    <3>1. 1 \in 1..Len(pendingAlerts) /\ Len(pendingAlerts) \in 1..Len(pendingAlerts)
      BY <1>2
    <3>2. SubSeq(pendingAlerts, 1, Len(pendingAlerts))
            = <<head>> \o SubSeq(pendingAlerts, 1 + 1, Len(pendingAlerts))
      BY <1>2, <3>1, SubSeqRecursiveFirst
    <3>3. SubSeq(pendingAlerts, 1, Len(pendingAlerts)) = pendingAlerts
      BY <1>2, SubSeqFull
    <3>4. Tail(pendingAlerts) = SubSeq(pendingAlerts, 2, Len(pendingAlerts))
      BY <1>1, <1>2, TailIsSubSeq
    <3> HIDE DEF head
    <3> QED BY <1>1, <3>2, <3>3, <3>4
  <2>2. sentLog \o (<<head>> \o pendingAlerts') = (sentLog \o <<head>>) \o pendingAlerts'
    <3>1. sentLog \in Seq(Alert) /\ <<head>> \in Seq(Alert) /\ pendingAlerts' \in Seq(Alert)
      BY <1>2, <1>3, <1>5
    <3> HIDE DEF head
    <3> QED BY <3>1, ConcatAssociative
  <2> QED BY <1>1, <1>5, <2>1, <2>2 DEF IInv, SentInOrderOnce
<1>8. TimerGuardsQueue' /\ Aging' /\ Fresh'
  BY <1>1, <1>2, <1>3, <1>4 DEF IInv, TimerGuardsQueue, Aging, Fresh, Off
<1>9. ASSUME Paced PROVE Drains'
  <2> DEFINE last == (N - 1) * Stagger
             rest == (Len(pendingAlerts) - 1) * Stagger
             next == (Len(pendingAlerts') - 1) * Stagger
  <2>1. last \in Int /\ rest \in Int /\ next \in Int /\ next = rest - Stagger
    <3>1. Len(pendingAlerts) - 1 \in Int
      BY <1>2
    <3> QED BY <1>2, <1>3, <3>1, Intervals
  <2>2. sinceTrigger + sendTimer + rest <= last
    BY <1>1, <1>9 DEF IInv, Drains
  <2>3. Len(pendingAlerts') = 0 <=> pendingAlerts' = <<>>
    BY <1>3, EmptySeq
  <2>4. pendingAlerts' = <<>> => rest = 0
    <3>1. pendingAlerts' = <<>> => Len(pendingAlerts) - 1 = 0
      BY <1>2, <1>3, <2>3
    <3>2. 0 * Stagger = 0
      BY <1>2
    <3> QED BY <3>1, <3>2
  <2>5. Len(pendingAlerts') <= N
    BY <1>2, <1>3, <1>9 DEF IInv, Drains
  <2>6. \A i \in 1..Len(ages') : ages'[i] <= sinceTrigger'
    <3>1. \A i \in 1..Len(ages) : ages[i] <= sinceTrigger
      BY <1>9 DEF IInv, Drains
    <3> QED BY <1>1, <1>2, <1>4, <3>1
  <2>7. pendingAlerts' # <<>> => sinceTrigger' + sendTimer' + next <= last
    <3> HIDE DEF last, rest, next
    <3> QED BY <1>1, <1>2, <2>1, <2>2
  <2>8. pendingAlerts' = <<>> => sinceTrigger' <= sinceSend' + last
    <3> HIDE DEF last, rest, next
    <3> QED BY <1>1, <1>2, <2>1, <2>2, <2>4
  <2> QED BY <1>1, <2>5, <2>6, <2>7, <2>8 DEF Drains
<1>10. Staggered'
  BY <1>1, <1>2, <1>5 DEF Staggered
<1> QED BY <1>1, <1>6, <1>7, <1>8, <1>9, <1>10 DEF IInv, Paced

(* A broadcast adds its alerts at the end of the queue, and sets the timer *)
(* unless it runs.                                                         *)
LEMMA BroadcastAlertStep ==
  ASSUME IInv, NEW trigger \in inFlight, BroadcastAlert(trigger)
  PROVE  IInv'
<1>1. /\ sinceTrigger >= period /\ sinceTrigger' = 0
      /\ inFlight' = inFlight \ {trigger}
      /\ sendTimer' = IF sendTimer = Off THEN 0 ELSE sendTimer
      /\ UNCHANGED <<numSent, period, active, created, rebinds, sinceSend, sentLog>>
  BY DEF BroadcastAlert, ArmedAt
<1>2. PICK visited \in InNetworkOrder(Reachable(trigger)) :
        /\ pendingAlerts' = pendingAlerts \o Alerts(trigger, visited)
        /\ enqueued' = enqueued \o Alerts(trigger, visited)
        /\ ages' = ages \o [i \in DOMAIN visited |-> 0]
  BY DEF BroadcastAlert, Enqueue
<1> DEFINE alerts == Alerts(trigger, visited)
           zeros == [i \in DOMAIN visited |-> 0]
<1>3. /\ alerts \in Seq(Alert) /\ Len(alerts) = Len(visited) /\ Len(visited) \in 0..N
      /\ \A i \in 1..Len(alerts) : alerts[i].triggerCreationTime = trigger.time
  BY AlertsType, VisitedType DEF IInv
<1>4. /\ zeros \in Seq(Nat) /\ Len(zeros) = Len(visited)
      /\ \A i \in 1..Len(zeros) : zeros[i] = 0
  <2>1. DOMAIN visited = 1..Len(visited) /\ Len(visited) \in Nat
    BY VisitedType, LenProperties
  <2>2. zeros = [i \in 1..Len(visited) |-> 0]
    BY <2>1
  <2> HIDE DEF zeros
  <2>3. zeros \in [1..Len(visited) -> Nat]
    BY <2>2
  <2>4. zeros \in Seq(Nat) /\ Len(zeros) = Len(visited)
    BY <2>1, <2>3
  <2> QED BY <2>2, <2>4
<1> HIDE DEF alerts, zeros
<1>5. /\ pendingAlerts' = pendingAlerts \o alerts /\ enqueued' = enqueued \o alerts
      /\ ages' = ages \o zeros
  BY <1>2 DEF alerts, zeros
<1>6. /\ pendingAlerts \in Seq(Alert) /\ enqueued \in Seq(Alert) /\ sentLog \in Seq(Alert)
      /\ ages \in Seq(Nat) /\ Len(pendingAlerts) \in Nat /\ Len(enqueued) \in Nat
      /\ Len(ages) = Len(pendingAlerts) /\ Len(alerts) \in Nat /\ Len(zeros) = Len(alerts)
      /\ N \in Nat /\ N > 0 /\ Stagger \in Nat /\ Stagger > 0 /\ period \in Nat
      /\ sendTimer \in -1..Stagger /\ sinceSend \in 0..Stagger /\ sinceTrigger \in 0..period
  BY <1>3, <1>4, ConstantTypes, LenProperties DEF IInv, TypeOK, Aging
<1>7. /\ pendingAlerts' \in Seq(Alert) /\ Len(pendingAlerts') = Len(pendingAlerts) + Len(alerts)
      /\ \A i \in 1..(Len(pendingAlerts) + Len(alerts)) :
           pendingAlerts'[i] = IF i <= Len(pendingAlerts) THEN pendingAlerts[i]
                               ELSE alerts[i - Len(pendingAlerts)]
  BY <1>3, <1>5, <1>6, ConcatProperties
<1>8. /\ enqueued' \in Seq(Alert) /\ Len(enqueued') = Len(enqueued) + Len(alerts)
      /\ \A i \in 1..(Len(enqueued) + Len(alerts)) :
           enqueued'[i] = IF i <= Len(enqueued) THEN enqueued[i]
                          ELSE alerts[i - Len(enqueued)]
  BY <1>3, <1>5, <1>6, ConcatProperties
<1>9. /\ ages' \in Seq(Nat) /\ Len(ages') = Len(ages) + Len(zeros)
      /\ \A i \in 1..(Len(ages) + Len(zeros)) :
           ages'[i] = IF i <= Len(ages) THEN ages[i] ELSE zeros[i - Len(ages)]
  <2>1. ages \in Seq(Nat) /\ zeros \in Seq(Nat) /\ ages' = ages \o zeros
    BY <1>4, <1>5, <1>6
  <2> QED BY ONLY <2>1, ConcatProperties
<1>10. pendingAlerts' = <<>> => pendingAlerts = <<>>
  <2>1. pendingAlerts' = <<>> => Len(pendingAlerts) = 0
    BY <1>6, <1>7, EmptySeq
  <2> QED BY <1>6, <2>1, EmptySeq
<1>11. TypeOK'
  <2>1. sendTimer' \in -1..Stagger /\ sinceTrigger' \in 0..period'
    BY <1>1, <1>6
  <2>2. inFlight' \subseteq [time : 1..MaxTriggers, src : Addr]
    BY <1>1 DEF IInv, TypeOK
  <2> QED BY <1>1, <1>7, <1>8, <1>9, <2>1, <2>2 DEF IInv, TypeOK
<1>12. SentInOrderOnce'
  <2>1. enqueued = sentLog \o pendingAlerts
    BY DEF IInv, SentInOrderOnce
  <2>2. (sentLog \o pendingAlerts) \o alerts = sentLog \o (pendingAlerts \o alerts)
    <3>1. sentLog \in Seq(Alert) /\ pendingAlerts \in Seq(Alert) /\ alerts \in Seq(Alert)
      BY <1>3, <1>6
    <3> QED BY ONLY <3>1, ConcatAssociative
  <2> QED BY <1>1, <1>5, <2>1, <2>2 DEF SentInOrderOnce
<1>13. TimerGuardsQueue'
  BY <1>1, <1>10 DEF IInv, TimerGuardsQueue, Off
<1>14. Aging'
  BY <1>6, <1>7, <1>9 DEF Aging
<1>15. Fresh'
  <2>1. trigger.time <= created /\ \A t \in inFlight' : t \in inFlight /\ t.time # trigger.time
    BY <1>1 DEF IInv, Fresh
  <2>2. ASSUME NEW i \in 1..Len(enqueued')
        PROVE  \/ i \in 1..Len(enqueued) /\ enqueued'[i] = enqueued[i]
               \/ enqueued'[i].triggerCreationTime = trigger.time
    <3>1. CASE i <= Len(enqueued)
      BY <1>6, <1>8, <3>1
    <3>2. CASE i > Len(enqueued)
      <4>1. i - Len(enqueued) \in 1..Len(alerts) /\ enqueued'[i] = alerts[i - Len(enqueued)]
        BY <1>6, <1>8, <3>2
      <4> QED BY <1>3, <4>1
    <3> QED BY <1>6, <3>1, <3>2
  <2> QED BY <1>1, <2>1, <2>2 DEF IInv, Fresh
<1>16. ASSUME Paced
       PROVE  pendingAlerts = <<>> /\ sinceSend >= Stagger
  <2> DEFINE last == (N - 1) * Stagger
             rest == (Len(pendingAlerts) - 1) * Stagger
  <2>1. last \in Int /\ rest \in Int /\ N * Stagger = last + Stagger
    BY <1>6, Intervals
  <2>2. sinceTrigger >= last + Stagger
    BY <1>1, <1>6, <1>16, <2>1 DEF Paced
  <2>3. pendingAlerts # <<>> => rest >= 0
    <3>1. pendingAlerts # <<>> => Len(pendingAlerts) - 1 \in Nat
      BY <1>6, EmptySeq
    <3> QED BY <1>6, <3>1
  <2>4. pendingAlerts # <<>> => sendTimer >= 0 /\ sinceTrigger + sendTimer + rest <= last
    BY <1>6, <1>16 DEF IInv, Drains, TimerGuardsQueue, Off
  <2>5. pendingAlerts = <<>> => sinceSend >= Stagger \/ sinceTrigger <= sinceSend + last
    BY <1>16 DEF IInv, Drains
  <2> HIDE DEF last, rest
  <2>6. pendingAlerts = <<>>
    BY <1>6, <2>1, <2>2, <2>3, <2>4
  <2> QED BY <1>6, <2>1, <2>2, <2>5, <2>6
<1>17. ASSUME Paced PROVE Drains'
  <2>1. pendingAlerts = <<>> /\ Len(pendingAlerts) = 0 /\ Len(ages) = 0 /\ sinceSend >= Stagger
    BY <1>6, <1>16, <1>17, EmptySeq
  <2>2. sendTimer' = 0
    BY <1>1, <2>1 DEF IInv, TimerGuardsQueue, Off
  <2>3. Len(pendingAlerts') = Len(alerts) /\ Len(alerts) <= N
    BY <1>3, <1>6, <1>7, <2>1
  <2>4. /\ (Len(alerts) - 1) * Stagger <= (N - 1) * Stagger
        /\ (Len(alerts) - 1) * Stagger \in Int
    <3>1. Len(alerts) \in Nat /\ N \in Nat /\ Len(alerts) <= N /\ Len(alerts) - 1 \in Int
      BY <1>6, <2>3
    <3>2. (Len(alerts) - 1) * Stagger <= (N - 1) * Stagger
      BY ONLY <3>1, FewerAreFaster
    <3>3. (Len(alerts) - 1) * Stagger \in Int
      BY ONLY <3>1, Intervals
    <3> QED BY <3>2, <3>3
  <2>5. pendingAlerts' # <<>> =>
          sinceTrigger' + sendTimer' + (Len(pendingAlerts') - 1) * Stagger <= (N - 1) * Stagger
    <3> DEFINE need == (Len(alerts) - 1) * Stagger
    <3>1. sinceTrigger' + sendTimer' + need = need
      BY <1>1, <2>2, <2>4
    <3> QED BY <2>3, <2>4, <3>1
  <2>6. \A i \in 1..Len(ages') : ages'[i] <= sinceTrigger'
    <3> SUFFICES ASSUME NEW i \in 1..Len(ages') PROVE ages'[i] <= sinceTrigger'
      OBVIOUS
    <3>1. i \in 1..Len(zeros) /\ ages'[i] = zeros[i - 0]
      BY <1>6, <1>9, <2>1
    <3>2. i - 0 = i
      <4>1. Len(zeros) \in Int
        BY <1>6
      <4> QED BY ONLY <3>1, <4>1
    <3> QED BY <1>1, <1>4, <3>1, <3>2
  <2> QED BY <1>1, <2>1, <2>3, <2>5, <2>6 DEF Drains
<1>18. Staggered'
  <2>1. sentLog' = <<>> => sinceSend' = Stagger
    BY <1>1 DEF IInv, Staggered
  <2>2. CASE pendingAlerts # <<>>
    <3>1. sendTimer' = sendTimer
      BY <1>1, <2>2 DEF IInv, TimerGuardsQueue
    <3>2. Len(pendingAlerts) > 0
      BY <1>6, <2>2, EmptySeq
    <3>3. pendingAlerts'[1] = pendingAlerts[1]
      BY <1>6, <1>7, <3>2
    <3> QED BY <1>1, <2>1, <2>2, <3>1, <3>3 DEF IInv, Staggered, Paced
  <2>3. CASE pendingAlerts = <<>>
    <3>1. sendTimer' = 0
      BY <1>1, <2>3 DEF IInv, TimerGuardsQueue, Off
    <3>2. CASE Paced \/ sentLog = <<>>
      <4>1. sinceSend >= Stagger
        BY <1>6, <1>16, <3>2 DEF IInv, Staggered
      <4>2. sinceSend' + sendTimer' >= Stagger
        BY <1>1, <1>6, <3>1, <4>1
      <4> QED BY <2>1, <4>2 DEF Staggered
    <3>3. CASE ~Paced /\ sentLog # <<>> /\ pendingAlerts' # <<>>
      <4>1. Len(pendingAlerts) = 0 /\ Len(pendingAlerts') > 0
        BY <1>6, <1>7, <2>3, <3>3, EmptySeq
      <4>2. pendingAlerts'[1].triggerCreationTime = trigger.time
        <5>1. 1 \in 1..Len(alerts) /\ pendingAlerts'[1] = alerts[1 - 0]
          BY <1>6, <1>7, <4>1
        <5> QED BY <1>3, <5>1
      <4>3. enqueued = sentLog
        BY <1>6, <2>3, ConcatEmptySeq DEF IInv, SentInOrderOnce
      <4>4. Len(sentLog) \in 1..Len(enqueued)
        BY <1>6, <3>3, <4>3, EmptySeq
      <4>5. sentLog[Len(sentLog)].triggerCreationTime # trigger.time
        BY <4>3, <4>4 DEF IInv, Fresh
      <4> QED BY <1>1, <2>1, <3>3, <4>2, <4>5 DEF Staggered, Paced
    <3> QED BY <2>1, <3>2, <3>3 DEF Staggered
  <2> QED BY <2>2, <2>3
<1> QED BY <1>1, <1>11, <1>12, <1>13, <1>14, <1>15, <1>17, <1>18 DEF IInv, Paced

(* Every step preserves the invariant.                                     *)
LEMMA NextIInv == IInv /\ [Next]_vars => IInv'
<1> SUFFICES ASSUME IInv, [Next]_vars PROVE IInv'
  OBVIOUS
<1>1. CASE UNCHANGED vars
  <2>1. UNCHANGED <<period, serverVars, clockVars, logVars>> /\ TypeOK' /\ Fresh'
    BY <1>1 DEF vars, serverVars, networkVars, clockVars, logVars, IInv, TypeOK, Fresh
  <2> QED BY <2>1, NetworkStep
<1> QED BY <1>1, RebindStep, SendTriggerStep, LoseStep, BroadcastAlertStep,
           NothingPendingStep, SendNextPendingStep, TickStep DEF Next

-----------------------------------------------------------------------------
(* Types, the order of the log, the timer behind the queue, the freshness  *)
(* of triggers and the two clocks, together.                               *)
THEOREM Invariance == Spec => []IInv
  BY InitIInv, NextIInv, PTL DEF Spec

(* Every variable keeps its type.                                          *)
THEOREM TypeCorrectness == Spec => []TypeOK
<1>1. IInv => TypeOK
  BY DEF IInv
<1> QED BY Invariance, <1>1, PTL

(* Nothing is lost, duplicated or reordered between trigger and socket     *)
(* (broadcastAlert, sendNextPending).                                      *)
THEOREM InOrder == Spec => []SentInOrderOnce
<1>1. IInv => SentInOrderOnce
  BY DEF IInv
<1> QED BY Invariance, <1>1, PTL

(* No alert is stranded in a queue whose timer is not set                  *)
(* (sendNextPending sets it again while something is queued).              *)
THEOREM NeverStranded == Spec => []TimerGuardsQueue
<1>1. IInv => TimerGuardsQueue
  BY DEF IInv
<1> QED BY Invariance, <1>1, PTL

(* Triggers no faster than a broadcast drains: one broadcast in the queue, *)
(* and no alert older than its predecessors take (STAGGER_MS).             *)
THEOREM Backlog == Spec => []BacklogBounded
<1>1. IInv => BacklogBounded
  <2> SUFFICES ASSUME IInv, Paced
               PROVE  /\ Len(pendingAlerts) <= N
                      /\ \A i \in 1..Len(ages) : ages[i] <= (N - 1) * Stagger
    BY DEF BacklogBounded
  <2> DEFINE last == (N - 1) * Stagger
             rest == (Len(pendingAlerts) - 1) * Stagger
  <2>1. Drains
    BY DEF IInv
  <2>2. /\ pendingAlerts \in Seq(Alert) /\ Len(pendingAlerts) \in Nat /\ ages \in Seq(Nat)
        /\ Len(ages) = Len(pendingAlerts) /\ sinceTrigger \in Nat /\ sendTimer \in Int
        /\ Stagger \in Nat /\ N \in Nat
    BY ConstantTypes, LenProperties DEF IInv, TypeOK, Aging
  <2>3. ASSUME NEW i \in 1..Len(ages) PROVE ages[i] <= last
    <3>1. pendingAlerts # <<>> /\ Len(pendingAlerts) - 1 \in Nat
      BY <2>2, EmptySeq
    <3>2. last \in Int /\ rest \in Nat
      BY <2>2, <3>1
    <3>3. sendTimer >= 0
      BY <2>2, <3>1 DEF IInv, TypeOK, TimerGuardsQueue, Off
    <3>4. sinceTrigger + sendTimer + rest <= last
      BY <2>1, <3>1 DEF Drains
    <3>5. ages[i] <= sinceTrigger /\ ages[i] \in Nat
      BY <2>1, <2>2, ElementOfSeq DEF Drains
    <3> HIDE DEF last, rest
    <3> QED BY <2>2, <3>2, <3>3, <3>4, <3>5
  <2> QED BY <2>1, <2>3 DEF Drains
<1> QED BY Invariance, <1>1, PTL

(* The interval holds between any two sends of a broadcast, and under that *)
(* pace between any two sends.                                             *)
THEOREM KeepsStagger == Spec => StaggerHolds
<1>1. IInv /\ [Next]_vars =>
        [Len(sentLog') > Len(sentLog) =>
           \/ sinceSend >= Stagger
           \/ ~Paced /\ Head(pendingAlerts).triggerCreationTime
                          # sentLog[Len(sentLog)].triggerCreationTime]_sentLog
  <2> SUFFICES ASSUME IInv, [Next]_vars, sentLog' # sentLog
               PROVE  \/ sinceSend >= Stagger
                      \/ ~Paced /\ Head(pendingAlerts).triggerCreationTime
                                     # sentLog[Len(sentLog)].triggerCreationTime
    OBVIOUS
  <2>1. SendNextPending
    BY DEF Next, vars, logVars, Rebind, SendTrigger, Lose, BroadcastAlert, NothingPending, Tick
  <2>2. pendingAlerts # <<>> /\ sendTimer = 0 /\ pendingAlerts \in Seq(Alert)
    BY <2>1 DEF SendNextPending, IInv, TypeOK
  <2>3. Head(pendingAlerts) = pendingAlerts[1] /\ sinceSend \in Nat
    BY <2>2, ConstantTypes DEF IInv, TypeOK
  <2>4. sinceSend + sendTimer = sinceSend
    BY <2>2, <2>3
  <2> QED BY <2>2, <2>3, <2>4 DEF IInv, Staggered
<1> QED BY Invariance, <1>1, PTL DEF Spec, StaggerHolds
=============================================================================
