--------------------------- MODULE SatelliteChannel ---------------------------
(***************************************************************************)
(* The satellite radio: satellites that move in steps, transmissions whose *)
(* arrivals are computed from where the two ends are, receivers that can   *)
(* follow one signal at a time, and the framing of packets into code       *)
(* words.  All radios are full duplex and share one channel.               *)
(*                                                                         *)
(* A place is the radio's name and, for a satellite, the time its orbit    *)
(* was computed for; distance is Delay between two places.  The orbits     *)
(* repeat (enableRepeatCycle > 0, the default), and movement during        *)
(* a reception is ignored (ignoreMovementDuringReception, INET's default). *)
(***************************************************************************)
EXTENDS Integers, Sequences, Functions

CONSTANTS
  Satellites, Stations, Vehicles,  \* the radios, by kind
  Delay(_, _),                     \* propagation time between two places
  FallbackDelay,                   \* of 700 km
  UpdateInterval, CycleTime,       \* of the satellites' mobility
  CodeWord,                        \* of each radio's modulation, in bits
  HeaderLength, Payloads,          \* in bits
  Durations,                       \* of a transmission, in ticks
  MaxTime, MaxTransmissions        \* bounds

Radios == Satellites \cup Stations \cup Vehicles
Bytes(n) == n % 8 = 0

(* A vehicle without a valid module is placed in Japan.                    *)
Elsewhere == <<"fallback", 0>>
Places == Radios \X (0..CycleTime) \cup {Elsewhere}

ASSUME ChannelAssumption ==
  /\ Vehicles \cap (Satellites \cup Stations) = {}
  /\ {UpdateInterval, CycleTime} \subseteq Nat \ {0}
  /\ Durations \subseteq Nat \ {0} /\ FallbackDelay \in Nat
  /\ CodeWord \in [Radios -> 1..8]
  /\ Payloads \subseteq Nat /\ HeaderLength \in Nat
  /\ \A n \in Payloads \cup {HeaderLength} : Bytes(n)
  /\ \A from, to \in Places : Delay(from, to) \in Nat

None == 0  \* no transmission

VARIABLES
  now,
  orbit,              \* of each satellite: nextChange and intervalTimer
  moveTimer,          \* when each satellite's mobility timer fires
  vehicle,            \* external: the life of each vehicle
  SatellitePosition,  \* one for the whole program
  transmissions,      \* in the order they began
  signals,            \* <<number, radio>> -> its arrival there
  receptionTimer      \* of each radio: the transmission it is receiving

mobilityVars == <<orbit, moveTimer>>
mediumVars == <<SatellitePosition, transmissions, signals>>
vars == <<now, mobilityVars, vehicle, mediumVars, receptionTimer>>

-----------------------------------------------------------------------------
(* Mobility.                                                               *)

(* setTargetPosition: the orbit of the next change is computed now; past   *)
(* the end of a cycle the orbit is read again and starts over.             *)
SetTargetPosition(o) ==
  LET interval == o.intervalTimer + UpdateInterval
  IN  [nextChange |-> o.nextChange + UpdateInterval,
       intervalTimer |-> IF interval > CycleTime THEN 0 ELSE interval]

(* Mutant: every reader moves the satellite.                               *)
MovedByEach(asked) ==
  [s \in Satellites |-> IF s \in asked THEN SetTargetPosition(orbit[s]) ELSE orbit[s]]

(* move, which every reader of a position calls: only the first call at    *)
(* the instant of change moves the satellite.                              *)
Moved(asked) ==
  [s \in Satellites |-> IF s \in asked /\ orbit[s].nextChange = now
                        THEN SetTargetPosition(orbit[s]) ELSE orbit[s]]

Place(o, r) == <<r, IF r \in Satellites THEN o[r].intervalTimer ELSE 0>>

(* The mobility timer: at most one interval ahead, and not past the next   *)
(* change (MovingMobilityBase::scheduleUpdate).                            *)
Move(s) ==
  /\ now = moveTimer[s]
  /\ orbit' = Moved({s})
  /\ moveTimer' = [moveTimer EXCEPT ![s] =
       IF orbit'[s].nextChange < now + UpdateInterval
       THEN orbit'[s].nextChange ELSE now + UpdateInterval]
  /\ UNCHANGED <<now, vehicle, mediumVars, receptionTimer>>

-----------------------------------------------------------------------------
(* Framing.                                                                *)

(* computePaddingLength, without forward error correction.                 *)
PaddingLength(length, r) == (CodeWord[r] - (length % CodeWord[r])) % CodeWord[r]

Encapsulated(payload, r) == payload + PaddingLength(HeaderLength + payload, r)

(* Mutant: without the check for whole bytes.                              *)
DecapsulateAnyLength(data, payload, r) ==
  LET padding == PaddingLength(HeaderLength + payload, r)
      rest == IF padding <= data THEN data - padding ELSE data
  IN  [length |-> rest, bitError |-> padding > data \/ payload > rest]

(* decapsulate: the receiver removes the padding its own code word needs.  *)
Decapsulate(data, payload, r) ==
  LET padding == PaddingLength(HeaderLength + payload, r)
      rest == IF padding <= data THEN data - padding ELSE data
  IN  [length |-> rest,
       bitError |-> padding > data \/ ~Bytes(rest) \/ payload > rest]

-----------------------------------------------------------------------------
(* Transmission and propagation.                                           *)

Present == Satellites \cup Stations
             \cup {v \in Vehicles : vehicle[v] \in {"driving", "terminated"}}

Transmitting(r) == \E i \in DOMAIN transmissions :
                     /\ transmissions[i].sender = r
                     /\ now < transmissions[i].start + transmissions[i].duration

(* createTransmission: where the transmission starts from.                 *)
StartPosition(o, r) ==
  IF r \in Vehicles /\ vehicle[r] = "terminated" THEN Elsewhere ELSE Place(o, r)

(* Mutant: a satellite leaves the global position to the others.           *)
GlobalOfGroundOnly(o, r) ==
  IF r \in Satellites THEN SatellitePosition ELSE StartPosition(o, r)

(* Every branch of createTransmission overwrites the global position.      *)
GlobalPosition(o, r) == StartPosition(o, r)

(* computeArrival, over the positions in o: a satellite takes the start    *)
(* position out of the transmission, the others take the global position.  *)
(* Whether the signal can be received shows when it starts.                *)
ComputeArrival(t, global, o, r) ==
  LET lost == r \in Vehicles /\ vehicle[r] = "terminated"
      from == IF r \in Satellites THEN t.startPosition ELSE global
      delay == IF lost THEN FallbackDelay ELSE Delay(from, Place(o, r))
  IN  [from |-> IF lost THEN Elsewhere ELSE from,
       start |-> t.start + delay, end |-> t.start + delay + t.duration,
       state |-> "flying", possible |-> FALSE, length |-> 0, bitError |-> FALSE]

(* The medium computes all arrivals in the event of the transmission.  The *)
(* sender moves before its position is read, a receiving satellite after.  *)
Transmit(r) ==
  LET i == Len(transmissions) + 1
      receivers == Present \ {r}
      before == Moved({r})
  IN  /\ i <= MaxTransmissions
      /\ r \in Present
      /\ ~Transmitting(r)
      /\ \E payload \in Payloads, duration \in Durations :
           LET t == [sender |-> r, start |-> now, duration |-> duration,
                     startPosition |-> StartPosition(before, r),
                     payload |-> payload, length |-> Encapsulated(payload, r)]
               global == GlobalPosition(before, r)
           IN  /\ transmissions' = Append(transmissions, t)
               /\ SatellitePosition' = global
               /\ signals' = [ir \in DOMAIN signals \cup {i} \X receivers |->
                                IF ir[1] = i THEN ComputeArrival(t, global, before, ir[2])
                                             ELSE signals[ir]]
      /\ orbit' = Moved(Satellites)
      /\ UNCHANGED <<now, moveTimer, vehicle, receptionTimer>>

-----------------------------------------------------------------------------
(* Reception.                                                              *)

(* Mutant: a receiver that takes every new signal it can receive.          *)
AttemptedAlways(i, r, possible) == possible

Precedes(j, i, r) ==
  \/ signals[<<j, r>>].start < signals[<<i, r>>].start
  \/ signals[<<j, r>>].start = signals[<<i, r>>].start /\ j < i

(* computeIsReceptionAttempted of a signal that is possible, that is, in   *)
(* the receiver's band and above its sensitivity: when the signal starts,  *)
(* unless another one is being received; later, unless one that came       *)
(* before still is.                                                        *)
IsReceptionAttempted(i, r, possible) ==
  /\ possible
  /\ IF now = signals[<<i, r>>].start
     THEN receptionTimer[r] \in {None, i}
     ELSE \A j \in {k \in DOMAIN transmissions : <<k, r>> \in DOMAIN signals} :
            Precedes(j, i, r) => receptionTimer[r] # j

(* Radio::startReception.  The power a signal arrives with is that of path *)
(* loss and obstacles, and may be anything.                                *)
SignalStart(i, r) ==
  /\ signals[<<i, r>>].state = "flying"
  /\ now = signals[<<i, r>>].start
  /\ \E possible \in BOOLEAN :
       /\ signals' = [signals EXCEPT ![<<i, r>>].state = "arriving",
                                     ![<<i, r>>].possible = possible]
       /\ receptionTimer' = [receptionTimer EXCEPT
                               ![r] = IF IsReceptionAttempted(i, r, possible) THEN i ELSE @]
  /\ UNCHANGED <<now, mobilityVars, vehicle, SatellitePosition, transmissions>>

(* computeReceptionDecision, computeReceivedPacket and decapsulate: noise  *)
(* may spoil the packet, which is sent up all the same, with a mark.       *)
ReceivePacket(i, r, successful) ==
  LET frame == Decapsulate(transmissions[i].length, transmissions[i].payload, r)
      attempted == IsReceptionAttempted(i, r, signals[<<i, r>>].possible)
  IN  [signals[<<i, r>>] EXCEPT
         !.state = "sentUp",
         !.length = frame.length,
         !.bitError = frame.bitError \/ ~(attempted /\ successful)]

(* Radio::endReception *)
SignalEnd(i, r) ==
  /\ signals[<<i, r>>].state = "arriving"
  /\ now = signals[<<i, r>>].end
  /\ IF receptionTimer[r] = i
     THEN /\ \E successful \in BOOLEAN :
               signals' = [signals EXCEPT ![<<i, r>>] = ReceivePacket(i, r, successful)]
          /\ receptionTimer' = [receptionTimer EXCEPT ![r] = None]
     ELSE /\ signals' = [signals EXCEPT ![<<i, r>>].state = "missed"]
          /\ UNCHANGED receptionTimer
  /\ UNCHANGED <<now, mobilityVars, vehicle, SatellitePosition, transmissions>>

-----------------------------------------------------------------------------
(* Vehicles enter, are marked as terminated, and are deleted with their    *)
(* radio and the signals on their way to it.  For a new radio the medium   *)
(* computes the arrivals of the transmissions it has, from whatever the    *)
(* global position is by then; such a signal is kept as interference and   *)
(* never starts.  (The medium forgets old transmissions; here it has all.) *)
Enter(v) ==
  /\ vehicle[v] = "away"
  /\ vehicle' = [vehicle EXCEPT ![v] = "driving"]
  /\ LET new == (DOMAIN transmissions) \X {v}
         Arrival(i) == ComputeArrival(transmissions[i], SatellitePosition, orbit, v)
     IN  signals' = [ir \in DOMAIN signals \cup new |->
                       IF ir \in new THEN [Arrival(ir[1]) EXCEPT !.state = "cached"]
                                     ELSE signals[ir]]
  /\ UNCHANGED <<now, mobilityVars, SatellitePosition, transmissions, receptionTimer>>

Terminate(v) ==
  /\ vehicle[v] = "driving"
  /\ vehicle' = [vehicle EXCEPT ![v] = "terminated"]
  /\ UNCHANGED <<now, mobilityVars, mediumVars, receptionTimer>>

Exit(v) ==
  /\ vehicle[v] = "terminated"
  /\ vehicle' = [vehicle EXCEPT ![v] = "gone"]
  /\ signals' = Restrict(signals, {ir \in DOMAIN signals : ir[2] # v})
  /\ receptionTimer' = [receptionTimer EXCEPT ![v] = None]
  /\ UNCHANGED <<now, mobilityVars, SatellitePosition, transmissions>>

(* Time passes up to the next event.                                       *)
Tick ==
  /\ now < MaxTime
  /\ \A s \in Satellites : now < moveTimer[s]
  /\ \A ir \in DOMAIN signals : /\ signals[ir].state = "flying" => now < signals[ir].start
                                /\ signals[ir].state = "arriving" => now < signals[ir].end
  /\ now' = now + 1
  /\ UNCHANGED <<mobilityVars, vehicle, mediumVars, receptionTimer>>

(* initializePosition has computed the first target.                       *)
Init ==
  /\ now = 0
  /\ orbit = [s \in Satellites |-> SetTargetPosition([nextChange |-> 0, intervalTimer |-> 0])]
  /\ moveTimer = [s \in Satellites |-> UpdateInterval]
  /\ vehicle = [v \in Vehicles |-> "away"]
  /\ SatellitePosition = Elsewhere
  /\ transmissions = <<>>
  /\ signals = <<>>
  /\ receptionTimer = [r \in Radios |-> None]

Next ==
  \/ Tick
  \/ \E s \in Satellites : Move(s)
  \/ \E r \in Radios : Transmit(r)
  \/ \E ir \in DOMAIN signals : SignalStart(ir[1], ir[2]) \/ SignalEnd(ir[1], ir[2])
  \/ \E v \in Vehicles : Enter(v) \/ Terminate(v) \/ Exit(v)

Spec == Init /\ [][Next]_vars

-----------------------------------------------------------------------------
(* Properties.                                                             *)

(* Whoever asks first at the instant of change - the timer, a transmission *)
(* or an arrival - every satellite moves exactly once per interval: its    *)
(* next change is never more than one interval ahead, its timer never      *)
(* misses it, and through the first cycle its orbit is that of its next    *)
(* change.                                                                 *)
InStep ==
  \A s \in Satellites :
    LET o == orbit[s]
    IN  /\ now <= o.nextChange /\ o.nextChange <= now + UpdateInterval
        /\ moveTimer[s] \in {now, o.nextChange}
        /\ o.intervalTimer <= CycleTime /\ o.intervalTimer % UpdateInterval = 0
        /\ o.nextChange <= CycleTime => o.intervalTimer = o.nextChange

(* The documentation of enableRepeatCycle: the orbits repeat after the     *)
(* cycle time, so that a satellite is where it was one cycle earlier.      *)
RepeatsAfterCycleTime ==
  \A s \in Satellites :
    orbit[s].intervalTimer % CycleTime = orbit[s].nextChange % CycleTime

(* However many transmissions are in the air, and although most receivers  *)
(* read the sender's position from one global variable, each signal that   *)
(* will arrive is computed from where its own sender was when it started   *)
(* to send; only a receiver that is being deleted gets the fallback.  Not  *)
(* so for a vehicle that enters: it has every transmission before it come  *)
(* from the sender of the last one.                                        *)
ArrivalFromSender ==
  \A ir \in DOMAIN signals :
    LET FromSenderOf(i) ==
          /\ signals[ir].from = transmissions[i].startPosition
          /\ transmissions[i].startPosition[1] \in {transmissions[i].sender, "fallback"}
        before == {js \in DOMAIN signals : js[2] = ir[2] /\ signals[js].state = "cached"}
    IN  IF ir \in before
        THEN \E js \in before : (\A ks \in before : ks[1] <= js[1]) /\ FromSenderOf(js[1])
        ELSE \/ FromSenderOf(ir[1])
             \/ ir[2] \in Vehicles /\ vehicle[ir[2]] = "terminated"

(* A receiver follows the signal it could receive that arrived first:      *)
(* packets sent up from one radio were possible and never overlapped       *)
(* there, and a possible signal is only missed because an earlier one was  *)
(* still being received.                                                   *)
FirstSignalWins ==
  \A ir \in DOMAIN signals :
    LET r == ir[2]
        s == signals[ir]
        Followed(js) == \/ signals[js].state = "sentUp"
                        \/ receptionTimer[r] = js[1]
        others == {js \in DOMAIN signals : js[2] = r /\ js # ir /\ Followed(js)}
        Overlap(t) == t.start < s.end /\ s.start < t.end
        Holds(t) == t.start <= s.start /\ s.start <= t.end
    IN  /\ Followed(ir) => s.possible /\ \A js \in others : ~Overlap(signals[js])
        /\ s.state \in {"arriving", "missed"} /\ s.possible /\ ~Followed(ir) =>
             \E js \in others : Holds(signals[js])

(* Whatever modulations the two ends use, a packet that is sent up without *)
(* a bit error has the length it was sent with.                            *)
DeliveredIntact ==
  \A ir \in DOMAIN signals :
    signals[ir].state = "sentUp" /\ ~signals[ir].bitError =>
      signals[ir].length = transmissions[ir[1]].payload
=============================================================================
