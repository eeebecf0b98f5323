------------------------ MODULE SatelliteChannel_proofs ------------------------
(***************************************************************************)
(* Theorems about SatelliteChannel, for any number of radios, any delays,  *)
(* modulations and packet lengths: satellites stay in step, arrivals come  *)
(* from the sender, the first signal wins, packets are delivered intact.   *)
(***************************************************************************)
EXTENDS SatelliteChannel, SequenceTheorems, TLAPS

TransmissionType ==
  [sender : Radios, start : Nat, duration : Nat \ {0}, startPosition : Places,
   payload : Payloads, length : Nat]

SignalType ==
  [from : Places, start : Nat, end : Nat,
   state : {"flying", "arriving", "sentUp", "missed", "cached"}, possible : BOOLEAN,
   length : Int, bitError : BOOLEAN]

ChannelTypeOK ==
  /\ now \in Nat
  /\ orbit \in [Satellites -> [nextChange : Nat, intervalTimer : 0..CycleTime]]
  /\ moveTimer \in [Satellites -> Nat]
  /\ vehicle \in [Vehicles -> {"away", "driving", "terminated", "gone"}]
  /\ SatellitePosition \in Places
  /\ transmissions \in Seq(TransmissionType)
  /\ signals \in [DOMAIN signals -> SignalType]
  /\ DOMAIN signals \subseteq (1..Len(transmissions)) \X Radios
  /\ receptionTimer \in [Radios -> Nat]

(* A transmission starts where its sender is, and is framed for its code   *)
(* word.                                                                   *)
Sent(t) ==
  /\ t.startPosition[1] \in {t.sender, "fallback"}
  /\ t.length = Encapsulated(t.payload, t.sender)

(* The state of a signal is that of the clock.                             *)
Timely(s, clock) ==
  /\ s.start < s.end
  /\ s.state = "flying" => clock <= s.start
  /\ s.state = "arriving" => s.start <= clock /\ clock <= s.end
  /\ s.state \in {"sentUp", "missed"} => s.end <= clock

Followed(ir) == signals[ir].state = "sentUp" \/ receptionTimer[ir[2]] = ir[1]

(* A receiver follows a signal that is arriving.                           *)
Following ==
  \A r \in Radios : receptionTimer[r] # None =>
    /\ <<receptionTimer[r], r>> \in DOMAIN signals
    /\ signals[<<receptionTimer[r], r>>].state = "arriving"

(* The three parts of FirstSignalWins.                                     *)
OnlyPossible == \A ir \in DOMAIN signals : Followed(ir) => signals[ir].possible

NoOverlap ==
  \A ir, js \in DOMAIN signals :
    ir[2] = js[2] /\ ir # js /\ Followed(ir) /\ Followed(js) =>
      ~(signals[js].start < signals[ir].end /\ signals[ir].start < signals[js].end)

Excused ==
  \A ir \in DOMAIN signals :
    signals[ir].state \in {"arriving", "missed"} /\ signals[ir].possible /\ ~Followed(ir) =>
      \E js \in DOMAIN signals :
        /\ js[2] = ir[2] /\ js # ir /\ Followed(js)
        /\ signals[js].start <= signals[ir].start
        /\ signals[ir].start <= signals[js].end

(* The global position is that of the last transmission.                   *)
LastSent ==
  Len(transmissions) > 0 =>
    SatellitePosition = transmissions[Len(transmissions)].startPosition

(* A vehicle that is still to come receives nothing.                       *)
NotYet == \A ir \in DOMAIN signals : ir[2] \in Vehicles => vehicle[ir[2]] # "away"

(* ArrivalFromSender, signal by signal.                                    *)
Cached(r) == {js \in DOMAIN signals : js[2] = r /\ signals[js].state = "cached"}

FromSender(ir, i) ==
  /\ signals[ir].from = transmissions[i].startPosition
  /\ transmissions[i].startPosition[1] \in {transmissions[i].sender, "fallback"}

FromLast(ir) ==
  \E js \in Cached(ir[2]) : (\A ks \in Cached(ir[2]) : ks[1] <= js[1]) /\ FromSender(ir, js[1])

Placed(ir) ==
  IF ir \in Cached(ir[2])
  THEN FromLast(ir)
  ELSE FromSender(ir, ir[1]) \/ (ir[2] \in Vehicles /\ vehicle[ir[2]] = "terminated")

IInv ==
  /\ ChannelTypeOK
  /\ LastSent
  /\ NotYet
  /\ \A i \in 1..Len(transmissions) : Sent(transmissions[i])
  /\ \A ir \in DOMAIN signals : Timely(signals[ir], now)
  /\ Following
  /\ OnlyPossible
  /\ NoOverlap
  /\ Excused
  /\ \A ir \in DOMAIN signals : Placed(ir)
  /\ DeliveredIntact

-----------------------------------------------------------------------------
(* What the helpers return.                                                *)

(* A padding is shorter than a code word, and a code word has at most      *)
(* eight bits.                                                             *)
LEMMA PaddingType ==
  ASSUME NEW length \in Nat, NEW r \in Radios
  PROVE  PaddingLength(length, r) \in 0..7
<1> DEFINE c == CodeWord[r]
<1>1. c \in 1..8
  BY ChannelAssumption
<1>2. length % c \in 0..(c - 1)
  <2> HIDE DEF c
  <2> QED BY <1>1
<1>3. (c - (length % c)) % c \in 0..(c - 1)
  <2> DEFINE d == c - (length % c)
  <2>1. d \in 1..c
    <3> HIDE DEF c
    <3> QED BY <1>1, <1>2
  <2> HIDE DEF c, d
  <2>2. d % c \in 0..(c - 1)
    BY <1>1, <2>1
  <2> QED BY <2>2 DEF d
<1>4. PaddingLength(length, r) = (c - (length % c)) % c
  BY DEF PaddingLength
<1> HIDE DEF c
<1> QED BY <1>1, <1>3, <1>4

(* Without a bit error the padding was there and whole bytes are left, no  *)
(* fewer than the payload.                                                 *)
LEMMA SentUpWhole ==
  ASSUME NEW data \in Nat, NEW payload \in Nat, NEW r,
         PaddingLength(HeaderLength + payload, r) \in 0..7,
         ~Decapsulate(data, payload, r).bitError
  PROVE  LET padding == PaddingLength(HeaderLength + payload, r)
         IN /\ padding <= data /\ Bytes(data - padding) /\ payload <= data - padding
            /\ Decapsulate(data, payload, r).length = data - padding
<1> DEFINE padding == PaddingLength(HeaderLength + payload, r)
           rest == IF padding <= data THEN data - padding ELSE data
           bad == padding > data \/ ~Bytes(rest) \/ payload > rest
<1>1. Decapsulate(data, payload, r) = [length |-> rest, bitError |-> bad]
  BY DEF Decapsulate
<1> HIDE DEF padding, bad
<1>2. ~bad /\ Decapsulate(data, payload, r).length = rest
  BY <1>1
<1>3. padding <= data
  BY <1>2 DEF bad, padding
<1> QED BY <1>2, <1>3 DEF bad, padding

(* What decapsulate sends up without a bit error is as long as what was    *)
(* encapsulated: of two paddings under a byte, only equal ones leave whole *)
(* bytes.                                                                  *)
LEMMA DecapsulatedIntact ==
  ASSUME NEW payload \in Payloads, NEW sender \in Radios, NEW r \in Radios,
         ~Decapsulate(Encapsulated(payload, sender), payload, r).bitError
  PROVE  Decapsulate(Encapsulated(payload, sender), payload, r).length = payload
<1>1. payload \in Nat /\ HeaderLength + payload \in Nat /\ payload % 8 = 0
  BY ChannelAssumption DEF Bytes
<1> DEFINE sent == PaddingLength(HeaderLength + payload, sender)
           removed == PaddingLength(HeaderLength + payload, r)
           rest == payload + sent - removed
<1>2. sent \in 0..7 /\ removed \in 0..7
  BY <1>1, PaddingType
<1>3. /\ removed <= payload + sent /\ rest % 8 = 0 /\ payload <= rest
      /\ Decapsulate(Encapsulated(payload, sender), payload, r).length = rest
  <2>1. Encapsulated(payload, sender) = payload + sent /\ payload + sent \in Nat
    BY <1>1, <1>2 DEF Encapsulated
  <2> HIDE DEF sent
  <2>2. /\ removed <= payload + sent /\ Bytes(payload + sent - removed)
        /\ payload <= payload + sent - removed
        /\ Decapsulate(payload + sent, payload, r).length = payload + sent - removed
    BY <1>1, <1>2, <2>1, SentUpWhole
  <2> HIDE DEF removed
  <2> QED BY <2>1, <2>2 DEF Bytes
<1> HIDE DEF sent, removed
<1>4. sent = removed
  BY <1>1, <1>2, <1>3
<1> QED BY <1>1, <1>2, <1>3, <1>4

(* An encapsulated packet has a length.                                    *)
LEMMA EncapsulatedType ==
  ASSUME NEW payload \in Payloads, NEW r \in Radios
  PROVE  Encapsulated(payload, r) \in Nat
<1>1. payload \in Nat /\ HeaderLength + payload \in Nat
  BY ChannelAssumption
<1>2. PaddingLength(HeaderLength + payload, r) \in 0..7
  BY <1>1, PaddingType
<1> QED BY <1>1, <1>2 DEF Encapsulated

(* What decapsulate returns.                                               *)
LEMMA DecapsulateType ==
  ASSUME NEW data \in Nat, NEW payload \in Payloads, NEW r \in Radios
  PROVE  /\ Decapsulate(data, payload, r).length \in Int
         /\ Decapsulate(data, payload, r).bitError \in BOOLEAN
<1>1. payload \in Nat /\ HeaderLength + payload \in Nat
  BY ChannelAssumption
<1>2. PaddingLength(HeaderLength + payload, r) \in 0..7
  BY <1>1, PaddingType
<1> QED BY <1>1, <1>2 DEF Decapsulate

(* A satellite's next orbit lies in its cycle.                             *)
LEMMA MovedType ==
  ASSUME ChannelTypeOK, NEW asked
  PROVE  Moved(asked) \in [Satellites -> [nextChange : Nat, intervalTimer : 0..CycleTime]]
<1> SUFFICES ASSUME NEW s \in Satellites
             PROVE  Moved(asked)[s] \in [nextChange : Nat, intervalTimer : 0..CycleTime]
  BY DEF Moved
<1>1. /\ orbit[s] \in [nextChange : Nat, intervalTimer : 0..CycleTime]
      /\ UpdateInterval \in Nat /\ CycleTime \in Nat
  BY ChannelAssumption DEF ChannelTypeOK
<1>2. SetTargetPosition(orbit[s]) \in [nextChange : Nat, intervalTimer : 0..CycleTime]
  BY <1>1 DEF SetTargetPosition
<1> QED BY <1>1, <1>2 DEF Moved

(* A radio is somewhere.                                                   *)
LEMMA PlaceType ==
  ASSUME NEW o \in [Satellites -> [nextChange : Nat, intervalTimer : 0..CycleTime]],
         NEW r \in Radios
  PROVE  /\ Place(o, r) \in Places /\ Place(o, r)[1] = r
         /\ StartPosition(o, r) \in Places /\ StartPosition(o, r)[1] \in {r, "fallback"}
<1>1. CycleTime \in Nat /\ 0 \in 0..CycleTime
  BY ChannelAssumption
<1> QED BY <1>1 DEF Place, StartPosition, Places, Elsewhere

(* A new signal is on its way from the position it is computed with.       *)
LEMMA ArrivalType ==
  ASSUME ChannelTypeOK, NEW t \in TransmissionType, NEW global \in Places,
         NEW o \in [Satellites -> [nextChange : Nat, intervalTimer : 0..CycleTime]],
         NEW r \in Radios,
         NEW s, s = ComputeArrival(t, global, o, r)
  PROVE  /\ s \in SignalType /\ s.start < s.end /\ t.start <= s.start
         /\ s.state = "flying"
         /\ \/ s.from = IF r \in Satellites THEN t.startPosition ELSE global
            \/ r \in Vehicles /\ vehicle[r] = "terminated"
<1> DEFINE lost == r \in Vehicles /\ vehicle[r] = "terminated"
           from == IF r \in Satellites THEN t.startPosition ELSE global
           delay == IF lost THEN FallbackDelay ELSE Delay(from, Place(o, r))
<1>1. t.start \in Nat /\ t.duration \in Nat \ {0} /\ from \in Places /\ Elsewhere \in Places
  BY DEF TransmissionType, Places
<1>2. delay \in Nat
  BY <1>1, PlaceType, ChannelAssumption
<1>3. s =
        [from |-> IF lost THEN Elsewhere ELSE from,
         start |-> t.start + delay, end |-> t.start + delay + t.duration,
         state |-> "flying", possible |-> FALSE, length |-> 0, bitError |-> FALSE]
  BY DEF ComputeArrival
<1>4. s.from = from \/ lost
  BY <1>3
<1> HIDE DEF delay, from, lost
<1>5. s \in SignalType
  BY <1>1, <1>2, <1>3 DEF SignalType
<1> QED BY <1>1, <1>2, <1>3, <1>4, <1>5 DEF from, lost

(* A signal keeps its place while the transmissions it refers to stay.     *)
LEMMA StaysPlaced ==
  ASSUME NEW ir \in DOMAIN signals, ChannelTypeOK, Placed(ir),
         signals'[ir].from = signals[ir].from, Cached(ir[2])' = Cached(ir[2]),
         \A k \in 1..Len(transmissions) : transmissions'[k] = transmissions[k],
         ir[2] \in Vehicles /\ vehicle[ir[2]] = "terminated" =>
           vehicle'[ir[2]] = "terminated"
  PROVE  Placed(ir)'
<1>1. \A js \in DOMAIN signals : js[1] \in 1..Len(transmissions)
  BY DEF ChannelTypeOK
<1>2. \A k \in 1..Len(transmissions) : FromSender(ir, k) => FromSender(ir, k)'
  BY DEF FromSender
<1>3. CASE ir \in Cached(ir[2])
  <2>1. PICK js \in Cached(ir[2]) :
          (\A ks \in Cached(ir[2]) : ks[1] <= js[1]) /\ FromSender(ir, js[1])
    BY <1>3 DEF Placed, FromLast
  <2>2. FromSender(ir, js[1])'
    BY <1>1, <1>2, <2>1 DEF Cached
  <2>3. FromLast(ir)'
    BY <2>1, <2>2 DEF FromLast
  <2> QED BY <1>3, <2>3 DEF Placed
<1>4. CASE ir \notin Cached(ir[2])
  BY <1>1, <1>2, <1>4 DEF Placed
<1> QED BY <1>3, <1>4

(* The invariant's form of ArrivalFromSender.                              *)
LEMMA PlacedIsArrival == (\A ir \in DOMAIN signals : Placed(ir)) => ArrivalFromSender
BY DEF Placed, FromLast, FromSender, Cached, ArrivalFromSender

-----------------------------------------------------------------------------
(* At the start nothing is in the air.                                     *)
LEMMA InitIInv == Init => IInv
<1> SUFFICES ASSUME Init PROVE IInv
  OBVIOUS
<1>1. /\ transmissions = <<>> /\ signals = <<>> /\ now = 0
      /\ Len(transmissions) = 0 /\ DOMAIN signals = {}
  BY DEF Init
<1>2. orbit \in [Satellites -> [nextChange : Nat, intervalTimer : 0..CycleTime]]
  <2>1. UpdateInterval \in Nat /\ CycleTime \in Nat
    BY ChannelAssumption
  <2>2. SetTargetPosition([nextChange |-> 0, intervalTimer |-> 0])
          \in [nextChange : Nat, intervalTimer : 0..CycleTime]
    BY <2>1 DEF SetTargetPosition
  <2> QED BY <2>2 DEF Init
<1>3. ChannelTypeOK
  BY <1>1, <1>2, ChannelAssumption DEF Init, ChannelTypeOK, None, Places
<1>4. LastSent /\ NotYet /\ Following /\ OnlyPossible /\ NoOverlap /\ Excused /\ DeliveredIntact
  BY <1>1 DEF Init, LastSent, NotYet, Following, OnlyPossible, NoOverlap, Excused,
              DeliveredIntact
<1> QED BY <1>1, <1>3, <1>4 DEF IInv

(* Steps off the air: a satellite moves, a vehicle is marked.              *)
LEMMA OffAirStep ==
  ASSUME IInv, UNCHANGED <<now, SatellitePosition, transmissions, signals, receptionTimer>>,
         orbit' \in [Satellites -> [nextChange : Nat, intervalTimer : 0..CycleTime]],
         moveTimer' \in [Satellites -> Nat],
         vehicle' \in [Vehicles -> {"away", "driving", "terminated", "gone"}],
         \A v \in Vehicles : /\ vehicle[v] = "terminated" => vehicle'[v] = "terminated"
                             /\ vehicle'[v] = "away" => vehicle[v] = "away"
  PROVE  IInv'
<1>1. ChannelTypeOK' /\ LastSent' /\ NotYet'
  BY DEF IInv, ChannelTypeOK, LastSent, NotYet
<1>2. DeliveredIntact'
  BY DEF IInv, DeliveredIntact
<1>3. Following' /\ OnlyPossible' /\ NoOverlap' /\ Excused'
  BY DEF IInv, Following, OnlyPossible, NoOverlap, Excused, Followed
<1>4. \A ir \in DOMAIN signals : Placed(ir)'
  <2> SUFFICES ASSUME NEW ir \in DOMAIN signals PROVE Placed(ir)'
    OBVIOUS
  <2>1. Cached(ir[2])' = Cached(ir[2])
    BY DEF Cached
  <2>2. Placed(ir) /\ ChannelTypeOK
    BY DEF IInv
  <2> QED BY <2>1, <2>2, StaysPlaced
<1> QED BY <1>1, <1>2, <1>3, <1>4 DEF IInv, Timely

(* Time passes no signal's start or end.                                   *)
LEMMA TickStep == IInv /\ Tick => IInv'
<1> SUFFICES ASSUME IInv, Tick PROVE IInv'
  OBVIOUS
<1>1. /\ now' = now + 1 /\ now \in Nat
      /\ UNCHANGED <<orbit, moveTimer, vehicle, SatellitePosition, transmissions, signals,
                     receptionTimer>>
  BY DEF Tick, mobilityVars, mediumVars, IInv, ChannelTypeOK
<1>2. ChannelTypeOK' /\ LastSent' /\ NotYet'
  BY <1>1 DEF IInv, ChannelTypeOK, LastSent, NotYet
<1>3. \A ir \in DOMAIN signals : Timely(signals[ir], now)'
  <2> SUFFICES ASSUME NEW ir \in DOMAIN signals PROVE Timely(signals[ir], now)'
    OBVIOUS
  <2>1. /\ signals[ir].start \in Nat /\ signals[ir].end \in Nat /\ Timely(signals[ir], now)
        /\ signals[ir].state \in {"flying", "arriving", "sentUp", "missed", "cached"}
    BY DEF IInv, ChannelTypeOK, SignalType
  <2>2. /\ signals[ir].state = "flying" => now < signals[ir].start
        /\ signals[ir].state = "arriving" => now < signals[ir].end
    BY DEF Tick
  <2> QED BY <1>1, <2>1, <2>2 DEF Timely
<1>4. DeliveredIntact' /\ \A ir \in DOMAIN signals : Placed(ir)'
  BY <1>1 DEF IInv, DeliveredIntact, Placed, FromLast, FromSender, Cached
<1>5. Following' /\ OnlyPossible' /\ NoOverlap' /\ Excused'
  BY <1>1 DEF IInv, Following, OnlyPossible, NoOverlap, Excused, Followed
<1> QED BY <1>1, <1>2, <1>3, <1>4, <1>5 DEF IInv

(* A transmission adds signals that nobody follows yet.                    *)
LEMMA TransmitStep ==
  ASSUME IInv, NEW r \in Radios, Transmit(r)
  PROVE  IInv'
<1> DEFINE i == Len(transmissions) + 1
           receivers == Present \ {r}
           before == Moved({r})
           new == {i} \X receivers
<1>1. PICK payload \in Payloads, duration \in Durations :
        LET t == [sender |-> r, start |-> now, duration |-> duration,
                  startPosition |-> StartPosition(before, r),
                  payload |-> payload, length |-> Encapsulated(payload, r)]
        IN  /\ transmissions' = Append(transmissions, t)
            /\ SatellitePosition' = GlobalPosition(before, r)
            /\ signals' = [ir \in DOMAIN signals \cup new |->
                             IF ir[1] = i
                             THEN ComputeArrival(t, GlobalPosition(before, r), before, ir[2])
                             ELSE signals[ir]]
  BY DEF Transmit
<1> DEFINE t == [sender |-> r, start |-> now, duration |-> duration,
                 startPosition |-> StartPosition(before, r),
                 payload |-> payload, length |-> Encapsulated(payload, r)]
<1>2. /\ ChannelTypeOK /\ transmissions \in Seq(TransmissionType) /\ now \in Nat
      /\ UNCHANGED <<now, moveTimer, vehicle, receptionTimer>>
      /\ orbit' = Moved(Satellites) /\ receivers \subseteq Radios
  BY DEF IInv, ChannelTypeOK, Transmit, Present, Radios
<1>3. /\ before \in [Satellites -> [nextChange : Nat, intervalTimer : 0..CycleTime]]
      /\ orbit' \in [Satellites -> [nextChange : Nat, intervalTimer : 0..CycleTime]]
  BY <1>2, MovedType
<1>4. t \in TransmissionType /\ Sent(t)
  <2>1. StartPosition(before, r) \in Places /\ StartPosition(before, r)[1] \in {r, "fallback"}
    BY <1>3, PlaceType
  <2>2. Encapsulated(payload, r) \in Nat /\ duration \in Nat \ {0}
    BY EncapsulatedType, ChannelAssumption
  <2> HIDE DEF before
  <2> QED BY <1>2, <2>1, <2>2 DEF TransmissionType, Sent
<1>5. /\ Len(transmissions) \in Nat /\ Len(transmissions') = i
      /\ transmissions' \in Seq(TransmissionType)
      /\ transmissions'[i] = t
      /\ \A k \in 1..Len(transmissions) : transmissions'[k] = transmissions[k]
  <2> HIDE DEF t
  <2>1. transmissions' = Append(transmissions, t)
    BY <1>1 DEF t
  <2> QED BY <1>2, <1>4, <2>1, AppendProperties, LenProperties
<1>6. /\ DOMAIN signals \subseteq (1..Len(transmissions)) \X Radios
      /\ new \subseteq {i} \X Radios
      /\ DOMAIN signals' = DOMAIN signals \cup new
  <2>1. DOMAIN signals' = DOMAIN signals \cup new
    BY <1>1
  <2> HIDE DEF i, before
  <2> QED BY <1>2, <2>1 DEF ChannelTypeOK
<1>7. \A ir \in DOMAIN signals : ir[1] # i /\ ir \in DOMAIN signals' /\ signals'[ir] = signals[ir]
  <2>1. \A ir \in DOMAIN signals : ir[1] \in 1..Len(transmissions)
    BY <1>6
  <2>2. \A ir \in DOMAIN signals : ir[1] # i
    BY <1>5, <2>1
  <2> HIDE DEF i, before, new
  <2> QED BY <1>1, <1>6, <2>2
<1>8. ASSUME NEW ir \in new
      PROVE  /\ ir \in DOMAIN signals' /\ ir[1] = i /\ ir[2] \in Radios
             /\ signals'[ir] \in SignalType /\ Timely(signals'[ir], now)
             /\ signals'[ir].state = "flying"
             /\ ir[2] \in Vehicles => vehicle[ir[2]] # "away"
             /\ \/ signals'[ir].from = t.startPosition
                \/ ir[2] \in Vehicles /\ vehicle[ir[2]] = "terminated"
  <2>1. ir \in DOMAIN signals' /\ ir[1] = i /\ ir[2] \in Radios
    BY <1>6
  <2>6. ir[2] \in Vehicles => vehicle[ir[2]] # "away"
    <3>1. ir[2] \in Present
      OBVIOUS
    <3>2. ir[2] \in Vehicles => ir[2] \notin Satellites \cup Stations
      BY ChannelAssumption
    <3> QED BY <3>1, <3>2 DEF Present
  <2>2. signals'[ir] = ComputeArrival(t, t.startPosition, before, ir[2])
    <3>1. t.startPosition = GlobalPosition(before, r)
      BY DEF GlobalPosition
    <3> QED BY <1>1, <2>1, <3>1
  <2>3. t.start = now /\ t.startPosition \in Places
    BY <1>4 DEF TransmissionType
  <2> DEFINE s == ComputeArrival(t, t.startPosition, before, ir[2])
  <2>4. /\ s \in SignalType /\ Timely(s, now) /\ s.state = "flying"
        /\ \/ s.from = t.startPosition
           \/ ir[2] \in Vehicles /\ vehicle[ir[2]] = "terminated"
    <3>1. s = ComputeArrival(t, t.startPosition, before, ir[2])
      OBVIOUS
    <3> HIDE DEF t, before, s
    <3>2. /\ s \in SignalType /\ s.start < s.end /\ t.start <= s.start /\ s.state = "flying"
          /\ \/ s.from = IF ir[2] \in Satellites THEN t.startPosition ELSE t.startPosition
             \/ ir[2] \in Vehicles /\ vehicle[ir[2]] = "terminated"
      BY ONLY <3>1, <1>2, <1>3, <1>4, <2>1, <2>3, ArrivalType
    <3> QED BY <2>3, <3>2 DEF Timely
  <2> HIDE DEF s, t
  <2>5. signals'[ir] = s
    BY <2>2 DEF s
  <2> QED BY <2>1, <2>4, <2>5, <2>6
<1>8a. SatellitePosition' = t.startPosition /\ t.startPosition \in Places
  <2>1. SatellitePosition' = GlobalPosition(before, r)
    BY <1>1
  <2> QED BY <1>4, <2>1 DEF GlobalPosition, TransmissionType
<1> HIDE DEF t, before, new
<1>9. \A ir \in DOMAIN signals' : ir \in DOMAIN signals \/ ir \in new
  BY <1>6
<1>10. \A ir \in DOMAIN signals : Followed(ir)' <=> Followed(ir)
  BY <1>2, <1>7 DEF Followed
<1>11. \A ir \in new : ~Followed(ir)'
  <2> SUFFICES ASSUME NEW ir \in new PROVE ~Followed(ir)'
    OBVIOUS
  <2>1. signals'[ir].state = "flying" /\ ir[1] = i /\ ir[2] \in Radios
    BY <1>8
  <2>2. receptionTimer[ir[2]] # i
    <3>1. ASSUME receptionTimer[ir[2]] = i PROVE FALSE
      <4>1. i # None
        BY <1>5 DEF None
      <4>2. <<i, ir[2]>> \in DOMAIN signals
        BY <2>1, <3>1, <4>1 DEF IInv, Following
      <4> QED BY <1>7, <4>2
    <3> QED BY <3>1
  <2> QED BY <1>2, <2>1, <2>2 DEF Followed
<1>12. ChannelTypeOK'
  <2>1. DOMAIN signals' \subseteq (1..Len(transmissions')) \X Radios
    <3>1. 1..Len(transmissions) \subseteq 1..i /\ i \in 1..i
      BY <1>5
    <3> HIDE DEF i
    <3> QED BY <1>5, <1>6, <3>1
  <2>2. signals' \in [DOMAIN signals' -> SignalType]
    <3>1. \A ir \in DOMAIN signals' : signals'[ir] \in SignalType
      BY <1>2, <1>7, <1>8, <1>9 DEF ChannelTypeOK
    <3>2. signals' = [ir \in DOMAIN signals' |-> signals'[ir]]
      BY <1>1
    <3> QED BY <3>1, <3>2
  <2> QED BY <1>2, <1>3, <1>5, <1>8a, <2>1, <2>2 DEF ChannelTypeOK
<1>12a. LastSent' /\ NotYet'
  <2>1. LastSent'
    BY <1>5, <1>8a DEF LastSent
  <2>2. NotYet'
    BY <1>2, <1>8, <1>9 DEF IInv, NotYet
  <2> QED BY <2>1, <2>2
<1>13. \A k \in 1..Len(transmissions') : Sent(transmissions'[k])
  <2> SUFFICES ASSUME NEW k \in 1..Len(transmissions') PROVE Sent(transmissions'[k])
    OBVIOUS
  <2>1. k \in 1..Len(transmissions) \/ k = i
    BY <1>5
  <2> QED BY <1>4, <1>5, <2>1 DEF IInv
<1>14. \A ir \in DOMAIN signals' : Timely(signals'[ir], now')
  BY <1>2, <1>7, <1>8, <1>9 DEF IInv, Timely
<1>15. Following'
  BY <1>2, <1>7 DEF IInv, Following
<1>15a. OnlyPossible'
  BY <1>7, <1>9, <1>10, <1>11 DEF IInv, OnlyPossible
<1>16. NoOverlap'
  BY <1>7, <1>9, <1>10, <1>11 DEF IInv, NoOverlap
<1>17. Excused'
  <2> SUFFICES ASSUME NEW ir \in DOMAIN signals', signals'[ir].possible,
                      signals'[ir].state \in {"arriving", "missed"}, ~Followed(ir)'
               PROVE  \E js \in DOMAIN signals' :
                        /\ js[2] = ir[2] /\ js # ir /\ Followed(js)'
                        /\ signals'[js].start <= signals'[ir].start
                        /\ signals'[ir].start <= signals'[js].end
    BY DEF Excused
  <2>1. ir \in DOMAIN signals
    BY <1>8, <1>9
  <2>2. PICK js \in DOMAIN signals :
          /\ js[2] = ir[2] /\ js # ir /\ Followed(js)
          /\ signals[js].start <= signals[ir].start
          /\ signals[ir].start <= signals[js].end
    BY <1>7, <1>10, <2>1 DEF IInv, Excused
  <2> QED BY <1>7, <1>10, <2>1, <2>2
<1>18. \A ir \in DOMAIN signals' : Placed(ir)'
  <2> SUFFICES ASSUME NEW ir \in DOMAIN signals' PROVE Placed(ir)'
    OBVIOUS
  <2>1. \A q \in Radios : Cached(q)' = Cached(q)
    BY <1>7, <1>8, <1>9 DEF Cached
  <2>2. CASE ir \in DOMAIN signals
    <3>1. /\ signals'[ir].from = signals[ir].from /\ Cached(ir[2])' = Cached(ir[2])
          /\ Placed(ir)
          /\ ir[2] \in Vehicles => vehicle'[ir[2]] = vehicle[ir[2]]
      BY <1>2, <1>6, <1>7, <2>1, <2>2 DEF IInv
    <3> QED BY <1>2, <1>5, <2>2, <3>1, StaysPlaced
  <2>3. CASE ir \in new
    <3>1. /\ ir[1] = i /\ transmissions'[i] = t /\ vehicle' = vehicle
          /\ ir \notin Cached(ir[2])'
      BY <1>2, <1>5, <1>8, <2>3 DEF Cached
    <3>2. FromSender(ir, ir[1])' \/ (ir[2] \in Vehicles /\ vehicle[ir[2]] = "terminated")
      BY <1>4, <1>8, <2>3, <3>1 DEF Sent, FromSender
    <3> QED BY <3>1, <3>2 DEF Placed
  <2> QED BY <1>9, <2>2, <2>3
<1>19. DeliveredIntact'
  <2> SUFFICES ASSUME NEW ir \in DOMAIN signals', signals'[ir].state = "sentUp",
                      ~signals'[ir].bitError
               PROVE  signals'[ir].length = transmissions'[ir[1]].payload
    BY DEF DeliveredIntact
  <2>1. ir \in DOMAIN signals
    BY <1>8, <1>9
  <2>2. ir[1] \in 1..Len(transmissions)
    BY <1>6, <2>1
  <2> QED BY <1>5, <1>7, <2>1, <2>2 DEF IInv, DeliveredIntact
<1> QED BY <1>12, <1>12a, <1>13, <1>14, <1>15, <1>15a, <1>16, <1>17, <1>18, <1>19 DEF IInv

(* A vehicle that enters gets arrivals of what was sent before, all from   *)
(* the last sender, and follows none of them.                              *)
LEMMA EnterStep ==
  ASSUME IInv, NEW v \in Vehicles, Enter(v)
  PROVE  IInv'
<1> DEFINE n == Len(transmissions)
           new == (1..n) \X {v}
           Arrival(i) == ComputeArrival(transmissions[i], SatellitePosition, orbit, v)
<1>1. /\ ChannelTypeOK /\ n \in Nat /\ now \in Nat /\ v \in Radios
      /\ v \notin Satellites /\ vehicle[v] = "away"
      /\ vehicle' = [vehicle EXCEPT ![v] = "driving"]
      /\ UNCHANGED <<now, orbit, moveTimer, SatellitePosition, transmissions, receptionTimer>>
  BY ChannelAssumption, LenProperties DEF IInv, ChannelTypeOK, Enter, mobilityVars, Radios
<1>2. /\ DOMAIN signals' = DOMAIN signals \cup new
      /\ \A ir \in new : signals'[ir] = [Arrival(ir[1]) EXCEPT !.state = "cached"]
      /\ \A ir \in DOMAIN signals : ir \notin new => signals'[ir] = signals[ir]
      /\ signals' = [ir \in DOMAIN signals' |-> signals'[ir]]
  <2>1. DOMAIN transmissions = 1..n
    BY <1>1, LenProperties DEF ChannelTypeOK
  <2>2. signals' = [ir \in DOMAIN signals \cup new |->
                     IF ir \in new THEN [Arrival(ir[1]) EXCEPT !.state = "cached"]
                                   ELSE signals[ir]]
    BY <2>1 DEF Enter
  <2> HIDE DEF new, Arrival
  <2> QED BY <2>2
<1>3. \A ir \in DOMAIN signals : ir[2] # v /\ ir \notin new /\ ir \in (1..n) \X Radios
  BY <1>1 DEF IInv, NotYet, ChannelTypeOK
<1>4. ASSUME NEW ir \in new
      PROVE  /\ ir[1] \in 1..n /\ ir[2] = v /\ signals'[ir] \in SignalType
             /\ signals'[ir].start < signals'[ir].end /\ signals'[ir].state = "cached"
             /\ signals'[ir].from = SatellitePosition
  <2>1. ir[1] \in 1..n /\ ir[2] = v /\ transmissions[ir[1]] \in TransmissionType
    <3>1. ir[1] \in 1..n /\ ir[2] = v
      OBVIOUS
    <3> QED BY <1>1, <3>1, ElementOfSeq DEF ChannelTypeOK
  <2> DEFINE s == Arrival(ir[1])
  <2>2. /\ s \in SignalType /\ s.start < s.end
        /\ \/ s.from = IF v \in Satellites THEN transmissions[ir[1]].startPosition
                       ELSE SatellitePosition
           \/ v \in Vehicles /\ vehicle[v] = "terminated"
    <3> DEFINE t == transmissions[ir[1]]
    <3>1. t \in TransmissionType /\ s = ComputeArrival(t, SatellitePosition, orbit, v)
      BY <2>1
    <3>2. /\ SatellitePosition \in Places
          /\ orbit \in [Satellites -> [nextChange : Nat, intervalTimer : 0..CycleTime]]
      BY <1>1 DEF ChannelTypeOK
    <3> HIDE DEF t, s
    <3>3. /\ s \in SignalType /\ s.start < s.end
          /\ \/ s.from = IF v \in Satellites THEN t.startPosition ELSE SatellitePosition
             \/ v \in Vehicles /\ vehicle[v] = "terminated"
      BY ONLY <1>1, <3>1, <3>2, ArrivalType
    <3> QED BY <3>3 DEF t
  <2>3. signals'[ir] = [s EXCEPT !.state = "cached"]
    BY <1>2
  <2> HIDE DEF s
  <2>4. s.from = SatellitePosition
    BY <1>1, <2>2
  <2> QED BY <2>1, <2>2, <2>3, <2>4 DEF SignalType
<1>5. \A ir \in DOMAIN signals : /\ ir \in DOMAIN signals' /\ signals'[ir] = signals[ir]
                                 /\ ir[2] # v /\ ir[1] \in 1..n /\ ir[2] \in Radios
  BY <1>2, <1>3
<1>6. \A ir \in DOMAIN signals' : ir \in DOMAIN signals \/ ir \in new
  BY <1>2
<1> HIDE DEF new, Arrival
<1>7. receptionTimer[v] = None
  BY <1>1, <1>5 DEF IInv, Following
<1>8. /\ \A ir \in DOMAIN signals : Followed(ir)' <=> Followed(ir)
      /\ \A ir \in new : ~Followed(ir)'
  BY <1>1, <1>4, <1>5, <1>7 DEF Followed, None
<1>9. ChannelTypeOK'
  <2>1. signals' \in [DOMAIN signals' -> SignalType]
    <3>1. \A ir \in DOMAIN signals' : signals'[ir] \in SignalType
      BY <1>1, <1>4, <1>5, <1>6 DEF ChannelTypeOK
    <3> QED BY <1>2, <3>1
  <2>2. DOMAIN signals' \subseteq (1..n) \X Radios
    BY <1>1, <1>2, <1>3 DEF new
  <2>3. vehicle' \in [Vehicles -> {"away", "driving", "terminated", "gone"}]
    BY <1>1 DEF ChannelTypeOK
  <2> QED BY <1>1, <2>1, <2>2, <2>3 DEF ChannelTypeOK
<1>10. LastSent' /\ NotYet'
  <2>1. \A w \in Vehicles : vehicle'[w] = IF w = v THEN "driving" ELSE vehicle[w]
    BY <1>1 DEF ChannelTypeOK
  <2> QED BY <1>1, <1>4, <1>5, <1>6, <2>1 DEF IInv, LastSent, NotYet
<1>11. \A ir \in DOMAIN signals' : Timely(signals'[ir], now')
  BY <1>1, <1>4, <1>5, <1>6 DEF IInv, Timely
<1>12. Following'
  BY <1>1, <1>5 DEF IInv, Following
<1>13. OnlyPossible' /\ NoOverlap'
  BY <1>5, <1>6, <1>8 DEF IInv, OnlyPossible, NoOverlap
<1>14. Excused'
  <2> SUFFICES ASSUME NEW ir \in DOMAIN signals', signals'[ir].possible,
                      signals'[ir].state \in {"arriving", "missed"}, ~Followed(ir)'
               PROVE  \E js \in DOMAIN signals' :
                        /\ js[2] = ir[2] /\ js # ir /\ Followed(js)'
                        /\ signals'[js].start <= signals'[ir].start
                        /\ signals'[ir].start <= signals'[js].end
    BY DEF Excused
  <2>1. ir \in DOMAIN signals
    BY <1>4, <1>6
  <2>2. PICK js \in DOMAIN signals :
          /\ js[2] = ir[2] /\ js # ir /\ Followed(js)
          /\ signals[js].start <= signals[ir].start
          /\ signals[ir].start <= signals[js].end
    BY <1>5, <1>8, <2>1 DEF IInv, Excused
  <2> QED BY <1>5, <1>8, <2>1, <2>2
<1>15. \A ir \in DOMAIN signals' : Placed(ir)'
  <2> SUFFICES ASSUME NEW ir \in DOMAIN signals' PROVE Placed(ir)'
    OBVIOUS
  <2>1. CASE ir \in DOMAIN signals
    <3>1. Cached(ir[2])' = Cached(ir[2])
      BY <1>4, <1>5, <1>6, <2>1 DEF Cached
    <3>2. /\ signals'[ir].from = signals[ir].from /\ Placed(ir)
          /\ ir[2] \in Vehicles /\ vehicle[ir[2]] = "terminated" =>
               vehicle'[ir[2]] = "terminated"
      BY <1>1, <1>5, <2>1 DEF IInv, ChannelTypeOK
    <3> QED BY <1>1, <2>1, <3>1, <3>2, StaysPlaced
  <2>2. CASE ir \in new
    <3>1. Cached(v)' = new
      <4>1. \A js \in new : js \in DOMAIN signals'
        BY <1>2
      <4> QED BY <1>4, <1>5, <1>6, <4>1 DEF Cached
    <3>2. n \in 1..n
      BY <1>1, <1>4, <2>2
    <3>3. PICK js \in new : js[1] = n /\ \A ks \in new : ks[1] <= js[1]
      <4>1. <<n, v>> \in new /\ \A ks \in new : ks[1] <= n
        BY <1>1, <1>4, <3>2 DEF new
      <4> QED BY <4>1
    <3>4. FromSender(ir, js[1])'
      <4>1. Sent(transmissions[n]) /\ SatellitePosition = transmissions[n].startPosition
        BY <1>1, <3>2 DEF IInv, LastSent
      <4> QED BY <1>1, <1>4, <2>2, <3>3, <4>1 DEF FromSender, Sent
    <3>5. ir[2] = v
      BY <1>4, <2>2
    <3>6. FromLast(ir)'
      BY <3>1, <3>3, <3>4, <3>5 DEF FromLast
    <3> QED BY <2>2, <3>1, <3>5, <3>6 DEF Placed
  <2> QED BY <1>6, <2>1, <2>2
<1>16. DeliveredIntact'
  BY <1>1, <1>4, <1>5, <1>6 DEF IInv, DeliveredIntact
<1>17. \A k \in 1..Len(transmissions') : Sent(transmissions'[k])
  BY <1>1 DEF IInv
<1> QED BY <1>9, <1>10, <1>11, <1>12, <1>13, <1>14, <1>15, <1>16, <1>17 DEF IInv

(* A signal that starts is followed by an idle receiver; by a busy one it  *)
(* is excused by the signal that is being followed.                        *)
LEMMA SignalStartStep ==
  ASSUME IInv, NEW i, NEW r, <<i, r>> \in DOMAIN signals, SignalStart(i, r)
  PROVE  IInv'
<1> DEFINE ir == <<i, r>>
<1>0. PICK possible \in BOOLEAN :
        /\ signals' = [signals EXCEPT ![ir].state = "arriving", ![ir].possible = possible]
        /\ receptionTimer' = [receptionTimer EXCEPT
                                ![r] = IF IsReceptionAttempted(i, r, possible) THEN i ELSE @]
  BY DEF SignalStart
<1>1. /\ now \in Nat /\ i \in 1..Len(transmissions) /\ i # None /\ r \in Radios
      /\ signals[ir].state = "flying" /\ now = signals[ir].start
      /\ UNCHANGED <<now, orbit, moveTimer, vehicle, SatellitePosition, transmissions>>
  <2>1. i \in 1..Len(transmissions) /\ Len(transmissions) \in Nat
    BY LenProperties DEF IInv, ChannelTypeOK
  <2> QED BY <2>1 DEF IInv, ChannelTypeOK, SignalStart, mobilityVars, None
<1>2. /\ DOMAIN signals' = DOMAIN signals
      /\ \A js \in DOMAIN signals : js # ir => signals'[js] = signals[js]
      /\ signals'[ir] = [signals[ir] EXCEPT !.state = "arriving", !.possible = possible]
      /\ signals' \in [DOMAIN signals -> SignalType]
      /\ \A js \in DOMAIN signals : signals[js] \in SignalType
  BY <1>0 DEF IInv, ChannelTypeOK, SignalType
<1>3. /\ signals'[ir].state = "arriving" /\ signals'[ir].possible = possible
      /\ \A js \in DOMAIN signals : /\ signals'[js].start = signals[js].start
                                    /\ signals'[js].end = signals[js].end
                                    /\ signals'[js].from = signals[js].from
                                    /\ signals'[js].length = signals[js].length
                                    /\ signals'[js].bitError = signals[js].bitError
                                    /\ js # ir => signals'[js].state = signals[js].state
                                    /\ js # ir => signals'[js].possible = signals[js].possible
                                    /\ signals[js].start \in Nat /\ signals[js].end \in Nat
  <2>1. signals'[ir].state = "arriving" /\ signals'[ir].possible = possible
    BY <1>2 DEF SignalType
  <2>2. \A js \in DOMAIN signals : /\ signals'[js].start = signals[js].start
                                  /\ signals'[js].end = signals[js].end
                                  /\ signals'[js].from = signals[js].from
    <3> SUFFICES ASSUME NEW js \in DOMAIN signals
                 PROVE  /\ signals'[js].start = signals[js].start
                        /\ signals'[js].end = signals[js].end
                        /\ signals'[js].from = signals[js].from
      OBVIOUS
    <3>1. CASE js = ir
      <4>1. signals[ir] \in SignalType
        BY <1>2, <3>1
      <4> HIDE DEF ir
      <4> QED BY <1>2, <3>1, <4>1 DEF SignalType
    <3>2. CASE js # ir
      BY <1>2, <3>2
    <3> QED BY <3>1, <3>2
  <2>3. \A js \in DOMAIN signals : /\ signals'[js].length = signals[js].length
                                  /\ signals'[js].bitError = signals[js].bitError
    <3> SUFFICES ASSUME NEW js \in DOMAIN signals
                 PROVE  /\ signals'[js].length = signals[js].length
                        /\ signals'[js].bitError = signals[js].bitError
      OBVIOUS
    <3>1. CASE js = ir
      <4>1. signals[ir] \in SignalType
        BY <1>2, <3>1
      <4> HIDE DEF ir
      <4> QED BY <1>2, <3>1, <4>1 DEF SignalType
    <3>2. CASE js # ir
      BY <1>2, <3>2
    <3> QED BY <3>1, <3>2
  <2>4. \A js \in DOMAIN signals : signals[js].start \in Nat /\ signals[js].end \in Nat
    BY <1>2 DEF SignalType
  <2> QED BY <1>2, <2>1, <2>2, <2>3, <2>4
<1>4. /\ receptionTimer' = [receptionTimer EXCEPT
                              ![r] = IF possible /\ receptionTimer[r] \in {None, i}
                                     THEN i ELSE receptionTimer[r]]
      /\ receptionTimer \in [Radios -> Nat]
  BY <1>0, <1>1 DEF IsReceptionAttempted, IInv, ChannelTypeOK
<1>5. receptionTimer[r] # i
  BY <1>1 DEF IInv, Following
<1> DEFINE taken == possible /\ receptionTimer[r] = None
<1>6. \A s \in Radios : receptionTimer'[s] =
        IF s = r /\ taken THEN i ELSE receptionTimer[s]
  BY <1>1, <1>4, <1>5
<1>7. \A js \in DOMAIN signals : js[2] \in Radios /\ js = <<js[1], js[2]>> /\ js[1] # None
  <2>1. Len(transmissions) \in Nat
    BY LenProperties DEF IInv, ChannelTypeOK
  <2> QED BY <2>1 DEF IInv, ChannelTypeOK, None
<1>8. \A js \in DOMAIN signals : js # ir => (Followed(js)' <=> Followed(js))
  <2> SUFFICES ASSUME NEW js \in DOMAIN signals, js # ir
               PROVE  Followed(js)' <=> Followed(js)
    OBVIOUS
  <2>1. receptionTimer'[js[2]] = js[1] <=> receptionTimer[js[2]] = js[1]
    <3>1. CASE js[2] = r /\ taken
      BY <1>1, <1>6, <1>7, <3>1
    <3>2. CASE ~(js[2] = r /\ taken)
      BY <1>6, <1>7, <3>2
    <3> QED BY <3>1, <3>2
  <2> QED BY <1>3, <2>1 DEF Followed
<1>9. ~Followed(ir) /\ (Followed(ir)' <=> taken)
  BY <1>1, <1>3, <1>5, <1>6 DEF Followed
<1>10. Timely(signals[ir], now) /\ \A js \in DOMAIN signals : Timely(signals[js], now)
  BY DEF IInv
<1> HIDE DEF ir, taken
<1>11. ChannelTypeOK'
  <2>1. receptionTimer' \in [Radios -> Nat]
    BY <1>1, <1>4
  <2> QED BY <1>1, <1>2, <2>1 DEF IInv, ChannelTypeOK
<1>11a. LastSent' /\ NotYet'
  BY <1>1, <1>2 DEF IInv, LastSent, NotYet
<1>12. \A js \in DOMAIN signals' : Timely(signals'[js], now')
  <2> SUFFICES ASSUME NEW js \in DOMAIN signals PROVE Timely(signals'[js], now)
    BY <1>1, <1>2
  <2>1. CASE js = ir
    BY <1>1, <1>3, <1>10, <2>1 DEF Timely
  <2>2. CASE js # ir
    BY <1>2, <1>10, <2>2
  <2> QED BY <2>1, <2>2
<1>13. Following'
  <2> SUFFICES ASSUME NEW s \in Radios, receptionTimer'[s] # None
               PROVE  /\ <<receptionTimer'[s], s>> \in DOMAIN signals
                      /\ signals'[<<receptionTimer'[s], s>>].state = "arriving"
    BY <1>2 DEF Following
  <2>1. CASE s = r /\ taken
    BY <1>3, <1>6, <2>1 DEF ir
  <2>2. CASE ~(s = r /\ taken)
    <3>1. /\ receptionTimer'[s] = receptionTimer[s]
          /\ <<receptionTimer[s], s>> \in DOMAIN signals
          /\ signals[<<receptionTimer[s], s>>].state = "arriving"
      BY <1>6, <2>2 DEF IInv, Following
    <3> QED BY <1>1, <1>3, <3>1
  <2> QED BY <2>1, <2>2
<1>13a. OnlyPossible'
  BY <1>2, <1>3, <1>8, <1>9 DEF IInv, OnlyPossible, taken
<1>14. NoOverlap'
  <2> SUFFICES ASSUME NEW js \in DOMAIN signals, NEW ks \in DOMAIN signals,
                      js[2] = ks[2], js # ks, Followed(js)', Followed(ks)'
               PROVE  ~(signals[ks].start < signals[js].end /\ signals[js].start < signals[ks].end)
    BY <1>2, <1>3 DEF NoOverlap
  <2>1. ASSUME NEW ls \in DOMAIN signals, ls[2] = r, ls # ir, Followed(ls)', Followed(ir)'
        PROVE  signals[ls].end <= signals[ir].start
    <3>1. receptionTimer[r] = None /\ Followed(ls)
      BY <1>8, <1>9, <2>1 DEF taken
    <3>2. signals[ls].state = "sentUp"
      BY <1>7, <2>1, <3>1 DEF Followed
    <3> QED BY <1>1, <1>10, <3>2 DEF Timely
  <2>2. CASE js = ir
    <3>1. signals[ks].end <= signals[ir].start
      BY <2>1, <2>2 DEF ir
    <3> QED BY <1>3, <2>2, <3>1
  <2>3. CASE ks = ir
    <3>1. signals[js].end <= signals[ir].start
      BY <2>1, <2>3 DEF ir
    <3> QED BY <1>3, <2>3, <3>1
  <2>4. CASE js # ir /\ ks # ir
    BY <1>8, <2>4 DEF IInv, NoOverlap
  <2> QED BY <2>2, <2>3, <2>4
<1>15. Excused'
  <2> SUFFICES ASSUME NEW js \in DOMAIN signals, signals'[js].possible,
                      signals'[js].state \in {"arriving", "missed"}, ~Followed(js)'
               PROVE  \E ks \in DOMAIN signals :
                        /\ ks[2] = js[2] /\ ks # js /\ Followed(ks)'
                        /\ signals[ks].start <= signals[js].start
                        /\ signals[js].start <= signals[ks].end
    BY <1>2, <1>3 DEF Excused
  <2>1. CASE js # ir
    <3>1. PICK ks \in DOMAIN signals :
            /\ ks[2] = js[2] /\ ks # js /\ Followed(ks)
            /\ signals[ks].start <= signals[js].start
            /\ signals[js].start <= signals[ks].end
      BY <1>3, <1>8, <2>1 DEF IInv, Excused
    <3>2. ks # ir
      BY <1>9, <3>1
    <3> QED BY <1>8, <3>1, <3>2
  <2>2. CASE js = ir
    <3> DEFINE ks == <<receptionTimer[r], r>>
    <3>1. /\ ks \in DOMAIN signals /\ signals[ks].state = "arriving" /\ ks # ir /\ ks[2] = r
          /\ ks[1] = receptionTimer[r]
      <4>1. receptionTimer[r] # None
        BY <1>3, <1>9, <2>2 DEF taken
      <4> QED BY <1>1, <1>5, <4>1 DEF IInv, Following, ir
    <3>2. Followed(ks)
      BY <3>1 DEF Followed
    <3> HIDE DEF ks
    <3>3. signals[ks].start <= now /\ now <= signals[ks].end
      BY <1>10, <3>1 DEF Timely
    <3>4. js[2] = r
      BY <2>2 DEF ir
    <3> QED BY <1>1, <1>8, <2>2, <3>1, <3>2, <3>3, <3>4
  <2> QED BY <2>1, <2>2
<1>16. \A js \in DOMAIN signals' : Placed(js)'
  <2>1. \A q : Cached(q)' = Cached(q)
    BY <1>1, <1>2, <1>3 DEF Cached
  <2>2. \A js \in DOMAIN signals : Placed(js) /\ signals'[js].from = signals[js].from
    BY <1>3 DEF IInv
  <2> QED BY <1>1, <1>2, <2>1, <2>2, StaysPlaced DEF IInv
<1>17. DeliveredIntact'
  <2> SUFFICES ASSUME NEW js \in DOMAIN signals, signals'[js].state = "sentUp",
                      ~signals'[js].bitError
               PROVE  signals'[js].length = transmissions[js[1]].payload
    BY <1>1, <1>2 DEF DeliveredIntact
  <2>1. js # ir
    BY <1>3
  <2> QED BY <1>2, <2>1 DEF IInv, DeliveredIntact
<1> QED BY <1>1, <1>11, <1>11a, <1>12, <1>13, <1>13a, <1>14, <1>15, <1>16, <1>17 DEF IInv

(* A signal that ends is sent up by the receiver that followed it, and     *)
(* missed by the others.                                                   *)
LEMMA SignalEndStep ==
  ASSUME IInv, NEW i, NEW r, <<i, r>> \in DOMAIN signals, SignalEnd(i, r)
  PROVE  IInv'
<1> DEFINE ir == <<i, r>>
<1>1. /\ now \in Nat /\ i \in 1..Len(transmissions) /\ i # None /\ r \in Radios
      /\ signals[ir].state = "arriving" /\ now = signals[ir].end
      /\ UNCHANGED <<now, orbit, moveTimer, vehicle, SatellitePosition, transmissions>>
      /\ transmissions[i] \in TransmissionType /\ Sent(transmissions[i])
  <2>1. i \in 1..Len(transmissions) /\ Len(transmissions) \in Nat
    BY LenProperties DEF IInv, ChannelTypeOK
  <2>2. transmissions[i] \in TransmissionType
    BY <2>1, ElementOfSeq DEF IInv, ChannelTypeOK
  <2> QED BY <2>1, <2>2 DEF IInv, ChannelTypeOK, SignalEnd, mobilityVars, None
<1>2. PICK s \in SignalType :
        /\ signals' = [signals EXCEPT ![ir] = s]
        /\ s.from = signals[ir].from /\ s.possible = signals[ir].possible
        /\ s.start = signals[ir].start /\ s.end = signals[ir].end
        /\ s.state = IF receptionTimer[r] = i THEN "sentUp" ELSE "missed"
        /\ receptionTimer[r] = i /\ ~s.bitError => s.length = transmissions[i].payload
  <2>0. signals[ir] \in SignalType
    BY DEF IInv, ChannelTypeOK
  <2>1. CASE receptionTimer[r] = i
    <3>1. PICK successful \in BOOLEAN :
            signals' = [signals EXCEPT ![ir] = ReceivePacket(i, r, successful)]
      BY <2>1 DEF SignalEnd
    <3> DEFINE frame == Decapsulate(transmissions[i].length, transmissions[i].payload, r)
               bad == \/ frame.bitError
                      \/ ~(IsReceptionAttempted(i, r, signals[ir].possible) /\ successful)
    <3>2. frame.length \in Int /\ frame.bitError \in BOOLEAN
      <4>1. transmissions[i].length \in Nat /\ transmissions[i].payload \in Payloads
        BY <1>1 DEF TransmissionType
      <4> QED BY <1>1, <4>1, DecapsulateType
    <3>3. ~frame.bitError => frame.length = transmissions[i].payload
      <4>1. /\ transmissions[i].payload \in Payloads /\ transmissions[i].sender \in Radios
            /\ transmissions[i].length = Encapsulated(transmissions[i].payload, transmissions[i].sender)
        BY <1>1 DEF TransmissionType, Sent
      <4> QED BY <1>1, <4>1, DecapsulatedIntact
    <3>4. ReceivePacket(i, r, successful) =
            [signals[ir] EXCEPT !.state = "sentUp", !.length = frame.length, !.bitError = bad]
      BY DEF ReceivePacket
    <3>5. bad \in BOOLEAN /\ (~bad => ~frame.bitError)
      OBVIOUS
    <3> HIDE DEF frame, bad
    <3>6. ReceivePacket(i, r, successful) \in SignalType
      BY <2>0, <3>2, <3>4, <3>5 DEF SignalType
    <3> QED BY <2>0, <2>1, <3>1, <3>3, <3>4, <3>5, <3>6 DEF SignalType
  <2>2. CASE receptionTimer[r] # i
    <3>1. signals' = [signals EXCEPT ![ir] = [signals[ir] EXCEPT !.state = "missed"]]
      BY <2>0, <2>2 DEF SignalEnd, SignalType, IInv, ChannelTypeOK
    <3> QED BY <2>0, <2>2, <3>1 DEF SignalType
  <2> QED BY <2>1, <2>2
<1>3. /\ DOMAIN signals' = DOMAIN signals
      /\ signals' \in [DOMAIN signals -> SignalType]
      /\ signals'[ir] = s
      /\ \A js \in DOMAIN signals : js # ir => signals'[js] = signals[js]
      /\ \A js \in DOMAIN signals : signals[js] \in SignalType
  BY <1>2 DEF IInv, ChannelTypeOK
<1>4. \A js \in DOMAIN signals : /\ signals'[js].start = signals[js].start
                                 /\ signals'[js].end = signals[js].end
                                 /\ signals'[js].from = signals[js].from
                                 /\ signals'[js].possible = signals[js].possible
  BY <1>2, <1>3
<1>5. receptionTimer \in [Radios -> Nat]
  BY DEF IInv, ChannelTypeOK
<1>6. /\ receptionTimer' \in [Radios -> Nat]
      /\ \A q \in Radios : receptionTimer'[q] =
           IF q = r /\ receptionTimer[r] = i THEN None ELSE receptionTimer[q]
  <2>1. CASE receptionTimer[r] = i
    <3>1. receptionTimer' = [receptionTimer EXCEPT ![r] = None]
      BY <2>1 DEF SignalEnd
    <3> QED BY <1>1, <1>5, <2>1, <3>1 DEF None
  <2>2. CASE receptionTimer[r] # i
    <3>1. receptionTimer' = receptionTimer
      BY <2>2 DEF SignalEnd
    <3> QED BY <1>5, <2>2, <3>1
  <2> QED BY <2>1, <2>2
<1>7. \A js \in DOMAIN signals : js[2] \in Radios /\ js = <<js[1], js[2]>> /\ js[1] # None
  <2>1. Len(transmissions) \in Nat
    BY LenProperties DEF IInv, ChannelTypeOK
  <2> QED BY <2>1 DEF IInv, ChannelTypeOK, None
<1>8. \A js \in DOMAIN signals : Followed(js)' <=> Followed(js)
  <2> SUFFICES ASSUME NEW js \in DOMAIN signals PROVE Followed(js)' <=> Followed(js)
    OBVIOUS
  <2>1. CASE js = ir
    BY <1>1, <1>2, <1>3, <1>6, <2>1 DEF Followed
  <2>2. CASE js # ir
    <3>1. receptionTimer'[js[2]] = js[1] <=> receptionTimer[js[2]] = js[1]
      <4>1. CASE js[2] = r /\ receptionTimer[r] = i
        BY <1>6, <1>7, <2>2, <4>1
      <4>2. CASE ~(js[2] = r /\ receptionTimer[r] = i)
        BY <1>6, <1>7, <4>2
      <4> QED BY <4>1, <4>2
    <3> QED BY <1>3, <2>2, <3>1 DEF Followed
  <2> QED BY <2>1, <2>2
<1> HIDE DEF ir
<1>9. ChannelTypeOK'
  BY <1>1, <1>3, <1>6 DEF IInv, ChannelTypeOK
<1>9a. LastSent' /\ NotYet'
  BY <1>1, <1>3 DEF IInv, LastSent, NotYet
<1>10. \A js \in DOMAIN signals' : Timely(signals'[js], now')
  <2> SUFFICES ASSUME NEW js \in DOMAIN signals PROVE Timely(signals'[js], now)
    BY <1>1, <1>3
  <2>1. CASE js = ir
    <3>1. s.start < s.end /\ s.state \in {"sentUp", "missed"} /\ s.end = now
      BY <1>1, <1>2, <2>1 DEF IInv, Timely
    <3>2. s.end <= now
      BY <1>1, <3>1
    <3> QED BY <1>3, <2>1, <3>1, <3>2 DEF Timely
  <2>2. CASE js # ir
    BY <1>3, <2>2 DEF IInv
  <2> QED BY <2>1, <2>2
<1>11. Following'
  <2> SUFFICES ASSUME NEW q \in Radios, receptionTimer'[q] # None
               PROVE  /\ <<receptionTimer'[q], q>> \in DOMAIN signals
                      /\ signals'[<<receptionTimer'[q], q>>].state = "arriving"
    BY <1>3 DEF Following
  <2>1. ~(q = r /\ receptionTimer[r] = i) /\ receptionTimer'[q] = receptionTimer[q]
    BY <1>6
  <2>2. /\ <<receptionTimer[q], q>> \in DOMAIN signals
        /\ signals[<<receptionTimer[q], q>>].state = "arriving"
    BY <2>1 DEF IInv, Following
  <2>3. <<receptionTimer[q], q>> # ir
    BY <2>1 DEF ir
  <2> QED BY <1>3, <2>1, <2>2, <2>3
<1>11a. OnlyPossible'
  BY <1>3, <1>4, <1>8 DEF IInv, OnlyPossible
<1>12. NoOverlap'
  BY <1>3, <1>4, <1>8 DEF IInv, NoOverlap
<1>13. Excused'
  <2> SUFFICES ASSUME NEW js \in DOMAIN signals, signals'[js].possible,
                      signals'[js].state \in {"arriving", "missed"}, ~Followed(js)'
               PROVE  \E ks \in DOMAIN signals :
                        /\ ks[2] = js[2] /\ ks # js /\ Followed(ks)'
                        /\ signals[ks].start <= signals[js].start
                        /\ signals[js].start <= signals[ks].end
    BY <1>3, <1>4 DEF Excused
  <2>1. signals[js].state \in {"arriving", "missed"} /\ signals[js].possible
    BY <1>1, <1>3, <1>4
  <2> QED BY <1>8, <2>1 DEF IInv, Excused
<1>14. \A js \in DOMAIN signals' : Placed(js)'
  <2>1. s.state # "cached"
    BY <1>2
  <2>2. \A q : Cached(q)' = Cached(q)
    BY <1>1, <1>3, <2>1 DEF Cached
  <2>3. \A js \in DOMAIN signals : Placed(js) /\ signals'[js].from = signals[js].from
    BY <1>4 DEF IInv
  <2> QED BY <1>1, <1>3, <2>2, <2>3, StaysPlaced DEF IInv
<1>15. DeliveredIntact'
  <2> SUFFICES ASSUME NEW js \in DOMAIN signals, signals'[js].state = "sentUp",
                      ~signals'[js].bitError
               PROVE  signals'[js].length = transmissions[js[1]].payload
    BY <1>1, <1>3 DEF DeliveredIntact
  <2>1. CASE js = ir
    BY <1>2, <1>3, <2>1 DEF ir
  <2>2. CASE js # ir
    BY <1>3, <2>2 DEF IInv, DeliveredIntact
  <2> QED BY <2>1, <2>2
<1> QED BY <1>1, <1>9, <1>9a, <1>10, <1>11, <1>11a, <1>12, <1>13, <1>14, <1>15 DEF IInv

(* A vehicle that leaves takes its signals with it; nobody else notices.   *)
LEMMA ExitStep ==
  ASSUME IInv, NEW v \in Vehicles, Exit(v)
  PROVE  IInv'
<1> DEFINE rest == {ir \in DOMAIN signals : ir[2] # v}
<1>1. /\ UNCHANGED <<now, orbit, moveTimer, SatellitePosition, transmissions>>
      /\ vehicle' = [vehicle EXCEPT ![v] = "gone"]
      /\ receptionTimer' = [receptionTimer EXCEPT ![v] = None]
      /\ signals' = [ir \in rest |-> signals[ir]]
  BY DEF Exit, Restrict, mobilityVars
<1>2. ChannelTypeOK /\ receptionTimer \in [Radios -> Nat] /\ v \in Radios
  BY DEF IInv, ChannelTypeOK, Radios
<1>3. DOMAIN signals' = rest /\ \A ir \in rest : signals'[ir] = signals[ir]
  BY <1>1
<1>4. \A r \in Radios : receptionTimer'[r] = IF r = v THEN None ELSE receptionTimer[r]
  BY <1>1, <1>2
<1>5. rest \subseteq DOMAIN signals /\ \A ir \in rest : ir[2] \in Radios /\ ir[2] # v
  BY <1>2 DEF ChannelTypeOK
<1>6. \A ir \in rest : Followed(ir)' <=> Followed(ir)
  BY <1>3, <1>4, <1>5 DEF Followed
<1>7. ChannelTypeOK'
  BY <1>1, <1>2, <1>3, <1>5 DEF ChannelTypeOK, None
<1>7a. LastSent' /\ NotYet'
  <2>1. \A w \in Vehicles : vehicle'[w] = IF w = v THEN "gone" ELSE vehicle[w]
    BY <1>1, <1>2 DEF ChannelTypeOK
  <2> QED BY <1>1, <1>3, <1>5, <2>1 DEF IInv, LastSent, NotYet
<1>8. Following'
  BY <1>3, <1>4 DEF IInv, Following
<1>8a. OnlyPossible'
  BY <1>3, <1>5, <1>6 DEF IInv, OnlyPossible
<1>9. NoOverlap'
  BY <1>3, <1>5, <1>6 DEF IInv, NoOverlap
<1>10. Excused'
  <2> SUFFICES ASSUME NEW ir \in rest, signals[ir].possible, signals[ir].state \in {"arriving", "missed"},
                      ~Followed(ir)'
               PROVE  \E js \in rest :
                        /\ js[2] = ir[2] /\ js # ir /\ Followed(js)'
                        /\ signals'[js].start <= signals'[ir].start
                        /\ signals'[ir].start <= signals'[js].end
    BY <1>3 DEF Excused
  <2>1. PICK js \in DOMAIN signals :
          /\ js[2] = ir[2] /\ js # ir /\ Followed(js)
          /\ signals[js].start <= signals[ir].start
          /\ signals[ir].start <= signals[js].end
    BY <1>5, <1>6 DEF IInv, Excused
  <2>2. js \in rest
    BY <1>5, <2>1
  <2> QED BY <1>3, <1>6, <2>1, <2>2
<1>11. \A ir \in rest : Placed(ir)'
  <2> SUFFICES ASSUME NEW ir \in rest PROVE Placed(ir)'
    OBVIOUS
  <2>1. Cached(ir[2])' = Cached(ir[2])
    BY <1>3, <1>5 DEF Cached
  <2>2. /\ signals'[ir].from = signals[ir].from /\ Placed(ir)
        /\ ir[2] \in Vehicles => vehicle'[ir[2]] = vehicle[ir[2]]
    BY <1>1, <1>2, <1>3, <1>5 DEF IInv, ChannelTypeOK
  <2> QED BY <1>1, <1>2, <1>5, <2>1, <2>2, StaysPlaced
<1>12. DeliveredIntact'
  BY <1>1, <1>3, <1>5 DEF IInv, DeliveredIntact
<1>13. \A ir \in DOMAIN signals' : Timely(signals'[ir], now')
  BY <1>1, <1>3, <1>5 DEF IInv
<1> QED BY <1>1, <1>3, <1>7, <1>7a, <1>8, <1>8a, <1>9, <1>10, <1>11, <1>12, <1>13 DEF IInv

(* Every step keeps the invariant.                                         *)
LEMMA NextIInv == IInv /\ [Next]_vars => IInv'
<1> SUFFICES ASSUME IInv, [Next]_vars PROVE IInv'
  OBVIOUS
<1>0. ChannelTypeOK
  BY DEF IInv
<1>1. CASE Tick
  BY <1>1, TickStep
<1>2. ASSUME NEW s \in Satellites, Move(s) PROVE IInv'
  <2>1. /\ orbit' = Moved({s})
        /\ UNCHANGED <<now, vehicle, SatellitePosition, transmissions, signals, receptionTimer>>
    BY <1>2 DEF Move, mediumVars
  <2>2. orbit' \in [Satellites -> [nextChange : Nat, intervalTimer : 0..CycleTime]]
    BY <1>0, <2>1, MovedType
  <2>3. moveTimer' \in [Satellites -> Nat]
    <3>1. orbit'[s].nextChange \in Nat /\ now + UpdateInterval \in Nat
      BY <1>0, <2>2, ChannelAssumption DEF ChannelTypeOK
    <3> QED BY <1>0, <1>2, <3>1 DEF Move, ChannelTypeOK
  <2> QED BY <1>0, <2>1, <2>2, <2>3, OffAirStep DEF ChannelTypeOK
<1>3. ASSUME NEW r \in Radios, Transmit(r) PROVE IInv'
  BY <1>3, TransmitStep
<1>4. ASSUME NEW ir \in DOMAIN signals, SignalStart(ir[1], ir[2]) \/ SignalEnd(ir[1], ir[2])
      PROVE  IInv'
  <2>1. <<ir[1], ir[2]>> \in DOMAIN signals
    <3>1. ir \in (1..Len(transmissions)) \X Radios
      BY <1>0 DEF ChannelTypeOK
    <3>2. ir = <<ir[1], ir[2]>>
      BY <3>1
    <3> QED BY <3>2
  <2> QED BY <1>4, <2>1, SignalStartStep, SignalEndStep
<1>5. ASSUME NEW v \in Vehicles, Terminate(v) PROVE IInv'
  <2>1. /\ UNCHANGED <<now, orbit, moveTimer, SatellitePosition, transmissions, signals,
                       receptionTimer>>
        /\ vehicle' \in [Vehicles -> {"away", "driving", "terminated", "gone"}]
        /\ \A w \in Vehicles : /\ vehicle[w] = "terminated" => vehicle'[w] = "terminated"
                               /\ vehicle'[w] = "away" => vehicle[w] = "away"
    BY <1>0, <1>5 DEF Terminate, mobilityVars, mediumVars, ChannelTypeOK
  <2> QED BY <1>0, <2>1, OffAirStep DEF ChannelTypeOK
<1>6. ASSUME NEW v \in Vehicles, Enter(v) \/ Exit(v) PROVE IInv'
  BY <1>6, EnterStep, ExitStep
<1>7. CASE UNCHANGED vars
  BY <1>0, <1>7, OffAirStep DEF vars, mobilityVars, mediumVars, ChannelTypeOK
<1> QED BY <1>1, <1>2, <1>3, <1>4, <1>5, <1>6, <1>7 DEF Next

(* The invariant holds of every reachable state.                           *)
THEOREM Invariance == Spec => []IInv
  BY InitIInv, NextIInv, PTL DEF Spec

(* Each signal that will arrive is computed from where its own sender was, *)
(* although the receivers share one global position; a vehicle that enters *)
(* has earlier transmissions come from the last sender                     *)
(* (createTransmission, computeArrival).                                   *)
THEOREM Arrivals == Spec => []ArrivalFromSender
<1>1. IInv => ArrivalFromSender
  BY PlacedIsArrival DEF IInv
<1> QED BY <1>1, Invariance, PTL

(* What one radio sends up it could receive, and never overlapped there;   *)
(* what it could receive and missed came while it was following another    *)
(* signal (computeIsReceptionAttempted, startReception, endReception).     *)
THEOREM FirstWins == Spec => []FirstSignalWins
<1>1. IInv => FirstSignalWins
  BY DEF IInv, OnlyPossible, NoOverlap, Excused, Followed, FirstSignalWins
<1> QED BY <1>1, Invariance, PTL

(* A packet without a bit error has the length it was sent with, whatever  *)
(* the modulations (encapsulate, decapsulate).                             *)
THEOREM Delivery == Spec => []DeliveredIntact
<1>1. IInv => DeliveredIntact
  BY DEF IInv
<1> QED BY <1>1, Invariance, PTL

-----------------------------------------------------------------------------
(* Satellites in step.                                                     *)

PerCycle == CycleTime \div UpdateInterval + 1

(* A satellite has been moved a whole number of times, and its orbit is    *)
(* that of this number within the code's cycle, which is one update longer *)
(* than the cycle time: setTargetPosition compares with >.                 *)
InOrbit(o) ==
  \E k \in Nat : /\ o.nextChange = k * UpdateInterval
                 /\ o.intervalTimer = UpdateInterval * (k % PerCycle)

(* Its next change and its timer are ahead.                                *)
OnTime(s) ==
  /\ now <= orbit[s].nextChange /\ orbit[s].nextChange <= now + UpdateInterval
  /\ moveTimer[s] \in {now, orbit[s].nextChange}

SInv == \A s \in Satellites : InOrbit(orbit[s]) /\ OnTime(s)

(* Whole numbers of updates within a cycle, and the first that is not.     *)
LEMMA CycleBounds ==
  /\ UpdateInterval \in Nat /\ UpdateInterval > 0
  /\ CycleTime \in Nat /\ PerCycle \in Nat /\ PerCycle > 0
  /\ UpdateInterval * (PerCycle - 1) <= CycleTime
  /\ UpdateInterval * PerCycle > CycleTime
<1> DEFINE q == CycleTime \div UpdateInterval
<1>1. UpdateInterval \in Nat /\ UpdateInterval > 0 /\ CycleTime \in Nat
  BY ChannelAssumption
<1>2. q \in Nat /\ UpdateInterval * q <= CycleTime /\ CycleTime < UpdateInterval * (q + 1)
  BY <1>1
<1>3. PerCycle = q + 1
  BY DEF PerCycle
<1> HIDE DEF q
<1> QED BY <1>1, <1>2, <1>3

(* Quotient and remainder.                                                 *)
LEMMA Division ==
  ASSUME NEW k \in Nat, NEW n \in Nat, n > 0
  PROVE k \div n \in Nat /\ k % n \in 0..(n-1) /\ k = (k \div n) * n + (k % n)
OBVIOUS

(* Two representations have the same remainder.                            *)
LEMMA Unique ==
  ASSUME NEW q \in Nat, NEW m \in Nat, NEW p \in Nat, NEW l \in Nat,
         NEW n \in Nat, m < n, l < n, q * n + m = p * n + l
  PROVE  m = l
<1>1. CASE q = p
  <2>1. q * n \in Nat
    OBVIOUS
  <2> QED BY <1>1, <2>1
<1>2. CASE q < p
  <2>1. (q + 1) * n <= p * n
    BY <1>2
  <2>2. (q + 1) * n = q * n + n
    OBVIOUS
  <2>3. q * n \in Nat /\ p * n \in Nat
    OBVIOUS
  <2> QED BY <2>1, <2>2, <2>3
<1>3. CASE p < q
  <2>1. (p + 1) * n <= q * n
    BY <1>3
  <2>2. (p + 1) * n = p * n + n
    OBVIOUS
  <2>3. q * n \in Nat /\ p * n \in Nat
    OBVIOUS
  <2> QED BY <2>1, <2>2, <2>3
<1> QED BY <1>1, <1>2, <1>3

(* Counting modulo n.                                                      *)
LEMMA NextModulo ==
  ASSUME NEW k \in Nat, NEW n \in Nat, n > 0
  PROVE  /\ k % n \in 0..(n - 1)
         /\ (k + 1) % n = IF k % n = n - 1 THEN 0 ELSE (k % n) + 1
<1> DEFINE q == k \div n
           m == k % n
           p == (k + 1) \div n
           l == (k + 1) % n
<1>1. q \in Nat /\ m \in 0..(n - 1) /\ k = q * n + m
  BY Division
<1>2. p \in Nat /\ l \in 0..(n - 1) /\ k + 1 = p * n + l
  BY Division
<1> HIDE DEF q, m, p, l
<1>3. CASE m = n - 1
  <2>1. k + 1 = (q + 1) * n + 0
    <3>1. (q + 1) * n = q * n + n /\ q * n \in Nat
      BY <1>1
    <3> QED BY <1>1, <1>3, <3>1
  <2>2. l = 0
    BY <1>1, <1>2, <2>1, Unique
  <2> QED BY <1>1, <1>3, <2>2 DEF m, l
<1>4. CASE m # n - 1
  <2>1. k + 1 = q * n + (m + 1) /\ m + 1 \in Nat /\ m + 1 < n
    <3>1. q * n \in Nat
      BY <1>1
    <3> QED BY <1>1, <1>4, <3>1
  <2>2. l = m + 1
    BY <1>1, <1>2, <2>1, Unique
  <2> QED BY <1>1, <1>4, <2>2 DEF m, l
<1> QED BY <1>3, <1>4

(* A whole number of updates divides evenly.                               *)
LEMMA WholeUpdates ==
  ASSUME NEW k \in Nat, NEW n \in Nat, n > 0
  PROVE  (k * n) \div n = k
OBVIOUS

(* setTargetPosition computes the orbit of the next change.                *)
LEMMA TargetInOrbit ==
  ASSUME NEW o \in [nextChange : Nat, intervalTimer : Nat], InOrbit(o)
  PROVE  InOrbit(SetTargetPosition(o))
<1> DEFINE U == UpdateInterval
           C == CycleTime
<1>1. PICK k \in Nat : o.nextChange = k * U /\ o.intervalTimer = U * (k % PerCycle)
  BY DEF InOrbit
<1>2. /\ U \in Nat /\ U > 0 /\ C \in Nat /\ PerCycle \in Nat /\ PerCycle > 0
      /\ U * (PerCycle - 1) <= C /\ U * PerCycle > C
  BY CycleBounds
<1> DEFINE m == k % PerCycle
<1>3. m \in 0..(PerCycle - 1) /\ (k + 1) % PerCycle = IF m = PerCycle - 1 THEN 0 ELSE m + 1
  BY <1>2, NextModulo
<1>4. /\ SetTargetPosition(o).nextChange = o.nextChange + U
      /\ SetTargetPosition(o).intervalTimer = IF o.intervalTimer + U > C THEN 0
                                              ELSE o.intervalTimer + U
  BY DEF SetTargetPosition
<1>5. o.nextChange + U = (k + 1) * U
  BY <1>1, <1>2
<1>6. o.intervalTimer + U = U * (m + 1)
  <2>1. U * m + U = U * (m + 1)
    <3> HIDE DEF m, U
    <3> QED BY <1>2, <1>3
  <2> QED BY <1>1, <2>1
<1> HIDE DEF U, C, m
<1>7. SetTargetPosition(o).intervalTimer = U * ((k + 1) % PerCycle)
  <2>1. CASE m = PerCycle - 1
    <3>1. U * (m + 1) > C
      BY <1>2, <1>3, <2>1
    <3>2. U * 0 = 0
      BY <1>2
    <3> QED BY <1>3, <1>4, <1>6, <2>1, <3>1, <3>2
  <2>2. CASE m # PerCycle - 1
    <3>1. m + 1 \in Nat /\ PerCycle - 1 \in Nat /\ m + 1 <= PerCycle - 1
      BY <1>2, <1>3, <2>2
    <3>2. U * (m + 1) <= U * (PerCycle - 1)
      BY <1>2, <3>1
    <3>3. U * (m + 1) <= C /\ U * (m + 1) \in Nat
      BY <1>2, <3>1, <3>2
    <3>4. ~(U * (m + 1) > C)
      BY <1>2, <3>3
    <3> QED BY <1>3, <1>4, <1>6, <2>2, <3>4
  <2> QED BY <2>1, <2>2
<1> QED BY <1>1, <1>4, <1>5, <1>7 DEF InOrbit, U

(* Moving satellites keeps them in orbit; only those whose change is due   *)
(* are moved, by one interval.                                             *)
LEMMA MovedInOrbit ==
  ASSUME ChannelTypeOK, SInv, NEW asked, NEW s \in Satellites
  PROVE  /\ InOrbit(Moved(asked)[s])
         /\ Moved(asked)[s].nextChange =
              IF s \in asked /\ orbit[s].nextChange = now
              THEN orbit[s].nextChange + UpdateInterval ELSE orbit[s].nextChange
<1>1. orbit[s] \in [nextChange : Nat, intervalTimer : Nat] /\ InOrbit(orbit[s])
  BY ChannelAssumption DEF ChannelTypeOK, SInv
<1>2. InOrbit(SetTargetPosition(orbit[s]))
  BY <1>1, TargetInOrbit
<1> QED BY <1>1, <1>2 DEF Moved, SetTargetPosition

(* The first orbit is the one after no change.                             *)
LEMMA InitSInv == Init => SInv
<1> SUFFICES ASSUME Init, NEW s \in Satellites PROVE InOrbit(orbit[s]) /\ OnTime(s)
  BY DEF SInv
<1> DEFINE zero == [nextChange |-> 0, intervalTimer |-> 0]
<1>1. orbit[s] = SetTargetPosition(zero) /\ moveTimer[s] = UpdateInterval /\ now = 0
  BY DEF Init
<1>2. zero \in [nextChange : Nat, intervalTimer : Nat]
  OBVIOUS
<1>3. InOrbit(zero)
  <2>1. 0 % PerCycle = 0 /\ 0 * UpdateInterval = 0 /\ UpdateInterval * 0 = 0
    BY CycleBounds
  <2>2. zero.nextChange = 0 * UpdateInterval /\ zero.intervalTimer = UpdateInterval * (0 % PerCycle)
    BY <2>1
  <2> QED BY <2>2 DEF InOrbit
<1>4. InOrbit(orbit[s])
  <2> HIDE DEF zero
  <2> QED BY <1>1, <1>2, <1>3, TargetInOrbit
<1>5. orbit[s].nextChange = UpdateInterval
  BY <1>1, CycleBounds DEF SetTargetPosition
<1> QED BY <1>1, <1>4, <1>5, CycleBounds DEF OnTime

(* Every step keeps the satellites in step.                                *)
LEMMA NextSInv == IInv /\ SInv /\ [Next]_vars => SInv'
<1> SUFFICES ASSUME IInv, SInv, [Next]_vars, NEW s \in Satellites
             PROVE  InOrbit(orbit'[s]) /\ OnTime(s)'
  BY DEF SInv, InOrbit
<1>0. /\ ChannelTypeOK /\ now \in Nat /\ orbit[s].nextChange \in Nat /\ moveTimer[s] \in Nat
      /\ moveTimer \in [Satellites -> Nat]
      /\ UpdateInterval \in Nat /\ UpdateInterval > 0
      /\ InOrbit(orbit[s])
      /\ now <= orbit[s].nextChange /\ orbit[s].nextChange <= now + UpdateInterval
      /\ moveTimer[s] \in {now, orbit[s].nextChange}
  BY CycleBounds DEF IInv, ChannelTypeOK, SInv, OnTime
<1>1. CASE Tick
  <2>1. now' = now + 1 /\ orbit' = orbit /\ moveTimer' = moveTimer /\ now < moveTimer[s]
    BY <1>1 DEF Tick, mobilityVars
  <2> QED BY <1>0, <2>1 DEF OnTime
<1>2. ASSUME NEW z \in Satellites, Move(z) PROVE InOrbit(orbit'[s]) /\ OnTime(s)'
  <2>1. /\ now = moveTimer[z] /\ now' = now /\ orbit' = Moved({z})
        /\ moveTimer' = [moveTimer EXCEPT ![z] =
             IF orbit'[z].nextChange < now + UpdateInterval
             THEN orbit'[z].nextChange ELSE now + UpdateInterval]
    BY <1>2 DEF Move
  <2>2. /\ InOrbit(orbit'[s])
        /\ orbit'[s].nextChange = IF s = z /\ orbit[s].nextChange = now
                                  THEN orbit[s].nextChange + UpdateInterval
                                  ELSE orbit[s].nextChange
    BY <1>0, <2>1, MovedInOrbit
  <2>3. CASE s = z
    <3>1. moveTimer'[s] = IF orbit'[s].nextChange < now + UpdateInterval
                          THEN orbit'[s].nextChange ELSE now + UpdateInterval
      BY <1>0, <2>1, <2>3
    <3> QED BY <1>0, <2>1, <2>2, <2>3, <3>1 DEF OnTime
  <2>4. CASE s # z
    <3>1. moveTimer'[s] = moveTimer[s]
      BY <1>0, <2>1, <2>4
    <3> QED BY <1>0, <2>1, <2>2, <2>4, <3>1 DEF OnTime
  <2> QED BY <2>3, <2>4
<1>3. ASSUME NEW r \in Radios, Transmit(r) PROVE InOrbit(orbit'[s]) /\ OnTime(s)'
  <2>1. orbit' = Moved(Satellites) /\ now' = now /\ moveTimer' = moveTimer
    BY <1>3 DEF Transmit
  <2>2. /\ InOrbit(orbit'[s])
        /\ orbit'[s].nextChange = IF orbit[s].nextChange = now
                                  THEN orbit[s].nextChange + UpdateInterval
                                  ELSE orbit[s].nextChange
    BY <1>0, <2>1, MovedInOrbit
  <2> QED BY <1>0, <2>1, <2>2 DEF OnTime
<1>4. CASE UNCHANGED <<now, orbit, moveTimer>>
  BY <1>0, <1>4 DEF OnTime
<1>5. CASE (\E ir \in DOMAIN signals : SignalStart(ir[1], ir[2]) \/ SignalEnd(ir[1], ir[2]))
           \/ (\E v \in Vehicles : Enter(v) \/ Terminate(v) \/ Exit(v))
           \/ UNCHANGED vars
  BY <1>4, <1>5 DEF SignalStart, SignalEnd, Enter, Terminate, Exit, vars, mobilityVars
<1> QED BY <1>1, <1>2, <1>3, <1>5 DEF Next

(* Whoever asks first, a satellite moves exactly once per interval, its    *)
(* timer never misses a change, and through the first cycle its orbit is   *)
(* that of its next change (move, setTargetPosition, scheduleUpdate).      *)
THEOREM Steps == Spec => []InStep
<1>1. SInv => InStep
  <2> SUFFICES ASSUME SInv, NEW s \in Satellites
               PROVE  LET o == orbit[s]
                      IN  /\ now <= o.nextChange /\ o.nextChange <= now + UpdateInterval
                          /\ moveTimer[s] \in {now, o.nextChange}
                          /\ o.intervalTimer <= CycleTime
                          /\ o.intervalTimer % UpdateInterval = 0
                          /\ o.nextChange <= CycleTime => o.intervalTimer = o.nextChange
    BY DEF InStep
  <2> DEFINE U == UpdateInterval
             C == CycleTime
             P == PerCycle
  <2>1. PICK k \in Nat : /\ orbit[s].nextChange = k * U
                         /\ orbit[s].intervalTimer = U * (k % P)
    BY DEF SInv, InOrbit
  <2>2. /\ U \in Nat /\ U > 0 /\ C \in Nat /\ P \in Nat /\ P > 0
        /\ U * (P - 1) <= C /\ U * P > C
    BY CycleBounds
  <2> DEFINE m == k % P
  <2>3. m \in Nat /\ m <= P - 1
    BY <2>2, Division
  <2> HIDE DEF U, C, P
  <2>4. k < P => m = k
    BY <2>2
  <2> HIDE DEF m
  <2>5. U * m <= C
    <3>1. U * m <= U * (P - 1)
      BY <2>2, <2>3
    <3>2. U * m \in Nat /\ U * (P - 1) \in Nat
      BY <2>2, <2>3
    <3> QED BY <2>2, <3>1, <3>2
  <2>6. (U * m) % U = 0
    BY <2>2, <2>3
  <2>7. k * U <= C => U * m = k * U
    <3> SUFFICES ASSUME k * U <= C PROVE U * m = k * U
      OBVIOUS
    <3>1. k < P
      <4>1. SUFFICES ASSUME k >= P PROVE FALSE
        BY <2>2
      <4>2. P * U <= k * U
        BY <2>2, <4>1
      <4>3. P * U = U * P /\ U * P \in Nat /\ k * U \in Nat
        BY <2>2
      <4> QED BY <2>2, <4>2, <4>3
    <3> QED BY <2>2, <2>4, <3>1
  <2> QED BY <2>1, <2>5, <2>6, <2>7 DEF SInv, OnTime, U, C, P, m
<1> QED BY Invariance, InitSInv, NextSInv, <1>1, PTL DEF Spec

(* What the code's cycle is: the orbits start over one update after the    *)
(* cycle time, and repeat with that period for ever (setTargetPosition).   *)
THEOREM ActualCycle ==
  Spec => [](\A s \in Satellites : InOrbit(orbit[s]))
<1>1. SInv => \A s \in Satellites : InOrbit(orbit[s])
  BY DEF SInv
<1> QED BY Invariance, InitSInv, NextSInv, <1>1, PTL DEF Spec
=============================================================================
