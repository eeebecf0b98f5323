------------------------ MODULE PositionConverter_proofs ------------------------
(***************************************************************************)
(* Theorems about PositionConverter, for any map sizes, any satellites,    *)
(* any beams and any update interval: whatever its sources leave behind    *)
(* when they fail, reference, map, canvas and beams end up consistent.     *)
(***************************************************************************)
EXTENDS PositionConverter, Induction

(* The parameters are what the configurations and the surroundings can be. *)
IniOK ==
  /\ ini.universalMode \in BOOLEAN /\ ini.hasCrop \in BOOLEAN
  /\ ini.emap \in MapSizes /\ ini.sumoSize \in MapSizes /\ ini.sumo \in SumoFile
  /\ ini.hasManual \in BOOLEAN /\ ini.hasTraCI \in BOOLEAN

Close(s, t) == s[1] - t[1] \in -1..1 /\ s[2] - t[2] \in -1..1

(* From the first stage on, centre and crop scale belong to the map.       *)
MapFollows ==
  phase # "local" =>
    /\ universalMode = ini.universalMode
    /\ emap \in MapSizes
    /\ center = emap
    /\ scale.basis = "crop" => scale.size = emap

(* How far down the ladder a phase is: which sources have failed before    *)
(* it, and what the reference is meanwhile.                                *)
Ladder ==
  /\ phase \in {"local", "placing", "sumo", "manual", "traci", "factors", "ready", "threw"}
  /\ phase \in {"local", "placing", "sumo", "manual", "traci"} => reference = "zero"
  /\ phase = "sumo" => ini.sumo # "none"
  /\ phase \in {"manual", "traci"} => ini.sumo \in {"none", "unreadable", "noBounds"}
  /\ phase = "traci" => ~ini.hasManual
  /\ phase \in {"factors", "ready"} =>
       /\ reference = IF ini.sumo \in {"noSize", "complete"} THEN "sumo"
                      ELSE IF ini.hasManual THEN "manual"
                      ELSE IF ini.hasTraCI THEN "traci" ELSE "zero"
       /\ reference = "zero" => ~ini.universalMode
       /\ ini.sumo = "complete" => Close(emap, ini.sumoSize)
  /\ phase = "ready" => lonFactorFor = reference

(* Every satellite's timer is set; only the first drawing may be stale.    *)
Timers ==
  /\ now \in Nat
  /\ nextChange \in [Satellites -> Nat]
  /\ phase = "local" => \A s \in Satellites : nextChange[s] = 0
  /\ phase = "placing" => \A s \in Satellites : nextChange[s] \in {0, UpdateInterval}
  /\ phase \in {"local", "placing", "sumo", "manual", "traci", "factors"} => now = 0
  /\ phase \notin {"local", "placing"} =>
       \A s \in Satellites : now <= nextChange[s] /\ nextChange[s] >= UpdateInterval
  /\ phase \in {"sumo", "manual", "traci", "factors"} =>
       \A s \in Satellites : nextChange[s] = UpdateInterval
  /\ phase = "ready" =>
       \A s \in Satellites : nextChange[s] > UpdateInterval => shown[s] = scale
  /\ DOMAIN shown = Satellites

(* The beams of every satellite that has been placed lie around it, and    *)
(* the one it points was looked for with the final scale, but for the      *)
(* first drawing.                                                          *)
BeamsDrawn ==
  /\ universalMode \in BOOLEAN /\ emap \in Int \X Int /\ scale.size \in Int \X Int
  /\ beamCenter \in [Satellites -> Int \X Int]
  /\ bInitialized \in [Satellites -> BOOLEAN] /\ DOMAIN beamIndex = Satellites
  /\ \A s \in Satellites : nextChange[s] > 0 => bInitialized[s]
  /\ phase = "ready" =>
       \A s \in Satellites : nextChange[s] > UpdateInterval =>
         Beam!PointsNearest(s, Unit(scale), CanvasPlaces)

(* The inductive invariant.                                                *)
IInv == IniOK /\ MapFollows /\ Ladder /\ Timers /\ BeamsDrawn

-----------------------------------------------------------------------------
(* The beams.                                                              *)

(* The loop's variables after n beams.                                     *)
Best == [distance : Int, index : Int]

(* The loop, unfolded: each beam replaces the best one so far if it is at  *)
(* least as near.                                                          *)
LEMMA ScanUnfolds ==
  ASSUME NEW centers, NEW canvas,
         \A i \in Beam!Beams : Beam!Distance2(centers, canvas, i) \in Int
  PROVE  LET L == Len(BeamOffsets)
             scan == Beam!NearestAmongFirst(centers, canvas)
             D(i) == Beam!Distance2(centers, canvas, i)
         IN /\ scan \in [0..L -> Best]
            /\ scan[0] = [distance |-> Reach, index |-> 0]
            /\ \A n \in 1..L :
                 scan[n] = IF D(n - 1) <= scan[n - 1].distance
                           THEN [distance |-> D(n - 1), index |-> n - 1] ELSE scan[n - 1]
<1> DEFINE L == Len(BeamOffsets)
           D(i) == Beam!Distance2(centers, canvas, i)
           base == [distance |-> Reach, index |-> 0]
           better(n, best) == IF D(n - 1) <= best.distance
                              THEN [distance |-> D(n - 1), index |-> n - 1] ELSE best
           Loop(g) == [n \in 0..L |-> IF n = 0 THEN base ELSE better(n, g[n - 1])]
           step == [p \in (1..L) \X Best |-> better(p[1], p[2])]
           scan == Beam!NearestAmongFirst(centers, canvas)
<1>1. L \in Nat /\ Reach \in Int
  BY GeometryAssumption
<1>2. \A i \in 0..(L - 1) : D(i) \in Int
  BY DEF Beam!Beams
<1>3. scan = CHOOSE g : g = Loop(g)
  BY DEF Beam!NearestAmongFirst
<1> HIDE DEF L, D, scan
<1>4. base \in Best
  BY <1>1 DEF Best
<1>5. \A n \in 1..L, best \in Best : better(n, best) \in Best
  <2> SUFFICES ASSUME NEW n \in 1..L, NEW best \in Best PROVE better(n, best) \in Best
    OBVIOUS
  <2>1. D(n - 1) \in Int /\ n - 1 \in Int
    BY <1>1, <1>2
  <2> QED BY <2>1 DEF Best
<1>6. \A n \in 1..L, best \in Best : step[<<n, best>>] = better(n, best)
  <2> HIDE DEF better
  <2> QED OBVIOUS
<1>7. PICK f \in [0..L -> Best] : Iterates(f, step, base, L)
  <2> HIDE DEF base, step, better
  <2>1. StepsWithin(step, L, Best)
    BY <1>5, <1>6 DEF StepsWithin
  <2> QED BY <1>1, <1>4, <2>1, IterationExists
<1>8. f = Loop(f)
  <2>1. ASSUME NEW n \in 0..L PROVE f[n] = IF n = 0 THEN base ELSE better(n, f[n - 1])
    <3>1. CASE n = 0
      BY <1>7, <3>1 DEF Iterates
    <3>2. CASE n # 0
      <4>1. n \in 1..L /\ n - 1 \in 0..L
        BY <1>1, <3>2
      <4> HIDE DEF better, step
      <4> QED BY <1>6, <1>7, <3>2, <4>1 DEF Iterates
    <3> QED BY <3>1, <3>2
  <2> HIDE DEF better, base
  <2> QED BY <2>1
<1>9. scan = Loop(scan)
  <2> HIDE DEF Loop
  <2> QED BY <1>3, <1>8
<1>10. /\ scan[0] = base
      /\ \A n \in 1..L : scan[n] = better(n, scan[n - 1])
  <2>1. \A n \in 0..L : scan[n] = IF n = 0 THEN base ELSE better(n, scan[n - 1])
    <3> HIDE DEF better, base
    <3> QED BY <1>9
  <2> HIDE DEF better, base
  <2> QED BY <1>1, <2>1
<1>11. \A n \in 0..L : scan[n] \in Best
  <2> DEFINE P == {n \in 0..L : scan[n] \in Best}
  <2>1. 0 \in P
    BY <1>1, <1>4, <1>10
  <2>2. ASSUME NEW n \in 1..L, n - 1 \in P PROVE n \in P
    <3> HIDE DEF better
    <3> QED BY <1>1, <1>5, <1>10, <2>2
  <2> HIDE DEF P
  <2>3. 0..L \subseteq P
    BY <1>1, <2>1, <2>2, IntervalInduction
  <2> QED BY <2>3 DEF P
<1>12. scan \in [0..L -> Best]
  <2> HIDE DEF better, base
  <2> QED BY <1>9, <1>11
<1> QED BY <1>10, <1>12 DEF L, D, scan

(* Whether the loop, after n beams, has found the last of the nearest ones *)
(* within reach, if there are any.                                         *)
FoundNearest(best, n, centers, canvas) ==
  LET D(i) == Beam!Distance2(centers, canvas, i)
  IN \/ /\ best.distance = Reach /\ best.index = 0
        /\ \A i \in 0..(n - 1) : D(i) > Reach
     \/ /\ best.index \in 0..(n - 1)
        /\ best.distance = D(best.index) /\ best.distance <= Reach
        /\ \A i \in 0..(n - 1) : best.distance <= D(i)
        /\ \A i \in (best.index + 1)..(n - 1) : best.distance < D(i)

(* FindBeamDirection finds the last of the nearest beams within reach, or  *)
(* takes the feeder's.                                                     *)
LEMMA FindsNearest ==
  ASSUME NEW centers, NEW canvas,
         \A i \in Beam!Beams : Beam!Distance2(centers, canvas, i) \in Int
  PROVE  LET D(i) == Beam!Distance2(centers, canvas, i)
             found == Beam!FindBeamDirection(centers, canvas)
             nearest == {i \in Beam!Beams : D(i) <= Reach /\ \A j \in Beam!Beams : D(i) <= D(j)}
         IN IF nearest = {} THEN found = 0
            ELSE found \in nearest /\ \A j \in nearest : j <= found
<1> DEFINE L == Len(BeamOffsets)
           D(i) == Beam!Distance2(centers, canvas, i)
           scan == Beam!NearestAmongFirst(centers, canvas)
           found == Beam!FindBeamDirection(centers, canvas)
           nearest == {i \in Beam!Beams : D(i) <= Reach /\ \A j \in Beam!Beams : D(i) <= D(j)}
           P == {n \in 0..L : FoundNearest(scan[n], n, centers, canvas)}
<1>1. L \in Nat /\ Reach \in Int
  BY GeometryAssumption
<1>2. /\ scan \in [0..L -> Best]
      /\ scan[0] = [distance |-> Reach, index |-> 0]
      /\ \A n \in 1..L :
           scan[n] = IF D(n - 1) <= scan[n - 1].distance
                     THEN [distance |-> D(n - 1), index |-> n - 1] ELSE scan[n - 1]
  BY ScanUnfolds
<1>3. Beam!Beams = 0..(L - 1) /\ found = scan[L].index
  BY DEF Beam!Beams, Beam!FindBeamDirection
<1>4. \A i \in 0..(L - 1) : D(i) \in Int
  BY <1>3
<1> HIDE DEF L, scan, found
<1>5. 0 \in P
  BY <1>1, <1>2 DEF FoundNearest
<1>6. ASSUME NEW n \in 1..L, n - 1 \in P PROVE n \in P
  <2>1. FoundNearest(scan[n - 1], n - 1, centers, canvas) /\ n - 1 \in 0..(L - 1)
    BY <1>1, <1>6
  <2>2. scan[n - 1] \in Best /\ D(n - 1) \in Int
    BY <1>1, <1>2, <1>4
  <2> DEFINE b == scan[n - 1]
             c == scan[n]
  <2>3. /\ b.distance \in Int /\ b.index \in Int
        /\ c = IF D(n - 1) <= b.distance THEN [distance |-> D(n - 1), index |-> n - 1] ELSE b
    BY <1>2, <2>2 DEF Best
  <2>4. \A i \in 0..(n - 1) : D(i) \in Int /\ (i = n - 1 \/ i \in 0..(n - 2))
    BY <1>1, <1>4
  <2>5. \/ /\ b.distance = Reach /\ b.index = 0
           /\ \A i \in 0..(n - 2) : D(i) > Reach
        \/ /\ b.index \in 0..(n - 2)
           /\ b.distance = D(b.index) /\ b.distance <= Reach
           /\ \A i \in 0..(n - 2) : b.distance <= D(i)
           /\ \A i \in (b.index + 1)..(n - 2) : b.distance < D(i)
    BY <2>1 DEF FoundNearest
  <2> HIDE DEF b, c, D, P
  <2>6. \/ /\ c.distance = Reach /\ c.index = 0
           /\ \A i \in 0..(n - 1) : D(i) > Reach
        \/ /\ c.index \in 0..(n - 1)
           /\ c.distance = D(c.index) /\ c.distance <= Reach
           /\ \A i \in 0..(n - 1) : c.distance <= D(i)
           /\ \A i \in (c.index + 1)..(n - 1) : c.distance < D(i)
    <3>1. CASE D(n - 1) <= b.distance
      <4>1. c.distance = D(n - 1) /\ c.index = n - 1
        BY <2>3, <3>1
      <4>2. \A i \in 0..(n - 1) : D(n - 1) <= D(i)
        BY <1>1, <2>3, <2>4, <2>5, <3>1
      <4>3. D(n - 1) <= Reach
        BY <1>1, <1>4, <2>3, <2>4, <2>5, <3>1
      <4> QED BY <4>1, <4>2, <4>3
    <3>2. CASE ~(D(n - 1) <= b.distance)
      <4>1. c = b
        BY <2>3, <3>2
      <4>2. D(n - 1) > b.distance
        BY <2>2, <2>3, <3>2 DEF D
      <4>3. CASE b.index = 0 /\ b.distance = Reach /\ \A i \in 0..(n - 2) : D(i) > Reach
        BY <2>4, <4>1, <4>2, <4>3
      <4>4. CASE /\ b.index \in 0..(n - 2)
                 /\ b.distance = D(b.index) /\ b.distance <= Reach
                 /\ \A i \in 0..(n - 2) : b.distance <= D(i)
                 /\ \A i \in (b.index + 1)..(n - 2) : b.distance < D(i)
        <5>1. \A i \in 0..(n - 1) : b.distance <= D(i)
          BY <2>3, <2>4, <4>2, <4>4
        <5>2. \A i \in (b.index + 1)..(n - 1) : b.distance < D(i)
          BY <2>3, <2>4, <4>2, <4>4
        <5>3. b.index \in 0..(n - 1)
          BY <4>4
        <5> QED BY <4>1, <4>4, <5>1, <5>2, <5>3
      <4> QED BY <2>5, <4>3, <4>4
    <3> QED BY <3>1, <3>2
  <2>7. FoundNearest(scan[n], n, centers, canvas)
    BY <2>6 DEF FoundNearest, c, D
  <2> QED BY <1>1, <2>7 DEF P
<1>7. 0..L \subseteq P
  <2> HIDE DEF P
  <2> QED BY <1>1, <1>5, <1>6, IntervalInduction
<1>8. FoundNearest(scan[L], L, centers, canvas) /\ scan[L] \in Best
  BY <1>1, <1>2, <1>7
<1> DEFINE b == scan[L]
<1>9. \/ /\ b.distance = Reach /\ b.index = 0
         /\ \A i \in 0..(L - 1) : D(i) > Reach
      \/ /\ b.index \in 0..(L - 1)
         /\ b.distance = D(b.index) /\ b.distance <= Reach
         /\ \A i \in 0..(L - 1) : b.distance <= D(i)
         /\ \A i \in (b.index + 1)..(L - 1) : b.distance < D(i)
  BY <1>8 DEF FoundNearest
<1>10. b.distance \in Int /\ b.index \in Int
  BY <1>8 DEF Best
<1> HIDE DEF b, D
<1>11. \A i : i \in nearest <=> /\ i \in 0..(L - 1) /\ D(i) <= Reach
                               /\ \A j \in 0..(L - 1) : D(i) <= D(j)
  BY <1>3
<1> HIDE DEF nearest
<1>12. CASE b.index = 0 /\ \A i \in 0..(L - 1) : D(i) > Reach
  <2>1. nearest = {}
    BY <1>1, <1>4, <1>11, <1>12
  <2> QED BY <1>3, <1>12, <2>1 DEF b, D, nearest, found
<1>13. CASE /\ b.index \in 0..(L - 1)
            /\ b.distance = D(b.index) /\ b.distance <= Reach
            /\ \A i \in 0..(L - 1) : b.distance <= D(i)
            /\ \A i \in (b.index + 1)..(L - 1) : b.distance < D(i)
  <2>1. b.index \in nearest
    BY <1>11, <1>13
  <2>2. ASSUME NEW j \in nearest PROVE j <= b.index
    <3>1. j \in 0..(L - 1) /\ D(j) <= D(b.index) /\ D(j) \in Int
      BY <1>4, <1>11, <1>13
    <3>2. j \notin (b.index + 1)..(L - 1)
      BY <1>10, <1>13, <3>1
    <3> QED BY <1>1, <1>10, <3>1, <3>2
  <2> QED BY <1>3, <2>1, <2>2 DEF b, D, nearest, found
<1> QED BY <1>9, <1>12, <1>13

(* Positions on the canvas are whole numbers, whatever the map.            *)
LEMMA CanvasTypes ==
  ASSUME universalMode \in BOOLEAN, emap \in Int \X Int, scale.size \in Int \X Int
  PROVE  /\ Unit(scale) \in Int \X Int
         /\ \A x \in Int : CurrentXposition(x) \in Int
         /\ \A y \in Int : CurrentYposition(y) \in Int
         /\ CanvasPlaces \in [{"MCC", "GS", "nobody"} -> Int \X Int]
<1>1. /\ MapX \in Nat /\ MapX > 0
      /\ CropSize[1] \in Nat /\ CropSize[1] > 0 /\ CropSize[2] \in Nat /\ CropSize[2] > 0
      /\ CropOffset[1] \in Int /\ CropOffset[2] \in Int
      /\ Places \in [{"MCC", "GS", "nobody"} -> Int \X Int \X Int]
  BY GeometryAssumption
<1>2. Unit(scale) \in Int \X Int
  <2>1. scale.size[1] \in Int /\ scale.size[2] \in Int
    OBVIOUS
  <2>2. scale.size[1] \div CropSize[1] \in Int /\ scale.size[2] \div CropSize[2] \in Int
    BY <1>1, <2>1
  <2> QED BY <2>2 DEF Unit
<1>3. Unit(scale)[1] \in Int /\ Unit(scale)[2] \in Int /\ emap[1] \in Int
  BY <1>2
<1>4. ASSUME NEW x \in Int PROVE CurrentXposition(x) \in Int
  <2> DEFINE onCrop == Unit(scale)[1] * (x - CropOffset[1])
  <2>1. x - CropOffset[1] \in Int
    BY <1>1
  <2>2. onCrop \in Int /\ x * Unit(scale)[1] \in Int
    BY <1>3, <2>1
  <2> HIDE DEF onCrop
  <2>3. -((-onCrop) % MapX) \in Int /\ onCrop % MapX \in Int
    BY <1>1, <2>2
  <2> QED BY <1>3, <2>2, <2>3 DEF CurrentXposition, onCrop
<1>5. ASSUME NEW y \in Int PROVE CurrentYposition(y) \in Int
  <2>1. y - CropOffset[2] \in Int
    BY <1>1
  <2>2. Unit(scale)[2] * (y - CropOffset[2]) \in Int /\ y * Unit(scale)[2] \in Int
    BY <1>3, <2>1
  <2> QED BY <2>2 DEF CurrentYposition
<1>6. CanvasPlaces \in [{"MCC", "GS", "nobody"} -> Int \X Int]
  BY <1>1, <1>4 DEF CanvasPlaces
<1> QED BY <1>2, <1>4, <1>5, <1>6

(* So are the beams' distances from their places.                          *)
LEMMA DistanceType ==
  ASSUME NEW at \in Int \X Int, NEW unit \in Int \X Int,
         NEW canvas \in [{"MCC", "GS", "nobody"} -> Int \X Int]
  PROVE  \A i \in Beam!Beams : Beam!Distance2(Beam!BeamCenters(at, unit), canvas, i) \in Int
<1> SUFFICES ASSUME NEW i \in Beam!Beams
             PROVE  Beam!Distance2(Beam!BeamCenters(at, unit), canvas, i) \in Int
  OBVIOUS
<1> DEFINE center0 == Beam!BeamCenters(at, unit)[i]
           place == canvas[Beam!GetBeamPosition(i)]
<1>1. BeamOffsets[i + 1] \in Int \X Int
  <2>1. BeamOffsets \in Seq(Int \X Int) /\ Len(BeamOffsets) \in Nat
    BY GeometryAssumption
  <2>2. i + 1 \in 1..Len(BeamOffsets)
    BY <2>1 DEF Beam!Beams
  <2> QED BY ONLY <2>1, <2>2
<1>2. /\ BeamOffsets[i + 1][1] \in Int /\ BeamOffsets[i + 1][2] \in Int
      /\ unit[1] \in Int /\ unit[2] \in Int /\ at[1] \in Int /\ at[2] \in Int
  BY <1>1
<1>3. /\ BeamOffsets[i + 1][1] * unit[1] \in Int
      /\ BeamOffsets[i + 1][2] * unit[2] \in Int
  BY <1>2
<1>4. center0 = <<at[1] + BeamOffsets[i + 1][1] * unit[1],
                  at[2] + BeamOffsets[i + 1][2] * unit[2]>>
  BY DEF Beam!BeamCenters
<1>5. center0[1] \in Int /\ center0[2] \in Int
  <2> HIDE DEF center0
  <2> QED BY <1>2, <1>3, <1>4
<1>6. place[1] \in Int /\ place[2] \in Int
  BY DEF Beam!GetBeamPosition
<1> HIDE DEF center0, place
<1>7. center0[1] - place[1] \in Int /\ center0[2] - place[2] \in Int
  BY <1>5, <1>6
<1>8. \A n, m \in Int : n * n + m * m \in Int
  OBVIOUS
<1> QED BY <1>7, <1>8 DEF Beam!Distance2, center0, place

(* A satellite is drawn at some place: its beam is looked for, unless it   *)
(* is the first time, and the other satellites stay.                       *)
LEMMA BeamStep ==
  ASSUME BeamsDrawn, NEW s \in Satellites, NEW at \in Int \X Int,
         Beam!UpdatePosition(s, at, Unit(scale), CanvasPlaces),
         nextChange \in [Satellites -> Nat],
         nextChange' \in [Satellites -> Nat],
         \A t \in Satellites \ {s} : nextChange'[t] = nextChange[t],
         phase = "ready" => nextChange[s] > 0,
         UNCHANGED <<phase, universalMode, emap, scale>>
  PROVE  BeamsDrawn'
<1>1. /\ beamCenter' = [beamCenter EXCEPT ![s] = at]
      /\ bInitialized' = [bInitialized EXCEPT ![s] = TRUE]
      /\ beamIndex' = [beamIndex EXCEPT ![s] =
           IF bInitialized[s]
           THEN Beam!FindBeamDirection(Beam!BeamCenters(at, Unit(scale)), CanvasPlaces)
           ELSE Beam!Unset]
  BY DEF Beam!UpdatePosition
<1>2. /\ universalMode \in BOOLEAN /\ emap \in Int \X Int /\ scale.size \in Int \X Int
      /\ beamCenter \in [Satellites -> Int \X Int]
      /\ bInitialized \in [Satellites -> BOOLEAN] /\ DOMAIN beamIndex = Satellites
      /\ \A t \in Satellites : nextChange[t] > 0 => bInitialized[t]
  BY DEF BeamsDrawn
<1>3. Unit(scale)' = Unit(scale) /\ CanvasPlaces' = CanvasPlaces
  BY DEF Unit, CanvasPlaces, CurrentXposition
<1>4. \A t \in Satellites \ {s} : beamCenter'[t] = beamCenter[t] /\ beamIndex'[t] = beamIndex[t]
                                 /\ bInitialized'[t] = bInitialized[t]
  BY <1>1, <1>2
<1>5. beamCenter'[s] = at /\ bInitialized'[s] = TRUE
  BY <1>1, <1>2
<1>6. /\ beamCenter' \in [Satellites -> Int \X Int]
      /\ bInitialized' \in [Satellites -> BOOLEAN] /\ DOMAIN beamIndex' = Satellites
      /\ \A t \in Satellites : nextChange'[t] > 0 => bInitialized'[t]
  <2>1. beamCenter' \in [Satellites -> Int \X Int]
    BY <1>1, <1>2
  <2>2. bInitialized' \in [Satellites -> BOOLEAN] /\ DOMAIN beamIndex' = Satellites
    BY <1>1, <1>2
  <2>3. ASSUME NEW t \in Satellites, nextChange'[t] > 0 PROVE bInitialized'[t]
    BY <1>2, <1>4, <1>5, <2>3
  <2> QED BY <2>1, <2>2, <2>3
<1>7. ASSUME phase' = "ready", NEW t \in Satellites, nextChange'[t] > UpdateInterval
      PROVE  Beam!PointsNearest(t, Unit(scale), CanvasPlaces)'
  <2>1. CASE t # s
    <3>1. Beam!PointsNearest(t, Unit(scale), CanvasPlaces)
      BY <1>7, <2>1 DEF BeamsDrawn
    <3> QED BY <1>3, <1>4, <2>1, <3>1 DEF Beam!PointsNearest
  <2>2. CASE t = s
    <3> DEFINE centers == Beam!BeamCenters(at, Unit(scale))
    <3>1. beamIndex'[s] = Beam!FindBeamDirection(centers, CanvasPlaces)
      BY <1>1, <1>2, <1>7
    <3>2. \A i \in Beam!Beams : Beam!Distance2(centers, CanvasPlaces, i) \in Int
      BY <1>2, CanvasTypes, DistanceType
    <3> HIDE DEF centers
    <3>3. LET D(i) == Beam!Distance2(centers, CanvasPlaces, i)
              nearest == {i \in Beam!Beams : D(i) <= Reach /\ \A j \in Beam!Beams : D(i) <= D(j)}
          IN IF nearest = {} THEN beamIndex'[s] = 0
             ELSE beamIndex'[s] \in nearest /\ \A j \in nearest : j <= beamIndex'[s]
      BY <3>1, <3>2, FindsNearest
    <3> QED BY <1>3, <1>5, <2>2, <3>3 DEF Beam!PointsNearest, centers
  <2> QED BY <2>1, <2>2
<1> QED BY <1>2, <1>6, <1>7 DEF BeamsDrawn

-----------------------------------------------------------------------------
(* Before the first stage everything is zero.                              *)
LEMMA InitIInv == Init => IInv
<1> SUFFICES ASSUME Init PROVE IInv
  OBVIOUS
<1>1. IniOK
  BY DEF Init, IniOK
<1>2. MapFollows /\ Ladder
  BY DEF Init, MapFollows, Ladder
<1>3. Timers
  BY DEF Init, Timers
<1>4. BeamsDrawn
  <2>1. /\ universalMode \in BOOLEAN /\ emap \in Int \X Int /\ scale.size \in Int \X Int
        /\ phase # "ready" /\ \A s \in Satellites : nextChange[s] = 0
    <3>1. emap = <<0, 0>> /\ scale.size = <<0, 0>> /\ universalMode = FALSE
      BY DEF Init, NoScale
    <3>2. phase # "ready" /\ \A s \in Satellites : nextChange[s] = 0
      BY DEF Init
    <3>3. <<0, 0>> \in Int \X Int
      OBVIOUS
    <3> QED BY <3>1, <3>2, <3>3, Zenon
  <2>2. /\ beamCenter \in [Satellites -> Int \X Int]
        /\ bInitialized \in [Satellites -> BOOLEAN] /\ DOMAIN beamIndex = Satellites
    BY DEF Init, Beam!Init
  <2> QED BY <2>1, <2>2 DEF BeamsDrawn
<1> QED BY <1>1, <1>2, <1>3, <1>4 DEF IInv

(* The timers' interval is a positive number of ticks.                     *)
LEMMA IntervalType == UpdateInterval \in Nat /\ UpdateInterval > 0
  BY ConverterAssumption

(* A size and the difference that parseConvBoundary tolerates.             *)
LEMMA DiffersMeansFar ==
  ASSUME NEW s \in MapSizes, NEW t \in MapSizes
  PROVE  /\ Differs(s, t) \/ Close(t, s)
         /\ Close(s, s)
<1>1. s[1] \in Int /\ s[2] \in Int /\ t[1] \in Int /\ t[2] \in Int
  BY ConverterAssumption DEF MapSizes
<1>2. \A n, m \in Int : n - m \in -1..1 => m - n \in -1..1
  OBVIOUS
<1> QED BY <1>1, <1>2 DEF Differs, Close

(* The first stage, with the member universalMode still false.             *)
LEMMA LocalStep == IInv /\ InitializeLocal => IInv'
<1> SUFFICES ASSUME IInv, InitializeLocal PROVE IInv'
  OBVIOUS
<1> USE DEF IInv, InitializeLocal, iniVars, geoVars, skyVars
<1>1. IniOK'
  BY DEF IniOK
<1>2. MapFollows'
  BY DEF MapFollows, IniOK, CalculateScaleFactors, CropScale, DisplayScale
<1>3. Ladder'
  BY DEF Ladder
<1>4. Timers'
  BY IntervalType DEF Timers
<1>5. BeamsDrawn'
  <2>1. emap' \in Int \X Int /\ scale'.size \in Int \X Int /\ universalMode' \in BOOLEAN
    <3>1. ini.emap \in Int \X Int
      BY ConverterAssumption DEF IniOK, MapSizes
    <3>2. scale'.size = ini.emap \/ scale'.size = <<0, 0>>
      BY DEF CalculateScaleFactors, CropScale, DisplayScale
    <3>3. emap' = ini.emap /\ universalMode' \in BOOLEAN
      BY DEF IniOK
    <3> QED BY ONLY <3>1, <3>2, <3>3
  <2>2. UNCHANGED <<nextChange, beamCenter, bInitialized, beamIndex>> /\ phase' # "ready"
    BY DEF beamVars
  <2>3. BeamsDrawn
    OBVIOUS
  <2> QED BY ONLY <2>1, <2>2, <2>3 DEF BeamsDrawn
<1> QED BY <1>1, <1>2, <1>3, <1>4, <1>5

(* The satellites stay as they are, while the map does.                    *)
LEMMA BeamsStay ==
  ASSUME BeamsDrawn, UNCHANGED <<universalMode, mapVars, nextChange, beamVars>>,
         phase' = "ready" => phase = "ready" \/ \A s \in Satellites : nextChange[s] = UpdateInterval
  PROVE  BeamsDrawn'
<1>1. UNCHANGED <<universalMode, emap, scale, nextChange, beamCenter, bInitialized, beamIndex>>
  BY DEF mapVars, beamVars
<1>2. Unit(scale)' = Unit(scale) /\ CanvasPlaces' = CanvasPlaces
  BY <1>1 DEF Unit, CanvasPlaces, CurrentXposition
<1>3. ASSUME phase' = "ready", NEW s \in Satellites, nextChange[s] > UpdateInterval
      PROVE  Beam!PointsNearest(s, Unit(scale), CanvasPlaces)'
  <2>1. Beam!PointsNearest(s, Unit(scale), CanvasPlaces)
    BY <1>3, IntervalType DEF BeamsDrawn
  <2> QED BY <1>1, <1>2, <2>1 DEF Beam!PointsNearest
<1> QED BY <1>1, <1>3 DEF BeamsDrawn

(* A satellite is drawn, for the first time or again.                      *)
LEMMA DrawStep ==
  ASSUME IInv, NEW s \in Satellites, DrawSatellite(s), phase \in {"placing", "ready"},
         phase = "ready" => now = nextChange[s],
         UNCHANGED <<iniVars, phase, universalMode, mapVars, geoVars, now>>
  PROVE  IInv'
<1> USE DEF IInv, iniVars, mapVars, geoVars
<1>1. /\ shown' = [shown EXCEPT ![s] = scale]
      /\ nextChange' = [nextChange EXCEPT ![s] = now + UpdateInterval]
  BY DEF DrawSatellite
<1>2. IniOK' /\ MapFollows' /\ Ladder'
  BY DEF IniOK, MapFollows, Ladder
<1>3. Timers'
  <2>1. /\ now \in Nat /\ now + UpdateInterval \in Nat
        /\ nextChange' \in [Satellites -> Nat] /\ DOMAIN shown' = Satellites
    BY <1>1, IntervalType DEF Timers
  <2>2. \A t \in Satellites :
          IF t = s THEN nextChange'[t] = now + UpdateInterval /\ shown'[t] = scale
          ELSE nextChange'[t] = nextChange[t] /\ shown'[t] = shown[t]
    BY <1>1 DEF Timers
  <2>3. CASE phase = "placing"
    BY <2>1, <2>2, <2>3, IntervalType DEF Timers
  <2>4. CASE phase = "ready"
    BY <2>1, <2>2, <2>4, IntervalType DEF Timers
  <2> QED BY <2>3, <2>4
<1>4. BeamsDrawn'
  <2>1. PICK at \in Orbit : Redraw(s, at)
    BY DEF DrawSatellite
  <2>2. at[1] \in Int /\ at[2] \in Int
    BY GeometryAssumption
  <2>3. <<CurrentXposition(at[1]), CurrentYposition(at[2])>> \in Int \X Int
    BY <2>2, CanvasTypes DEF BeamsDrawn
  <2>4. /\ nextChange \in [Satellites -> Nat] /\ nextChange' \in [Satellites -> Nat]
        /\ \A t \in Satellites \ {s} : nextChange'[t] = nextChange[t]
        /\ phase = "ready" => nextChange[s] > 0
    BY <1>1, <1>3, IntervalType DEF Timers
  <2>5. BeamsDrawn /\ UNCHANGED <<phase, universalMode, emap, scale>>
    OBVIOUS
  <2>6. Beam!UpdatePosition(s, <<CurrentXposition(at[1]), CurrentYposition(at[2])>>,
                            Unit(scale), CanvasPlaces)
    BY <2>1 DEF Redraw
  <2> QED BY ONLY <2>3, <2>4, <2>5, <2>6, BeamStep
<1> QED BY <1>2, <1>3, <1>4

(* The rungs of the ladder.                                                *)
LEMMA LadderStep ==
  IInv /\ (StartGeographicReference \/ TryLoadFromSumoFile \/ TryLoadManualCoordinates
             \/ TryLoadFromTraCI \/ CalculateConversionFactors) => IInv'
<1> SUFFICES ASSUME IInv, \/ StartGeographicReference \/ TryLoadFromSumoFile
                          \/ TryLoadManualCoordinates \/ TryLoadFromTraCI
                          \/ CalculateConversionFactors
             PROVE  IInv'
  OBVIOUS
<1> USE DEF IInv, iniVars, mapVars, geoVars, skyVars
<1>1. CASE StartGeographicReference
  <2>1. IniOK' /\ MapFollows'
    BY <1>1 DEF StartGeographicReference, IniOK, MapFollows
  <2>2. Ladder'
    BY <1>1 DEF StartGeographicReference, Ladder, IniOK, SumoFile
  <2>3. Timers'
    BY <1>1, IntervalType DEF StartGeographicReference, Timers
  <2>4. BeamsDrawn'
    BY <1>1, BeamsStay DEF StartGeographicReference, Timers
  <2> QED BY <2>1, <2>2, <2>3, <2>4
<1>2. CASE TryLoadFromSumoFile
  <2>1. IniOK' /\ ini' = ini /\ ini.sumoSize \in MapSizes /\ emap \in MapSizes
    BY <1>2 DEF TryLoadFromSumoFile, IniOK, MapFollows
  <2>2. MapFollows'
    BY <1>2, <2>1 DEF TryLoadFromSumoFile, MapFollows, UpdateMapDimensions,
                      CalculateScaleFactors, CropScale, DisplayScale
  <2>3. Ladder'
    <3>1. CASE ini.sumo \in {"unreadable", "noBounds"}
      BY <1>2, <3>1 DEF TryLoadFromSumoFile, Ladder
    <3>2. CASE ini.sumo \notin {"unreadable", "noBounds"}
      <4>1. /\ reference' = "sumo" /\ phase' = "factors" /\ ini' = ini
            /\ lonFactorFor' = lonFactorFor
        BY <1>2, <3>2 DEF TryLoadFromSumoFile
      <4>2. ini.sumo \in {"noSize", "complete"}
        BY <1>2, <3>2 DEF TryLoadFromSumoFile, Ladder, IniOK, SumoFile
      <4>3. ini.sumo = "complete" => Close(emap', ini.sumoSize)
        <5>1. CASE ini.sumo = "complete" /\ Differs(ini.sumoSize, emap)
          <6>1. emap' = ini.sumoSize
            BY <1>2, <3>2, <5>1 DEF TryLoadFromSumoFile, UpdateMapDimensions
          <6> QED BY <2>1, <6>1, DiffersMeansFar
        <5>2. CASE ini.sumo = "complete" /\ ~Differs(ini.sumoSize, emap)
          <6>1. emap' = emap
            BY <1>2, <3>2, <5>2 DEF TryLoadFromSumoFile
          <6> QED BY <2>1, <5>2, <6>1, DiffersMeansFar
        <5> QED BY <5>1, <5>2
      <4> QED BY <4>1, <4>2, <4>3 DEF Ladder
    <3> QED BY <3>1, <3>2
  <2>4. Timers'
    BY <1>2, IntervalType DEF TryLoadFromSumoFile, Timers
  <2>5. BeamsDrawn'
    <3>1. emap' \in Int \X Int /\ scale'.size \in Int \X Int
      <4>1. \A size \in MapSizes : size \in Int \X Int
        BY ConverterAssumption DEF MapSizes
      <4> QED BY <1>2, <2>1, <4>1
              DEF TryLoadFromSumoFile, UpdateMapDimensions, BeamsDrawn,
                  CalculateScaleFactors, CropScale, DisplayScale
    <3>2. UNCHANGED <<universalMode, nextChange, beamCenter, bInitialized, beamIndex>>
      BY <1>2 DEF TryLoadFromSumoFile, beamVars
    <3>3. phase' # "ready"
      BY <1>2 DEF TryLoadFromSumoFile
    <3> QED BY <3>1, <3>2, <3>3 DEF BeamsDrawn
  <2> QED BY <2>1, <2>2, <2>3, <2>4, <2>5
<1>3. CASE TryLoadManualCoordinates
  <2>1. IniOK' /\ MapFollows'
    BY <1>3 DEF TryLoadManualCoordinates, IniOK, MapFollows
  <2>2. Ladder'
    BY <1>3 DEF TryLoadManualCoordinates, Ladder
  <2>3. Timers'
    BY <1>3, IntervalType DEF TryLoadManualCoordinates, Timers
  <2>4. BeamsDrawn'
    BY <1>3, BeamsStay DEF TryLoadManualCoordinates, Timers
  <2> QED BY <2>1, <2>2, <2>3, <2>4
<1>4. CASE TryLoadFromTraCI
  <2>1. IniOK' /\ MapFollows'
    BY <1>4 DEF TryLoadFromTraCI, IniOK, MapFollows
  <2>2. Ladder'
    BY <1>4 DEF TryLoadFromTraCI, Ladder, MapFollows
  <2>3. Timers'
    BY <1>4, IntervalType DEF TryLoadFromTraCI, Timers
  <2>4. BeamsDrawn'
    BY <1>4, BeamsStay DEF TryLoadFromTraCI, Timers
  <2> QED BY <2>1, <2>2, <2>3, <2>4
<1>5. CASE CalculateConversionFactors
  <2>1. IniOK' /\ MapFollows'
    BY <1>5 DEF CalculateConversionFactors, IniOK, MapFollows
  <2>2. Ladder'
    BY <1>5 DEF CalculateConversionFactors, Ladder
  <2>3. Timers'
    BY <1>5, IntervalType DEF CalculateConversionFactors, Timers
  <2>4. BeamsDrawn'
    BY <1>5, BeamsStay DEF CalculateConversionFactors, Timers
  <2> QED BY <2>1, <2>2, <2>3, <2>4
<1> QED BY <1>1, <1>2, <1>3, <1>4, <1>5

(* Every step preserves the invariant.                                     *)
LEMMA NextIInv == IInv /\ [Next]_vars => IInv'
<1> SUFFICES ASSUME IInv, [Next]_vars PROVE IInv'
  OBVIOUS
<1>1. CASE Initialize
  BY <1>1, LocalStep, LadderStep DEF Initialize
<1>2. CASE Tick
  <2> USE <1>2 DEF IInv, Tick, iniVars, mapVars, geoVars
  <2>1. IniOK' /\ MapFollows' /\ Ladder'
    BY DEF IniOK, MapFollows, Ladder
  <2>2. Timers'
    BY IntervalType DEF Timers
  <2>3. BeamsDrawn'
    BY BeamsStay
  <2> QED BY <2>1, <2>2, <2>3
<1>3. ASSUME NEW s \in Satellites, PlaceSatellite(s) PROVE IInv'
  BY <1>3, DrawStep DEF PlaceSatellite
<1>4. ASSUME NEW s \in Satellites, Move(s) PROVE IInv'
  BY <1>4, DrawStep DEF Move
<1>5. ASSUME UNCHANGED <<iniVars, phase, universalMode, mapVars, geoVars, now, nextChange, shown>>,
             BeamsDrawn'
      PROVE  IInv'
  BY <1>5 DEF iniVars, mapVars, geoVars, IInv, IniOK, MapFollows, Ladder, Timers
<1>6. ASSUME NEW s \in Satellites, MoveBetweenChanges(s) PROVE IInv'
  <2>1. /\ Beam!UpdatePosition(s, beamCenter[s], Unit(scale), CanvasPlaces)
        /\ UNCHANGED <<iniVars, phase, universalMode, mapVars, geoVars, now, nextChange, shown>>
    BY <1>6 DEF MoveBetweenChanges
  <2>2. /\ BeamsDrawn /\ beamCenter[s] \in Int \X Int
        /\ nextChange \in [Satellites -> Nat]
        /\ phase = "ready" => nextChange[s] > 0
    BY IntervalType DEF IInv, Timers, BeamsDrawn
  <2>3. UNCHANGED <<phase, universalMode, emap, scale>> /\ nextChange' = nextChange
    BY <2>1 DEF mapVars
  <2>4. BeamsDrawn'
    BY ONLY <2>1, <2>2, <2>3, BeamStep
  <2> QED BY <1>5, <2>1, <2>4
<1>7. CASE UNCHANGED vars
  <2>1. BeamsDrawn'
    BY <1>7, BeamsStay DEF IInv, vars, skyVars
  <2> QED BY <1>5, <1>7, <2>1 DEF vars, skyVars
<1> QED BY <1>1, <1>2, <1>3, <1>4, <1>6, <1>7 DEF Next

-----------------------------------------------------------------------------
(* The inductive invariant holds of every behaviour of the converter.      *)
THEOREM Invariance == Spec => []IInv
  BY InitIInv, NextIInv, PTL DEF Spec

(* The reference comes from the best source there is                       *)
(* (initializeGeographicReference).                                        *)
THEOREM BestReference == Spec => []ReferenceByPriority
<1>1. IInv => ReferenceByPriority
  BY DEF IInv, Ladder, ReferenceByPriority
<1> QED BY Invariance, <1>1, PTL

(* Map, centre and crop scale agree with each other and with the SUMO file *)
(* (parseConvBoundary, updateMapDimensions).                               *)
THEOREM ConsistentMap == Spec => []MapConsistent
<1>1. IInv => MapConsistent
  BY DEF IInv, Ladder, MapFollows, Close, MapConsistent
<1> QED BY Invariance, <1>1, PTL

(* The canvas shows every satellite with the final scale once all timers   *)
(* have fired (setTargetPosition).                                         *)
THEOREM CanvasFinal == Spec => []CanvasCatchesUp
<1>1. IInv => CanvasCatchesUp
  BY IntervalType DEF IInv, Timers, CanvasCatchesUp
<1> QED BY Invariance, <1>1, PTL

(* Once all timers have fired, every beam pointed is the one the lookup's  *)
(* own distances choose for the final scale and the satellite's present    *)
(* place (updatePosition, FindBeamDirection).  It does not say that it is  *)
(* the nearest on the map, which PointsNearestOnMap refutes.               *)
THEOREM BeamFinal == Spec => []BeamCatchesUp
<1>1. IInv => BeamCatchesUp
  <2> SUFFICES ASSUME IInv, phase = "ready", now > UpdateInterval, NEW s \in Satellites
               PROVE  Beam!PointsNearest(s, Unit(scale), CanvasPlaces)
    BY DEF BeamCatchesUp
  <2>1. nextChange[s] > UpdateInterval
    BY IntervalType DEF IInv, Timers
  <2> QED BY <2>1 DEF IInv, BeamsDrawn
<1> QED BY Invariance, <1>1, PTL
=============================================================================
