------------------------------- MODULE BeamInfo -------------------------------
(***************************************************************************)
(* The beams of each satellite and the place each is meant for: BeamInfo   *)
(* lays 19 beams around the satellite's position on the map, SBinder says  *)
(* which place a beam serves, and the satellite points the beam that is    *)
(* nearest to its own place.                                               *)
(*                                                                         *)
(* Beams move on the canvas with their satellite and spread with the scale *)
(* of the map; the places they serve are converted at every lookup, so     *)
(* both the scale and the canvas positions of the places are parameters.   *)
(***************************************************************************)
EXTENDS Integers, Sequences

CONSTANTS
  Satellites,
  BeamOffsets,  \* of each beam from its satellite, in units of the scale
  NumOfCars,
  Reach         \* initialDistance: the square of the greatest distance

VARIABLES
  beamCenter,    \* of each satellite's beams
  bInitialized,  \* have they been laid out before?
  beamIndex      \* the beam each satellite points

beamVars == <<beamCenter, bInitialized, beamIndex>>

Beams == 0..(Len(BeamOffsets) - 1)

(* BeamPositionIndex has no value until beams are moved a second time.     *)
Unset == -1

Init ==
  /\ beamCenter = [s \in Satellites |-> <<0, 0>>]
  /\ bInitialized = [s \in Satellites |-> FALSE]
  /\ beamIndex = [s \in Satellites |-> Unset]

(* registerChannel: every car there is has channel 0.                      *)
ReferenceToCarChannel == [i \in 0..(NumOfCars - 1) |-> 0]

(* getBeamPosition: beam 0 is the feeder link's and serves MCC[0]; the     *)
(* channel of another beam's car is taken for a car, so each of them       *)
(* serves GS[0]; beams without a car serve position (0,0).                 *)
Served == {"MCC", "GS", "nobody"}
GetBeamPosition(i) ==
  IF i = 0 THEN "MCC"
  ELSE IF i \in DOMAIN ReferenceToCarChannel THEN "GS" ELSE "nobody"

BeamCenters(at, unit) ==
  [i \in Beams |-> <<at[1] + BeamOffsets[i + 1][1] * unit[1],
                     at[2] + BeamOffsets[i + 1][2] * unit[2]>>]

(* The square of the distance of a beam from the place it serves; canvas   *)
(* says where those places are.                                            *)
Distance2(centers, canvas, i) ==
  LET dx == centers[i][1] - canvas[GetBeamPosition(i)][1]
      dy == centers[i][2] - canvas[GetBeamPosition(i)][2]
  IN dx * dx + dy * dy

(* The loop of FindBeamDirection, after each number of beams.              *)
NearestAmongFirst(centers, canvas) ==
  LET scan[n \in 0..Len(BeamOffsets)] ==
        IF n = 0 THEN [distance |-> Reach, index |-> 0]
        ELSE LET d == Distance2(centers, canvas, n - 1)
             IN IF d <= scan[n - 1].distance THEN [distance |-> d, index |-> n - 1]
                ELSE scan[n - 1]
  IN scan

(* FindBeamDirection: the last of the nearest beams within reach, or 0.    *)
FindBeamDirection(centers, canvas) ==
  NearestAmongFirst(centers, canvas)[Len(BeamOffsets)].index

(* Mutant: the beam is looked for before the beams have moved.             *)
FindThenMove(s, at, unit, canvas) ==
  /\ beamCenter' = [beamCenter EXCEPT ![s] = at]
  /\ bInitialized' = [bInitialized EXCEPT ![s] = TRUE]
  /\ beamIndex' = [beamIndex EXCEPT ![s] =
       IF bInitialized[s] THEN FindBeamDirection(BeamCenters(beamCenter[s], unit), canvas)
       ELSE Unset]

(* SetCenter and updatePosition: a beam is looked for from the second time *)
(* on.                                                                     *)
UpdatePosition(s, at, unit, canvas) ==
  /\ beamCenter' = [beamCenter EXCEPT ![s] = at]
  /\ bInitialized' = [bInitialized EXCEPT ![s] = TRUE]
  /\ beamIndex' = [beamIndex EXCEPT ![s] =
       IF bInitialized[s] THEN FindBeamDirection(BeamCenters(at, unit), canvas)
       ELSE Unset]

(* The beam a satellite points is as near to its place on this canvas as   *)
(* any, and within reach unless it is the feeder's.                        *)
PointsNearest(s, unit, canvas) ==
  LET centers == BeamCenters(beamCenter[s], unit)
      nearest == {i \in Beams : /\ Distance2(centers, canvas, i) <= Reach
                                /\ \A j \in Beams : Distance2(centers, canvas, i) <= Distance2(centers, canvas, j)}
  IN IF nearest = {} THEN beamIndex[s] = 0
     ELSE beamIndex[s] \in nearest /\ \A j \in nearest : j <= beamIndex[s]
=============================================================================
