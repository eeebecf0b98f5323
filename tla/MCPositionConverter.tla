------------------------- MODULE MCPositionConverter -------------------------
(***************************************************************************)
(* A small world for TLC: a crop area in the west, satellites inside and   *)
(* on either side of it, four beams around each satellite, beam 0 for the  *)
(* control centre, beams 1 and 2 for the car, beam 3 for nobody.           *)
(***************************************************************************)
EXTENDS PositionConverter

MCCropOffset == <<2, 1>>
MCCropSize == <<10, 10>>
MCOrbit == {<<4, 6>>, <<7, 5>>, <<13, 10>>}
MCBeamOffsets == <<<<-1, 1>>, <<1, 1>>, <<-1, 0>>, <<0, -1>>>>

(* On a world map of 20 by 10 a latitude at height y, taken for a          *)
(* longitude, is at x = 15 - y.                                            *)
MCPlaces == [MCC |-> <<4, 9, 6>>, GS |-> <<5, 8, 7>>, nobody |-> <<10, 5, 10>>]
=============================================================================
