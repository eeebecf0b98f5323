--------------------------- MODULE PositionConverter ---------------------------
(***************************************************************************)
(* PositionConverter: where on earth the simulated map lies, and how its   *)
(* positions are drawn.  It initialises in two stages, and the second one  *)
(* climbs down a ladder of sources, each of which may fail half-way.  The  *)
(* satellites are placed on the canvas between the two stages, and then    *)
(* move on timers of their own.                                            *)
(*                                                                         *)
(* A map size is a pair of metres; what matters of a scale is what it was  *)
(* computed from, what matters of a reference is where it comes from.      *)
(***************************************************************************)
EXTENDS Integers, Sequences

CONSTANTS
  Widths, Heights, \* sizes a map may have, by emapx, emapy or by the SUMO file
  Satellites,
  MapX,                 \* mapx: width of the world map
  CropOffset, CropSize, \* the crop area on it: offset_x, offset_y, mapx2, mapy2
  Orbit,                \* on it: where satellites may be
  Places,               \* whom beams serve: x of the longitude and y of the latitude
                        \* on it, and the x of that latitude taken for a longitude
  BeamOffsets, NumOfCars, Reach, \* see BeamInfo
  UpdateInterval,  \* of the satellites' mobility
  MaxTime          \* bound: the simulation ends here

ASSUME ConverterAssumption ==
  /\ Widths \subseteq Int /\ Heights \subseteq Int
  /\ UpdateInterval \in Nat \ {0} /\ MaxTime \in Nat

ASSUME GeometryAssumption ==
  /\ MapX \in Nat \ {0} /\ CropSize \in (Nat \ {0}) \X (Nat \ {0})
  /\ CropOffset \in Int \X Int /\ Orbit \subseteq Int \X Int
  /\ Places \in [{"MCC", "GS", "nobody"} -> Int \X Int \X Int]
  /\ BeamOffsets \in Seq(Int \X Int)
  /\ NumOfCars \in Nat /\ Reach \in Nat

MapSizes == Widths \X Heights

(* What the SUMO file can be: not configured, not readable or without a    *)
(* location, without usable bounds, without usable map size, or complete.  *)
SumoFile == {"none", "unreadable", "noBounds", "noSize", "complete"}

VARIABLES
  ini,            \* the parameters and surroundings; they never change
  phase,          \* how far initialize has come
  universalMode,
  emap, center,   \* emapx and emapy; what the centre was computed from
  scale,          \* scalex and scaley
  reference,      \* source of referenceLatitude and referenceLongitude
  lonFactorFor,   \* the reference metersPerDegreeLon was computed for
  now, nextChange,
  shown,          \* the scale each satellite was last drawn with
  beamCenter, bInitialized, beamIndex

Beam == INSTANCE BeamInfo

iniVars == <<ini>>
mapVars == <<emap, center, scale>>
geoVars == <<reference, lonFactorFor>>
beamVars == <<beamCenter, bInitialized, beamIndex>>
skyVars == <<now, nextChange, shown, beamVars>>
vars == <<iniVars, phase, universalMode, mapVars, geoVars, skyVars>>

(* Scales: the world map fitted into the display, or a map of some size    *)
(* over the crop area.                                                     *)
DisplayScale == [basis |-> "display", size |-> <<0, 0>>]
CropScale(size) == [basis |-> "crop", size |-> size]
NoScale == [basis |-> "none", size |-> <<0, 0>>]

(* isScaleX and isScaleY, as far as the beams spread with them.            *)
Unit(s) ==
  IF s.basis = "crop" THEN <<s.size[1] \div CropSize[1], s.size[2] \div CropSize[2]>>
  ELSE <<1, 1>>

(* currentXposition and currentYposition, from the world map to the        *)
(* canvas: in universal mode the whole map; in legacy mode the crop area,  *)
(* bent round the edges of the map if it fills it, else cut off at them.   *)
CurrentXposition(x) ==
  LET onCrop == Unit(scale)[1] * (x - CropOffset[1])
      rest   == IF onCrop < 0 THEN -((-onCrop) % MapX) ELSE onCrop % MapX
  IN IF universalMode THEN x * Unit(scale)[1]
     ELSE IF emap[1] = MapX THEN rest
     ELSE IF onCrop < 0 THEN 0
     ELSE IF onCrop > emap[1] THEN emap[1] ELSE onCrop

CurrentYposition(y) ==
  IF universalMode THEN y * Unit(scale)[2] ELSE Unit(scale)[2] * (y - CropOffset[2])

(* Where FindBeamDirection takes the places that beams serve to be: it     *)
(* converts the latitude, too, by currentXposition.                        *)
CanvasPlaces ==
  [p \in DOMAIN Places |-> <<CurrentXposition(Places[p][1]), CurrentXposition(Places[p][3])>>]

(* Where those places are drawn.                                           *)
MapPlaces ==
  [p \in DOMAIN Places |-> <<CurrentXposition(Places[p][1]), CurrentYposition(Places[p][2])>>]

Redraw(s, at) ==
  Beam!UpdatePosition(s, <<CurrentXposition(at[1]), CurrentYposition(at[2])>>,
                      Unit(scale), CanvasPlaces)

(* calculateScaleFactors: a crop area counts in legacy mode only.          *)
CalculateScaleFactors(universal, size) ==
  IF ~universal /\ ini.hasCrop THEN CropScale(size) ELSE DisplayScale

Init ==
  /\ ini \in [universalMode : BOOLEAN, hasCrop : BOOLEAN, emap : MapSizes,
              sumo : SumoFile, sumoSize : MapSizes,
              hasManual : BOOLEAN, hasTraCI : BOOLEAN]
  /\ ini.sumo # "complete" => ini.sumoSize = ini.emap
  /\ phase = "local"
  /\ universalMode = FALSE
  /\ emap = <<0, 0>> /\ center = <<0, 0>> /\ scale = NoScale
  /\ reference = "zero" /\ lonFactorFor = "none"
  /\ now = 0
  /\ nextChange = [s \in Satellites |-> 0]
  /\ shown = [s \in Satellites |-> NoScale]
  /\ Beam!Init

(* INITSTAGE_LOCAL: the scale is computed before universalMode is read.    *)
InitializeLocal ==
  /\ phase = "local"
  /\ emap' = ini.emap
  /\ center' = ini.emap
  /\ scale' = CalculateScaleFactors(universalMode, ini.emap)
  /\ universalMode' = ini.universalMode
  /\ phase' = "placing"
  /\ UNCHANGED <<iniVars, geoVars, skyVars>>

(* Mutant: the scale of the first drawing is kept.                         *)
DrawCached(s) ==
  /\ shown' = [shown EXCEPT ![s] = IF @ = NoScale THEN scale ELSE @]
  /\ \E at \in Orbit : Redraw(s, at)
  /\ nextChange' = [nextChange EXCEPT ![s] = now + UpdateInterval]

(* SatelliteMobilityScs::setTargetPosition: the satellite and its beams    *)
(* are drawn with the scale of this moment.                                *)
DrawSatellite(s) ==
  /\ shown' = [shown EXCEPT ![s] = scale]
  /\ \E at \in Orbit : Redraw(s, at)
  /\ nextChange' = [nextChange EXCEPT ![s] = now + UpdateInterval]

(* initializePosition, between the two stages.                             *)
PlaceSatellite(s) ==
  /\ phase = "placing"
  /\ nextChange[s] = 0
  /\ DrawSatellite(s)
  /\ UNCHANGED <<iniVars, phase, universalMode, mapVars, geoVars, now>>

(* INITSTAGE_PHYSICAL_LAYER begins: a configured file is tried first.      *)
StartGeographicReference ==
  /\ phase = "placing"
  /\ \A s \in Satellites : nextChange[s] > 0
  /\ phase' = IF ini.sumo = "none" THEN "manual" ELSE "sumo"
  /\ UNCHANGED <<iniVars, universalMode, mapVars, geoVars, skyVars>>

(* parseConvBoundary: a difference of more than a metre, either way.       *)
Differs(s, t) == s[1] - t[1] \notin -1..1 \/ s[2] - t[2] \notin -1..1

(* Mutant: the scale keeps the old size.                                   *)
UpdateSizeOnly(size) == emap' = size /\ center' = size /\ UNCHANGED scale

(* updateMapDimensions *)
UpdateMapDimensions(size) ==
  /\ emap' = size
  /\ center' = size
  /\ scale' = CalculateScaleFactors(universalMode, size)

(* tryLoadFromSumoFile: without a location or bounds an exception ends it  *)
(* before anything is set; a missing size is only a warning, and the       *)
(* reference stands.                                                       *)
TryLoadFromSumoFile ==
  /\ phase = "sumo"
  /\ IF ini.sumo \in {"unreadable", "noBounds"}
     THEN phase' = "manual" /\ UNCHANGED <<reference, mapVars>>
     ELSE /\ reference' = "sumo"
          /\ phase' = "factors"
          /\ IF ini.sumo = "complete" /\ Differs(ini.sumoSize, emap)
             THEN UpdateMapDimensions(ini.sumoSize)
             ELSE UNCHANGED mapVars
  /\ UNCHANGED <<iniVars, universalMode, lonFactorFor, skyVars>>

(* Mutant: zero coordinates count as found.                                *)
TakeManualCoordinates ==
  /\ phase = "manual"
  /\ reference' = IF ini.hasManual THEN "manual" ELSE "zero"
  /\ phase' = "factors"
  /\ UNCHANGED <<iniVars, universalMode, mapVars, lonFactorFor, skyVars>>

(* tryLoadManualCoordinates: takes the parameters as they are, and only    *)
(* then finds that they are zero.                                          *)
TryLoadManualCoordinates ==
  /\ phase = "manual"
  /\ reference' = IF ini.hasManual THEN "manual" ELSE "zero"
  /\ phase' = IF ini.hasManual THEN "factors" ELSE "traci"
  /\ UNCHANGED <<iniVars, universalMode, mapVars, lonFactorFor, skyVars>>

(* tryLoadFromTraCI and the validation: without any reference universal    *)
(* mode throws, legacy mode goes on at latitude and longitude zero.        *)
TryLoadFromTraCI ==
  /\ phase = "traci"
  /\ reference' = IF ini.hasTraCI THEN "traci" ELSE reference
  /\ phase' = IF ini.hasTraCI \/ ~universalMode THEN "factors" ELSE "threw"
  /\ UNCHANGED <<iniVars, universalMode, mapVars, lonFactorFor, skyVars>>

(* calculateConversionFactors *)
CalculateConversionFactors ==
  /\ phase = "factors"
  /\ lonFactorFor' = reference
  /\ phase' = "ready"
  /\ UNCHANGED <<iniVars, universalMode, mapVars, reference, skyVars>>

-----------------------------------------------------------------------------
(* The simulation runs: time passes up to the next timer.                  *)
Tick ==
  /\ phase = "ready"
  /\ now < MaxTime
  /\ \A s \in Satellites : now < nextChange[s]
  /\ now' = now + 1
  /\ UNCHANGED <<iniVars, phase, universalMode, mapVars, geoVars, nextChange, shown, beamVars>>

(* SatelliteMobilityScs::move, when the timer fires.                       *)
Move(s) ==
  /\ phase = "ready"
  /\ now = nextChange[s]
  /\ DrawSatellite(s)
  /\ UNCHANGED <<iniVars, phase, universalMode, mapVars, geoVars, now>>

(* move, when a position is asked for between two changes: the satellite   *)
(* stays, its beams are spread and looked through again.                   *)
MoveBetweenChanges(s) ==
  /\ phase = "ready"
  /\ now \in (nextChange[s] - UpdateInterval + 1)..(nextChange[s] - 1)
  /\ Beam!UpdatePosition(s, beamCenter[s], Unit(scale), CanvasPlaces)
  /\ UNCHANGED <<iniVars, phase, universalMode, mapVars, geoVars, now, nextChange, shown>>

Initialize ==
  \/ InitializeLocal
  \/ StartGeographicReference
  \/ TryLoadFromSumoFile
  \/ TryLoadManualCoordinates
  \/ TryLoadFromTraCI
  \/ CalculateConversionFactors

Next ==
  \/ Initialize
  \/ Tick
  \/ \E s \in Satellites : PlaceSatellite(s) \/ Move(s) \/ MoveBetweenChanges(s)

Spec == Init /\ [][Next]_vars

-----------------------------------------------------------------------------
(* Properties.                                                             *)

(* The geographic reference comes from the best source there is, whatever  *)
(* the sources before it left behind, and the conversion factors belong to *)
(* it: SUMO file, else manual parameters, else TraCI, else - in legacy     *)
(* mode only - nothing (initializeGeographicReference).                    *)
ReferenceByPriority ==
  phase = "ready" =>
    /\ lonFactorFor = reference
    /\ reference = IF ini.sumo \in {"noSize", "complete"} THEN "sumo"
                   ELSE IF ini.hasManual THEN "manual"
                   ELSE IF ini.hasTraCI THEN "traci" ELSE "zero"
    /\ reference = "zero" => ~ini.universalMode

(* The map agrees with the SUMO file to a metre, and centre and crop scale *)
(* agree with the map, whether or not the second stage replaced the size   *)
(* the first one had used (parseConvBoundary, updateMapDimensions).        *)
MapConsistent ==
  phase = "ready" =>
    /\ ini.sumo = "complete" =>
         emap[1] - ini.sumoSize[1] \in -1..1 /\ emap[2] - ini.sumoSize[2] \in -1..1
    /\ center = emap
    /\ scale.basis = "crop" => scale.size = emap

(* The satellites, placed before the map has its final size, are all drawn *)
(* with the final scale once every mobility timer has fired.               *)
CanvasCatchesUp ==
  phase = "ready" /\ now > UpdateInterval => \A s \in Satellites : shown[s] = scale

(* The beam a satellite points belongs to the map and the sky as they are: *)
(* once every mobility timer has fired it is the one FindBeamDirection     *)
(* chooses for the satellite's present place and beams spread with the     *)
(* final scale, although the first lookup is skipped and others may have   *)
(* been made with the scale before (updatePosition).  That is the nearest  *)
(* beam by the distances the lookup itself measures; whether these are     *)
(* distances on the map is asked by PointsNearestOnMap.                    *)
BeamCatchesUp ==
  phase = "ready" /\ now > UpdateInterval =>
    \A s \in Satellites : Beam!PointsNearest(s, Unit(scale), CanvasPlaces)

(* The same with distances on the map, where a latitude is a height:       *)
(* "Convert latitude to Y pixel position for visualization.  Used by       *)
(* Toyota system to display satellites, ground stations, and beams"        *)
(* (PositionConverter.h:241).                                              *)
PointsNearestOnMap ==
  phase = "ready" /\ now > UpdateInterval =>
    \A s \in Satellites : Beam!PointsNearest(s, Unit(scale), MapPlaces)

(* In universal mode the crop area is ignored: "mapx2 = 0 (or any value,   *)
(* ignored)" (PositionConverter.ned).                                      *)
ScaleFollowsMode ==
  phase = "ready" => (scale.basis = "crop") = (~ini.universalMode /\ ini.hasCrop)
=============================================================================
