SPECIFICATION Spec
CONSTANTS
  Widths = {10, 11, 20}
  Heights = {10, 20}
  Satellites = {s1, s2}
  MapX = 20
  CropOffset <- MCCropOffset
  CropSize <- MCCropSize
  Orbit <- MCOrbit
  Places <- MCPlaces
  BeamOffsets <- MCBeamOffsets
  NumOfCars = 3
  Reach = 10
  UpdateInterval = 2
  MaxTime = 5
INVARIANTS
  ScaleFollowsMode
CHECK_DEADLOCK FALSE
