SPECIFICATION Spec
CONSTANTS
  Satellites = {s1}
  Stations = {g1}
  Vehicles = {v1}
  Delay <- OrbitDelay
  FallbackDelay = 1
  UpdateInterval = 2
  CycleTime = 4
  CodeWord <- MixedModulation
  HeaderLength = 64
  Payloads = {64}
  Durations = {2}
  MaxTime = 6
  MaxTransmissions = 1
INVARIANTS
  RepeatsAfterCycleTime
CHECK_DEADLOCK FALSE
