SPECIFICATION Spec
CONSTANTS
  Satellites = {s1}
  Stations = {g1}
  Vehicles = {v1}
  Delay <- OrbitDelay
  FallbackDelay = 1
  UpdateInterval = 2
  CycleTime = 2
  CodeWord <- MixedModulation
  HeaderLength = 64
  Payloads = {64}
  Durations = {2}
  MaxTime = 4
  MaxTransmissions = 3
INVARIANTS
  InStep
  ArrivalFromSender
  FirstSignalWins
  DeliveredIntact
CHECK_DEADLOCK FALSE
