SPECIFICATION Spec
CONSTANTS
  Births = {0, 1}
  MaxTime = 8
  MaxSwitches = 9
  StartWithSatellite = FALSE
  HasSat = TRUE
  HasCell = TRUE
  SwitchInterval = 3
  FirstCheck = 1
  CheckInterval = 2
  Satellites = {s1, s2}
  ValidPosition = TRUE
  Modes = {"time-based", "coverage-based"}
  TimerInterval = 2
  Metric = "propagationDelay"
  MulticastRoutes = 3
INVARIANTS
  InPhase
  FollowsCoverage
  BlindWindowBounded
  CoveredMeansRoutable
  StaleMulticastGoes
  SatelliteRoutesFresh
CHECK_DEADLOCK FALSE
