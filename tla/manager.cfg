SPECIFICATION Spec
CONSTANTS
  Births = {0, 2}
  MaxTime = 8
  MaxSwitches = 5
  StartWithSatellite = FALSE
  HasSat = TRUE
  HasCell = TRUE
INVARIANTS
  TypeOK
  OneCarrier
  UsageMatchesCarrier
PROPERTY ImplementsUsage
CHECK_DEADLOCK FALSE
