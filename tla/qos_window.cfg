SPECIFICATION QoSSpec
CONSTANTS
  Births = {0}
  MaxTime = 8
  MaxSwitches = 9
  StartWithSatellite = FALSE
  HasSat = TRUE
  HasCell = TRUE
  CheckInterval = 2
  CutOff = 2
  MinHold = 3
  MinDegradation = 2
  MinScore = 750
  MaxRTT = 2
  MaxJitter = 2
  MinPDR = 750
  WRTT = 4
  WPDR = 3
  WJitter = 2
  MaxProbes = 2
  MaxData = 0
PROPERTY MeasuresInsideWindow
CHECK_DEADLOCK FALSE
