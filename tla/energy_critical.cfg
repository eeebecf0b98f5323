SPECIFICATION Spec
CONSTANTS
  Births = {0}
  MaxTime = 8
  MaxSwitches = 9
  StartWithSatellite = FALSE
  HasSat = TRUE
  HasCell = TRUE
  CheckInterval = 2
  CutOff = 2
  MinHold = 3
  MinDegradation = 1
  MinScore = 720
  MaxRTT = 2
  MaxJitter = 2
  MinPDR = 900
  WRTT = 4
  WPDR = 3
  WJitter = 2
  MaxProbes = 2
  MaxData = 0
  NominalEnergy = 3
  CriticalEnergy = 2
  SatCost = 5
  CellCost = 1
  WEnergy = 1
  WQoS = 1
PROPERTY CriticalMeansCellular
CHECK_DEADLOCK FALSE
