SPECIFICATION StrategiesSpec
CONSTANTS
  Births = {0, 4}
  MaxTime = 6
  MaxSwitches = 9
  StartWithSatellite = TRUE
  HasSat = TRUE
  HasCell = TRUE
  CheckInterval = 1
  CutOff = 1
  MinHold = 3
  MinDegradation = 2
  MinScore = 750
  MaxRTT = 2
  MaxJitter = 2
  MinPDR = 750
  WRTT = 4
  WPDR = 3
  WJitter = 2
  MaxProbes = 4
  MaxData = 1
  NominalEnergy = 3
  CriticalEnergy = 2
  SatCost = 5
  CellCost = 1
  WEnergy = 1
  WQoS = 1
  MaxEnergyTraffic = 2
  MaxQoSTraffic = 4
INVARIANTS
  EnergyTypeOK
  MirrorsManager
  LeavesLostSatellite
  TxFollowsCarrier
  CriticalStretchBounded
PROPERTIES
  StalenessBounded
  VoluntarySwitchIsEarned
CHECK_DEADLOCK FALSE
