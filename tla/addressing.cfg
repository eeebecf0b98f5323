SPECIFICATION FairSpec
CONSTANTS
  MaxVehicle = 4
  First = 100
  MaxHost = 101
  CarTypes <- MixedCars
  NicUnregisters = TRUE
INVARIANTS
  TypeOK
  NoSharedAddress
  PoolConservation
  InterfaceHasLease
  NoFalseExhaustion
  ReconfigureIsComplete
PROPERTIES
  ImplementsLease
  EventuallyAddressed
  EventuallyReclaimed
CHECK_DEADLOCK FALSE
