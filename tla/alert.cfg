SPECIFICATION FairSpec
CONSTANTS
  N = 3
  MaxAddr = 4
  Stagger = 2
  Periods = {0, 6}
  MaxTriggers = 3
  MaxRebinds = 1
INVARIANTS
  TypeOK
  SentInOrderOnce
  TimerGuardsQueue
  BacklogBounded
PROPERTIES
  StaggerHolds
  EventuallySent
