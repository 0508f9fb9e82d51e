SPECIFICATION SupervisionFairSpec
CONSTANTS
  MaxSlow = 2
INVARIANTS
  NothingClosedInUse
  NothingLeaked
PROPERTIES
  StopEnds
  FailureEnds
CHECK_DEADLOCK FALSE
