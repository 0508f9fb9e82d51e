SPECIFICATION SearchFairSpec
CONSTANTS
  NoTask = NoTask
  Worker = {"a", "b"}
  Keyword = {"k1", "k2"}
  MaxCycles = 2
  MaxFaults = 2
CHECK_DEADLOCK FALSE
INVARIANTS
  TasksConserved
  DropsNeedAllFailed
  LossPaid
  NoCycleSkipped
PROPERTIES
  CycleEnds
