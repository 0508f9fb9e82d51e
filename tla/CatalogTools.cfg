SPECIFICATION ToolsSpec
CONSTANTS
  File = {"f"}
  Node = {"a", "b"}
  Base = {"a", "b", "archive"}
  NoJob = NoJob
  Keep = {0, 1}
  DayLength = 2
  MaxTime = 4
  MaxRows = 2
  MaxRebuilds = 2
INVARIANTS
  NothingLost
  CountedOnce
