SPECIFICATION DecisionsSpec
CONSTANTS
  FileCount = 2
  Name = {"clear", "vague", "odd"}
  Setting = {"old", "new"}
  NoMatch = NoMatch
  Judge <- MCJudge
  PageSize = 1
  MaxObservations = 3
  MaxClock = 1
  MaxFaults = 1
INVARIANTS
  VerdictFollows
  NoRepeat
  ReadersAgree
  WalkComplete
CHECK_DEADLOCK FALSE
