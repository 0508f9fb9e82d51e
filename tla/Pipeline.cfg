SPECIFICATION PipelineFairSpec
CONSTANTS
  Hash = {"f"}
  Size <- MCSize
  DiskCap = 1
  Eligible = {"f"}
  BadName = {}
  MaxAttempts = 2
  MaxTasks = 4
  MaxFaults = 2
INVARIANTS
  ClaimIsBacked
  RepeatsPaid
PROPERTIES
  LifecycleKept
