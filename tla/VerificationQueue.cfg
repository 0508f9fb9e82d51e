SPECIFICATION QueueFairSpec
CONSTANTS
  Hash = {h1, h2}
  MaxAttempts = 2
  MaxTasks = 3
  MaxFaults = 2
INVARIANTS
  OneActiveTaskPerHash
  InFlightIsClaimed
  DoneWasRecorded
  RetryBudget
PROPERTIES
  EveryTaskSettles
