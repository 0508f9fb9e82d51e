SPECIFICATION MatchingSpec
CONSTANTS
  RawConfigs <- MCRawConfigs
  RawTargets <- MCRawTargets
  Files <- MCFiles
  MaxDepth = 2
INVARIANTS
  GraphChecksExact
  BestRuleWins
CHECK_DEADLOCK FALSE
