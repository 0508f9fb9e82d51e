SPECIFICATION VerifierSpec
CONSTANTS
  MaxRequests = 2
  Settings <- MCSettings
  Sizes = {2}
  ResponseCap = 2
INVARIANTS
  VerdictEarned
  OutcomeAgrees
  NothingLeftBehind
PROPERTY EveryRequestAnswered
CHECK_DEADLOCK FALSE
