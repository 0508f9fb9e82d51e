SPECIFICATION PortFairSpec
CONSTANTS
  Port = {p1, p2, p3}
  NoPort = NoPort
  MaxMoves = 3
  MaxFaults = 2
INVARIANTS
  RestartsPaid
PROPERTIES
  AlertUntilReachable
