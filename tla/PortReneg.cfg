SPECIFICATION PortFairSpec
CONSTANTS
  Port = {p1, p2}
  NoPort = NoPort
  MaxMoves = 2
  MaxFaults = 0
PROPERTIES
  RenegotiationFollowed
