SPECIFICATION EcSpec
CONSTANTS
  Base = 10
  HashLength = 1
  MaxTagDepth = 4
  MaxPayload = 113
  ResultsOpcode = 8
  DecodeFrame <- Decode
  MapResults <- MapSearchResults
  Keywords = {"k1", "k2"}
  Packets <- MCPackets
  Frames <- MCFrames
  MaxConnections = 3
  MaxRequests = 3
  MaxFaults = 2
INVARIANTS
  Synchronised
  Provenance
  FramesExact
  EntriesAccounted
CHECK_DEADLOCK FALSE
