SPECIFICATION DownloadFairSpec
CONSTANTS
  large = large
  small = small
  odd = odd
  Hash = {large, small, odd}
  Size <- MCSize
  DiskCap = 2
  Eligible = {large, odd}
  BadName = {odd}
  MaxFaults = 2
INVARIANTS
  QuarantinedIsSafe
  CapRespected
PROPERTIES
  FinishedFilesSettle
  CandidatesTaken
  QueuedReachesMule
