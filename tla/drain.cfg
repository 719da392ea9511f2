SPECIFICATION FairSpec
CONSTANTS
  Requests = {r1, r2}
  MinPause = 6
  DrainTimeout = 8
  Behind = 1
INVARIANTS
  ActiveCounts
  NoneCutOff
PROPERTIES
  ShutdownEnds
