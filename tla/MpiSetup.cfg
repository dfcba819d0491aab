SPECIFICATION Spec
CONSTANTS
  Jobs <- MCJobs
  NoRank = NoRank
  BufPad = 3
  CacheLine = 4
  LockSize = 2
INVARIANTS
  TilesGlobal
  BuffersMatch
  HalosCovered
  BuffersShared
PROPERTIES
  SetupEnds
CHECK_DEADLOCK FALSE
