CONSTANTS
  Searches <- MCSearches
  Rates = {2, 3}
  MaxRadius = 2
  MinDist = 1
  MinPts = 2
  MinBlks = 2
  WarmupSteps = 2
  MinSteps = 2
  MaxResets = 1
SPECIFICATION FairSpec
PROPERTIES EndsWithBest LocalOptimum Converges
CHECK_DEADLOCK FALSE
