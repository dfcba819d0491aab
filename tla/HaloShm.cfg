CONSTANTS
  NumRanks = 3
  NumVars = 3
  Alloc <- MCAlloc
  MaxAlloc = 3
  HasStep <- MCHasStep
  LeftHalo <- MCHalo
  RightHalo <- MCHalo
  Packs <- MCPacks
  StepDir <- MCStepDir
  WfSteps = 2
  Overlap <- MCOverlap
  Shm <- MCShm
  Scripts <- MCScripts
  TuneSteps = {1}
SPECIFICATION FairSpec
INVARIANTS StepsFresh QuietBetweenCalls ReleasedBuffersUnused
PROPERTIES NeighborsInStep Terminates
