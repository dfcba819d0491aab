CONSTANTS
  NumRanks = 2
  NumVars = 2
  Alloc <- MCAlloc
  MaxAlloc = 2
  HasStep <- MCHasStep
  LeftHalo <- MCLeft
  RightHalo <- MCRight
  Packs <- MCPacks
  StepDir = 1
  WfSteps = 0
  Overlap <- MCOverlap
  Shm <- MCShm
  Scripts <- MCScripts
  TuneSteps = {}
SPECIFICATION Spec
INVARIANTS StepsFresh HalosFresh MatchAgrees NoBufferReuse DirtyAgreement CoherentAfterRun
