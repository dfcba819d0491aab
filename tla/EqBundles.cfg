SPECIFICATION Spec
CONSTANTS
  Kinds <- AllKinds
  Vars <- MCVars
  VarOf <- MCVarOf
  ScratchVars <- MCScratchVars
  Programs <- MCPrograms
INVARIANTS
  ClosureExact
  SortedAsFound
  LotsIndependent
  ScheduleSound
  HaloClosed
PROPERTIES
  Terminates
