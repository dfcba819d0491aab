SPECIFICATION SolutionsSpec
CONSTANTS
  Programs <- Reused
  Vars <- MCVars
  VarOf <- NameOf
  ScratchVars <- MCScratchVars
  MaxSteps = 3
INVARIANTS
  ReadsRight
