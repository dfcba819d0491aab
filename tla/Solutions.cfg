SPECIFICATION SolutionsSpec
CONSTANTS
  Programs <- Shipped
  Vars <- MCVars
  VarOf <- NameOf
  ScratchVars <- MCScratchVars
  MaxSteps = 3
INVARIANTS
  ReadsRight
  TwinsAgree
