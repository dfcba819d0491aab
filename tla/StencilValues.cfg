CONSTANTS
  Reads <- MCReads
  Formula <- MCFormula
  Value = {0, 1, 2}
  MaxLevel = 4
  Ref <- MCRef
SPECIFICATION SpecValues
INVARIANTS AgreesWithRef
CHECK_DEADLOCK FALSE
