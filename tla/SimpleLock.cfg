CONSTANTS
  Elem = {e1, e2}
  Data = {d1, d2}
  InitCount = 10
  MaxWrites = 3
SPECIFICATION FairSpec
INVARIANTS LockInv NeverBothInside
PROPERTIES HandsOff Delivered
CHECK_DEADLOCK FALSE
