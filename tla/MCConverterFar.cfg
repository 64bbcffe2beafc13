SPECIFICATION Spec
CONSTANTS
  LongReach = 4
  JReach = 8
  ZReach = 6
  Programs <- FarPrograms
INVARIANT TargetsPreserved
CHECK_DEADLOCK FALSE
