SPECIFICATION Spec
CONSTANTS
  LongReach = 32768
  Commands <- MCCommands
  ImemSize = 28
  DmemSize = 16
  Cycles = 8
INVARIANT TypeOK
PROPERTY ImplementsDelaySlot
CHECK_DEADLOCK FALSE
