SPECIFICATION TSpec
CONSTANTS
  LongReach = 32768
  JReach = 16
  ZReach = 12
  Programs <- MCPrograms
  DataFiles <- MCData
  Inputs <- MCInputs
  ImemSize = 64
  DmemSize = 16
  Cycles = 24
INVARIANT SameCycleByCycle
