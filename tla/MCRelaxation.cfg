SPECIFICATION RSpec
CONSTANTS
  Length = 4
  Shapes <- MCShapes
  JReach = 8
  ZReach = 4
INVARIANTS
  RTypeOK
  ShortFits
  LeastClosed
PROPERTY Settles
CHECK_DEADLOCK FALSE
