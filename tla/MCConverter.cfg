SPECIFICATION Spec
CONSTANTS
  LongReach = 32768
  JReach = 8
  ZReach = 6
  Programs <- MCPrograms
INVARIANTS
  TypeOK
  OffsetsDefined
  LayoutConsistent
  ShortInReach
  NoneLeftToShorten
  NearJumpsShort
  WrittenAsLaidOut
  RefusedOnlyUnknown
  AbortsOnlyOutside
  TargetsPreserved
PROPERTIES
  NeverLengthened
  ImplementsRelaxation
  Termination
  Converts
CHECK_DEADLOCK FALSE
