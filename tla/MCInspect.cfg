SPECIFICATION ISpec
CONSTANTS
  LongReach = 32768
  JReach = 1024
  ZReach = 32
  Programs <- MCPrograms
  CompressedFiles <- MCCompressedFiles
INVARIANTS
  EstimateBounds
  NopPairs
  AnalyzerAgrees
  MergedOnce
  ListedAsCounted
  SameListing
  RefusedOnlyUnknown
CHECK_DEADLOCK FALSE
