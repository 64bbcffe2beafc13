SPECIFICATION CSpec
CONSTANTS
  Bits = 13
  Width = 10
  Frac = 3
  Pow <- MCPow
  Divisors <- MCDivisors
  STACK_SIZE = 3
  QUEUE_SIZE = 6
  Files <- MCFiles
INVARIANTS
  CTypeOK
  QueueInside
  Divides
  TermsEvaluated
  ReadsBack
PROPERTIES
  ImplementsDivision
  Returns
CHECK_DEADLOCK FALSE
