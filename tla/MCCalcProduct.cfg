SPECIFICATION CSpec
CONSTANTS
  Bits = 13
  Width = 10
  Frac = 3
  Pow <- MCPow
  Divisors <- MCDivisors
  STACK_SIZE = 3
  QUEUE_SIZE = 6
  Files <- MCFiles
INVARIANT ProductsRounded
CHECK_DEADLOCK FALSE
