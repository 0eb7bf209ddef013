CONSTANTS
  a = a
  b = b
  c = c
  Caller = {a, b, c}
  RateLimit = 2
  Window = 2
  MaxTime = 4
  MaxConcurrency = 2
  MaxRetries = 1
  BaseDelay = 1
  MaxDelay = 1
  Jitter = {0}
  BlockTime = 2
SPECIFICATION PLSpec
SYMMETRY Symmetry
INVARIANTS PLTypeOK SlotsConserved AtMostLimitPerWindow SleepsOnlyWhenFull
 
CHECK_DEADLOCK FALSE
