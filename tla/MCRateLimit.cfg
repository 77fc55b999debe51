SPECIFICATION RateSpec
CONSTANTS
  Peers = {a}
  Limit = 2
  Minute = 3
  MaxTime = 7
  MaxCalls = 8
INVARIANTS TwiceTheLimitAtMost RefusedForCause
CHECK_DEADLOCK FALSE
