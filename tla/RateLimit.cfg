SPECIFICATION LimiterSpec
CONSTANTS
  Callers = {r1, r2, r3}
  Burst = 1
  MaxClock = 2
  MaxHedges = 0
INVARIANT RejectionsCounted
CHECK_DEADLOCK FALSE
