SPECIFICATION CallSpec
CONSTANTS
  Callers = {g1, g2, g3}
  Goroutines = {g1, g2, g3}
  Burst = 1
  MaxClock = 2
  MaxHedges = 1
  Latencies = {l1, l2}
  MaxRecords = 1
INVARIANTS CallTypeOK RateBound NoObservationLost GaugeWasCurrent ObservationsAreSuccesses OneOutcomePerCall
PROPERTIES HedgeYieldsToWaiters LockFree
CHECK_DEADLOCK FALSE
