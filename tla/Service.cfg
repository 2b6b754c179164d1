SPECIFICATION FairSpec
CONSTANTS
  Requests = {r1, r2, r3}
  Keys = {k1}
  Carriers = {c1}
  Premiums = {1}
  Lifetimes = {0, 2}
  Faults = {"find", "save"}
  MaxClock = 2
  NoRequest = none
  NoKey = none
INVARIANTS TypeOK OneFlightPerKey OneQuotePerCarrier
PROPERTIES LiveRowsStay Answered ExpiredRowsGo
