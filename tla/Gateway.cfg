SPECIFICATION FairSpec
CONSTANTS
  Requests = {r1, r2}
  MaxConcurrent = 1
  AuthBurst = 2
INVARIANTS TypeOK SlotsMatchHolders OverdraftBounded NoQueryAfterClose CleanExitAnsweredAll
PROPERTY ShutdownEnds
