SPECIFICATION RSpec
CONSTANTS
  Goroutines = {g1, g2}
  FailureThreshold = 2
  SuccessThreshold = 2
  OpenTimeout = 2
PROPERTY AutoRecovers
CHECK_DEADLOCK FALSE
