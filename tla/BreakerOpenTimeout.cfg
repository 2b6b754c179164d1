SPECIFICATION HSpec
CONSTANTS
  Goroutines = {g1, g2, g3}
  FailureThreshold = 2
  SuccessThreshold = 2
  OpenTimeout = 1
PROPERTY StaysOpenForTimeout
