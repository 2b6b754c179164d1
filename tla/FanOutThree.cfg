SPECIFICATION Spec
CONSTANTS
  Carriers = {1, 2, 3}
  Capable = {1, 2, 3}
  Registered = {1, 3}
  Warm = {2, 3}
  P95 <- MCP95
  Priority <- MCPriority
  Premiums = {1, 2}
INVARIANTS TypeOK NothingOutlivesFanOut SenderNeverBlocks ResponseSortedUnique FirstAnswersReturned
PROPERTIES OneHedgePerSlot
