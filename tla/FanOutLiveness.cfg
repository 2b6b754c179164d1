SPECIFICATION FairSpec
CONSTANTS
  Carriers = {1, 2, 3}
  Capable = {1, 2}
  Registered = {1, 2, 3}
  Warm = {1, 2}
  P95 <- MCP95
  Priority <- MCPriority
  Premiums = {1}
PROPERTIES Returns ImplementsContract
