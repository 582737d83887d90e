\* Fair tasks; connections succeed.
SPECIFICATION FairSpec
CONSTANTS
  s1 = s1
  s2 = s2
  Sessions <- MCSessions
  SymbolConfig = TRUE
  Endpoint <- BothUsable
  MayPanic = {}
  MaxRetryCount = 2
  HasTimer = FALSE
PROPERTIES
  ConnectedIsAnnounced
\* The process may end.
CHECK_DEADLOCK FALSE
