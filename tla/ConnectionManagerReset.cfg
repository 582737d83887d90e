\* Connections succeed and are lost again.
SPECIFICATION Spec
CONSTANTS
  s1 = s1
  s2 = s2
  Sessions <- MCSessions
  SymbolConfig = TRUE
  Endpoint <- BothUsable
  MayPanic = {}
  MaxRetryCount = 10
  HasTimer = FALSE
INVARIANTS
  GivesUpAfterFailuresInRow
\* The process may end.
CHECK_DEADLOCK FALSE
