\* One session with a usable URL, whose task may panic, one without; the code's
\* limit of ten attempts; a timer; fair tasks.
SPECIFICATION FairSpec
CONSTANTS
  s1 = s1
  s2 = s2
  Sessions <- MCSessions
  SymbolConfig = TRUE
  Endpoint <- OneInvalid
  MayPanic = {s1}
  MaxRetryCount = 10
  HasTimer = TRUE
INVARIANTS
  TypeOK
  RetryAccounting
  BadNewsIsTrue
PROPERTIES
  BackoffDoubles
  ImplementsStatusFeed
  Recovers
  EndsWithItsSessions
\* The process may end.
CHECK_DEADLOCK FALSE
