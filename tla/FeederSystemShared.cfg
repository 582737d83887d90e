\* Two sessions of one exchange on one port, as in the symbol_config.ini of the
\* repository; one attempt each, one message; packets dropped.
SPECIFICATION Spec
CONSTANTS
  s1 = s1
  s2 = s2
  Sessions <- TwoSessions
  Ports = {"default", "other"}
  DefaultPort = "default"
  SessionPort <- OnDefaultPort
  SessionExchange <- OfOneExchange
  SymbolExchanges = {"OkxSpot"}
  BinanceNames = {}
  RawMessages <- MCRawMessages
  Faults = {"WouldBlock"}
  Endpoint <- AllUsable
  MayPanic = {}
  MaxRetryCount = 1
  HasTimer = FALSE
  MaxMessages = 1
SYMMETRY AlikeSessions
INVARIANTS
  ViewStaleOnlyByLoss
  DataBelongsToConnection
\* The process may end.
CHECK_DEADLOCK FALSE
