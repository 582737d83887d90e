\* One session: two attempts, two messages, packets dropped and refused, a panic; a
\* timer; fair tasks.
SPECIFICATION FairSpec
CONSTANTS
  s1 = s1
  s2 = s2
  Sessions <- OneSession
  Ports = {"default", "other"}
  DefaultPort = "default"
  SessionPort <- OnOtherPort
  SessionExchange <- OfOneExchange
  SymbolExchanges = {"OkxSpot"}
  BinanceNames = {}
  RawMessages <- MCRawMessages
  Faults = {"WouldBlock", "SendError"}
  Endpoint <- AllUsable
  MayPanic <- OneSession
  MaxRetryCount = 2
  HasTimer = TRUE
  MaxMessages = 2
INVARIANTS
  ViewStaleOnlyByLoss
  DataBelongsToConnection
  LastWordsBeforeEnd
PROPERTIES
  FailureIsTold
\* The process may end.
CHECK_DEADLOCK FALSE
