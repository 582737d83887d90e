\* One session on the default port, one on a cached socket; every fault.
SPECIFICATION Spec
CONSTANTS
  s1 = s1
  s2 = s2
  Sessions <- MCSessions
  Ports <- MCPorts
  DefaultPort = "default"
  SessionPort <- TwoPorts
  SessionExchange <- BothBinance
  SymbolExchanges = {"BinanceSpot"}
  BinanceNames = {"BinanceSpot"}
  RawMessages <- SplitMessages
  Faults <- AllFaults
  MaxJobs <- TwoJobsEach
  MaxReports = 0
INVARIANTS
  TypeOK
  SequenceUnique
  SessionOrder
  SequenceAccounted
  MessagePrefix
\* The bounds stop the model.
CHECK_DEADLOCK FALSE
