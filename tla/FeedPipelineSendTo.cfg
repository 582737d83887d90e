\* Connecting the socket of a port fails.
SPECIFICATION Spec
CONSTANTS
  s1 = s1
  s2 = s2
  Sessions <- MCSessions
  Ports <- MCPorts
  DefaultPort = "default"
  SessionPort <- TwoPorts
  SessionExchange <- BothBinance
  SymbolExchanges = {"BinanceSpot"}
  BinanceNames = {"BinanceSpot"}
  RawMessages <- SplitMessages
  Faults = {"ConnectError"}
  MaxJobs <- OneJobEach
  MaxReports = 0
INVARIANTS
  UnconnectedUsesSendTo
\* The bounds stop the model.
CHECK_DEADLOCK FALSE
