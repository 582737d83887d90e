\* No fault at all: the numbers on a port are still not consecutive.
SPECIFICATION Spec
CONSTANTS
  s1 = s1
  s2 = s2
  Sessions <- MCSessions
  Ports <- MCPorts
  DefaultPort = "default"
  SessionPort <- TwoPorts
  SessionExchange <- BothBinance
  SymbolExchanges = {"BinanceSpot"}
  BinanceNames = {"BinanceSpot"}
  RawMessages <- SplitMessages
  Faults = {}
  MaxJobs <- OneJobEach
  MaxReports = 0
INVARIANTS
  GapMeansLoss
\* The bounds stop the model.
CHECK_DEADLOCK FALSE
