\* Both sessions on one port that is not the default one; every event type;
\* the metrics task reads the counters; fair tasks.
SPECIFICATION FairSpec
CONSTANTS
  s1 = s1
  s2 = s2
  Sessions <- MCSessions
  Ports <- MCPorts
  DefaultPort = "default"
  SessionPort <- OneOtherPort
  SessionExchange <- MixedExchanges
  SymbolExchanges = {"BinanceSpot", "OkxSpot"}
  BinanceNames = {"BinanceSpot"}
  RawMessages <- AllMessages
  Faults = {"WouldBlock", "BindError", "ConnectError"}
  MaxJobs <- OneJobEach
  MaxReports = 2
INVARIANTS
  StatsConservation
  ReportsSendsOnly
PROPERTIES
  SocketStaysCached
  ReportsNeverSaturate
  JobsComplete
\* The bounds stop the model.
CHECK_DEADLOCK FALSE
