\* Every symbol_config.ini of up to five lines, every endpoint.ini of up to five
\* lines, and searches through several directories.
SPECIFICATION Spec
CONSTANTS
  Exchanges <- MCExchanges
  Ports <- MCPorts
  BinanceNames = {"BinanceSpot"}
  Disks <- MCDisks
  MaxSymbolLines = 5
  MaxEndpointLines = 5
INVARIANTS
  TypeOK
  SectionsAsWritten
  TasksAsWritten
\* Start-up ends.
CHECK_DEADLOCK FALSE
