\* Five kinds of update, up to four of them, losses everywhere.
SPECIFICATION Spec
CONSTANTS
  Prices <- MCPrices
  Quantities <- MCQuantities
  Updates <- MCUpdates
  Product <- MCProduct
  ExactBelow = 128
  SideBit = 1024
  ChunkSize = 2
  MaxUpdates = 4
INVARIANTS
  NoDeadLevels
\* The bound stops the model.
CHECK_DEADLOCK FALSE
