\* Every file of up to five lines of seventeen.
CONSTANTS
  Lines <- MCLines
  Options <- MCOptions
  MaxLines = 5
  OrderLimit = 50
  DefaultPruning = 9
  None = None
SPECIFICATION LoadSpec
INVARIANTS
  ServesTheDecoder
  LoadedAsWritten
CHECK_DEADLOCK FALSE
