CONSTANTS
  Clients = {a, b}
  None = None
  Limits = {1, 2}
  UnsignedRange = 4
SPECIFICATION Spec
INVARIANTS
  EveryConnectionHeldOnce
  StoppedServerIsEmpty
  LimitIsKept
  CountIsExact
  OnlyRacingRequestsCutOff
PROPERTY StopReturns
CHECK_DEADLOCK FALSE
