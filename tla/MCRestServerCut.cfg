CONSTANTS
  Clients = {a, b}
  None = None
  Limits = {2}
  UnsignedRange = 4
SPECIFICATION Spec
INVARIANT CurrentRequestsHandled
CHECK_DEADLOCK FALSE
