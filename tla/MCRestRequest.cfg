\* Every request of a small set, bodies around the limit of the server.
CONSTANTS
  Requests <- MCRequests
  Outputs <- MCOutputs
  BodySizes <- MCBodySizes
  MinGenerated = 2
  BufferSize = 3
  UnsignedRange = 64
  SizeUnknown = 63
  Hex <- MCHex
  PostBuffer = 9
  EscapeBuffer = 4
  None = None
SPECIFICATION Spec
INVARIANTS
  RequestLivesWhileUsed
  WholeBodyOrTooLarge
  FormIsUnderstood
  AnswerIsWhole
PROPERTIES
  KeepsContract
  ConnectionEnds
CHECK_DEADLOCK FALSE
