SPECIFICATION Spec
CONSTANTS
  NotInLM = 100000
  NumFactors = 3
  Enabled <- MCFactors
  FactorOrder <- SameOrder
  Weight <- MCWeight
  ModelOrder = 3
  Arpas <- MCArpas
  Possibility <- MCPossibility
  FactorId <- MCFactorId
INVARIANTS
  KeyStaysInBuffer
  GetProbRestoresKey
  CostIsBackedOff
PROPERTIES
  EveryCallReturns
