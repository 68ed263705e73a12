SPECIFICATION Spec
CONSTANTS
  NotInLM = 100000
  NumFactors = 3
  Enabled <- MCFactors
  FactorOrder <- MixedOrder
  Weight <- MCWeight
  ModelOrder = 3
  Arpas <- MCArpas
  Possibility <- MCPossibility
  FactorId <- MCFactorId
INVARIANTS
  KeyStaysInBuffer
