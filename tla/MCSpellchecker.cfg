SPECIFICATION SpellSpec
CONSTANTS
  Form <- MCForm
  Analyses <- MCAnalyses
  Limit = 2
  MaxPossibilities = 5
  NoEntry = NoEntry
  ModelOrder = 3
  Transition <- MCTransition
  Sentences <- MCSentences
INVARIANTS
  HeapIsSound
  KeepsCheapest
  StoredAlternativesAreKBest
  RankedByPathCost
CHECK_DEADLOCK FALSE
