SPECIFICATION Spec
CONSTANTS
  Possibility <- MCPossibility
  UniqueId <- DistinctIds
  Emission <- MCEmission
  SentenceStart = "s"
  SentenceEnd = "e"
  Undefined = Undefined
  Models <- MCModels
  Transition <- MCTransition
  Sentences <- MCSentences
  ModelOrder = 3
  ViterbiOrder = 2
  Beam = 0
  Pruning = 100
  Ceiling = 1000
  MaxStageCost = 6
INVARIANTS
  DistanceIsPathCost
  ResultIsCheapest
