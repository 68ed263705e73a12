SPECIFICATION Spec
CONSTANTS
  Possibility <- MCPossibility
  UniqueId <- SharedIds
  Emission <- MCEmission
  SentenceStart = "s"
  SentenceEnd = "e"
  Undefined = Undefined
  Models <- MCModelsQuantised
  Transition <- MCTransitionQuantised
  Sentences <- MCSentencesShared
  ModelOrder = 3
  ViterbiOrder = 1
  Beam = 2
  Pruning = 2
  Ceiling = 1000
  MaxStageCost = 6
INVARIANTS
  TrellisNonEmpty
  ResultCoversStages
  ResultFollowsStages
  BestIsAttained
PROPERTIES
  StagesAreOrderIndependent
