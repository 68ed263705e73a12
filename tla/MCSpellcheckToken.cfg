SPECIFICATION TokenSpec
CONSTANTS
  BLANK = 0
  LowerOf <- MCLowerOf
  UpperOf <- MCUpperOf
  Lexicons <- MCLexicons
  Tokens <- MCTokens
  Configurations <- MCConfigurations
  PartSize = 4
  num_factors = 3
  SpecialNames <- MCSpecialNames
  GroupCheck = 6
  GroupOverhead = 16
  EmissionCost <- MCEmissionCost
  Centers <- MCCenters
  CostBits = 2
  Morpholexes <- MCMorpholexes
  EnabledFactors <- MCEnabledFactors
  FactorWeights <- MCFactorWeights
  UnknownWordCost = 100
  Alternatives = {0, 1, 2}
  Earlier <- MCEarlier
INVARIANTS
  StageOffersEveryAnalysis
  SimilarWordsAreFound
  OffersComeFromFirstSearch
  BestOffersAreRanked
