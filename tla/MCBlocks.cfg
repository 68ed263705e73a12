SPECIFICATION BlocksSpec
CONSTANTS
  AlphaNum = {"a", "A"}
  Upper = {"A"}
  Space = {" ", "nl"}
  Newline = "nl"
  Ending = {"."}
  Opening = {"q", "("}
  Closing = {"q", ")"}
  High = {"h"}
  Low = {"l"}
  Replacement = "?"
  Texts <- MCTexts
  LaterTexts <- MCLaterTexts
  Tokenizations <- MCTokenizations
  OutputFormats = {"original", "xml", "suggestions"}
  FormatPairs <- MCFormatPairs
INVARIANTS
  ShownIsPrefix
  KeptTextIsPreserved
  GapsAreWhiteSpace
  TokensArePromised
  SentencesAreCut
PROPERTIES
  TokensComeInOrder
  EveryBlockEnds
