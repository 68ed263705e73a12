SPECIFICATION Spec
CONSTANTS
  AlphaNum = {"a"}
  Upper = {}
  Space = {" ", "nl"}
  Newline = "nl"
  Ending = {}
  Opening = {}
  Closing = {}
  High = {"h"}
  Low = {"l"}
  Replacement = "?"
  Texts <- MCTexts
  Tokenizations <- Vertical
  OutputFormats = {"suggestions"}
INVARIANTS
  TextIsPreserved
