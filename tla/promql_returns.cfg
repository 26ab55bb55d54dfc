\* The texts of the functions run, decoded and encoded.
CONSTANTS
  TreeDepth = 13
  TreeNodes = 40
  AtLimit = 10
  PromFunctions = {"rate", "time"}
  Int64Limit = 4
  Texts <- MCTexts
  MaxSplices = 0
SPECIFICATION LanguagesSpec
INVARIANT QueriesReturn
