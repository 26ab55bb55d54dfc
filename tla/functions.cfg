\* Values: a float64 of 3 bits and an int64 of 6; trees up to one level past
\* the nesting of each family; chains of three calls.  Languages: the data of
\* an expression put into more data twice; trees near the limit of 13 levels.
\* Tokens: one token and one verification.  Words: blocks of their full 64
\* bits.  DER: shapes of up to four levels and seven nodes, and wider ones.
\* Indices: all whole numbers of one bit less than a number has.
\* Options: every function that reads all of them, up to two given;
\* those that search for unknown values with arguments known in part as well.
CONSTANTS
  FloatBits = 3
  Int64Bits = 6
  MaxDepth <- MCMaxDepth
  MaxNodes = 6
  CborLevels = 3
  KeyNames <- MCKeyNames
  Spelling <- MCSpelling
  Given <- MCGiven
  Documents <- MCDocuments
  MaxCalls = 3
  TreeDepth = 13
  TreeNodes = 40
  AtLimit = 10
  PromFunctions = {"rate", "time"}
  Int64Limit = 4
  Texts <- MCTexts
  MaxSplices = 2
  Materials <- MCMaterials
  Algorithms = {"HS256", "ES256", "EdDSA", "RS256", "PS256"}
  Extras <- MCExtras
  Claims <- MCClaims
  Times <- MCTimes
  MaxChecks = 1
  Keys <- MCKeys
  Ders <- MCDers
  Asn1Depth = 3
  Asn1Nodes = 6
  Prec = 5
  Starts <- MCStarts
  Divisors <- MCDivisors
  Steps <- MCSteps
  MaxWraps = 2
  Functions <- MCFunctions
  Exposed <- MCExposed
  MaxGiven = 2
SPECIFICATION PureSpec
INVARIANTS
  RoundedAtMostOnce
  UnknownNeverConcrete
  ReturnedIsReadable
  
  EncodedAsMeant
  StoppedForAReason
  ValidExactlyWhenSigned
  JWKVerifiesTheSame
  KeyRestoredOrNoticed
  WholeTreeWithinLimits
  WrapsAddUp
  KnownPlanIsFinal
  RefusalIsFinal
CHECK_DEADLOCK FALSE
