\* A float64 of 3 bits and an int64 of 6; trees up to one level past the
\* nesting of each family; chains of three calls.
CONSTANTS
  FloatBits = 3
  Int64Bits = 6
  MaxDepth <- MCMaxDepth
  MaxNodes = 6
  CborLevels = 3
  KeyNames <- MCKeyNames
  Spelling <- MCSpelling
  Given <- MCGiven
  Documents <- MCDocuments
  MaxCalls = 3
SPECIFICATION ValuesSpec
INVARIANTS
  ExtractedExactly
CHECK_DEADLOCK FALSE
