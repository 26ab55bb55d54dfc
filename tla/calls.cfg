\* Two concurrent calls of slugify with any text and options, some of which
\* panic; or one call of jq with two values at most, nested less than three
\* deep.  A call of jq ends.
CONSTANTS
  c1 = c1
  c2 = c2
  None = None
  Callers = {c1, c2}
  MaxOutputs = 2
  MaxDepth = 3
SPECIFICATION CallsSpec
INVARIANTS
  OwnCase
  RestoredWhenFree
  CompleteOrError
  ErrorsAreEarned
PROPERTIES
  CallsReturn
  CallReturns
CHECK_DEADLOCK FALSE
