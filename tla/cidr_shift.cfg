\* The listing of a CIDR alone, with the family's bounds.
CONSTANTS
  IntBits = 6
  Width <- MCWidth
  LimitBits = 3
SPECIFICATION BlockSpec
INVARIANT TooManyIsAnError
CHECK_DEADLOCK FALSE
