\* The functions of the colour family whose loop over the options returns in
\* its first iteration, with everything known.
CONSTANTS
  Functions <- MCFirst
  Exposed <- MCNone
  MaxGiven = 2
SPECIFICATION Spec
INVARIANT KnownPlanIsFinal
CHECK_DEADLOCK FALSE
