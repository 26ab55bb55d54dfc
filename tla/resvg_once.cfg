\* Two callers, fair scheduling: what the sync.Once set-up guarantees.
CONSTANTS
  c1 = c1
  c2 = c2
  None = None
  Callers = {c1, c2}
  Inputs = 1
  CloseOnDone = FALSE
  MaxFaults = 1
SPECIFICATION FairSpec
INVARIANTS
  OnceIsAllOrNothing
PROPERTIES
  CallsReturn
