\* Two callers race to set up the engine and share it, with one fault that
\* is not theirs, under fair scheduling: the engine is safe and implements
\* its service.
CONSTANTS
  c1 = c1
  c2 = c2
  None = None
  Callers = {c1, c2}
  Inputs = 1
  CloseOnDone = TRUE
  MaxFaults = 1
SPECIFICATION FairSpec
INVARIANTS
  PublishedIsUsable
  NoRuntimeLeak
  FaultsAreOwn
  ModuleOutlivesUse
  DeallocsAreOwed
PROPERTIES
  ServiceSpec
  PublishedForGood
