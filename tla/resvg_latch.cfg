\* A cancelled first call of svg_render and a second, healthy one.
CONSTANTS
  c1 = c1
  c2 = c2
  None = None
  Callers = {c1, c2}
  Inputs = 1
  CloseOnDone = FALSE
  MaxFaults = 0
SPECIFICATION Spec
INVARIANT FirstCallDoesNotDisable
