SPECIFICATION Spec
CONSTANTS
  Jobs = {j1}
  Names = {n1}
  None = None
  Size = 2
  MaxLine = 2
INVARIANT DispatchNeverStops
CHECK_DEADLOCK FALSE
