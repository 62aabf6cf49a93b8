SPECIFICATION Spec
CONSTANTS
  MaxGen = 2
  MaxUtt = 1
  MaxSlices <- OneSlice
  FinalCap = 1
  FinalMax = 2
  Faults = {"exception", "timeout", "stop"}
INVARIANT FinalIsTheEnd
CHECK_DEADLOCK FALSE
