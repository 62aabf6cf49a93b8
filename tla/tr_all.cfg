SPECIFICATION FairSpec
CONSTANTS
  MaxGen = 1
  MaxUtt = 2
  MaxSlices <- LongFirst
  FinalCap = 1
  FinalMax = 3
  Faults = {"exception", "timeout", "stop"}
INVARIANTS TranscriptKept
PROPERTIES TranscriptSpec EveryEndIsPublished
CHECK_DEADLOCK FALSE
