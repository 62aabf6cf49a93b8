SPECIFICATION FairSpec
CONSTANTS
  Requests = {r1, r2, r3}
  Boot = Boot
  None = None
INVARIANTS NeverLeftStopped DeviceIsOnes
PROPERTIES ListenOffSilences Answered
CHECK_DEADLOCK FALSE
