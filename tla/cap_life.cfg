SPECIFICATION Spec
CONSTANTS
  OpenHold = 2
  CloseHold = 3
  CrashTrim = 1
  GuardMax = 2
  Target = 4
  CutWindow = 2
  PreRoll = 2
  PreTrigger = 5
  MinSpeech = 3
  MaxUtt = 3
INVARIANTS TypeOK OnlyFreshAudio OpenMeansBusy
PROPERTIES LifeSpec HoldsTheCarrier PartialFinalized
CHECK_DEADLOCK FALSE
