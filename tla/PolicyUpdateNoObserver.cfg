SPECIFICATION Spec
CONSTANTS
  N = 2
  Steps = 2
  Attempts = 2
  MaxMicro = 2
  Configs <- ObserverOff
  RanksMayRaise = FALSE
INVARIANT DisabledIsHarmless
CHECK_DEADLOCK FALSE
