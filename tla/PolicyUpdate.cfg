SPECIFICATION Spec
CONSTANTS
  N = 3
  Steps = 2
  Attempts = 2
  MaxMicro = 2
  Configs <- AllConfigs
  RanksMayRaise = TRUE
INVARIANTS
  ShardsAgree
  GradientsAreOfOneBatch
  RowsCountEveryShard
  ProbesAreOfTheOldModel
PROPERTIES
  ImplementsOneWorker
  EveryUpdateEnds
CHECK_DEADLOCK FALSE
