CONSTANTS
  Prompt = {p1, p2, p3, p4, p5}
  GenBatchSize = 2
  TrainBatchSize = 2
  Filters = {TRUE, FALSE}
  MaxGenBatches = 2
  TotalEpochs = 2
  TotalSteps = 0
  SaveFreq = 1
  NoSave = NoSave
  MaxCrashes = 1
  MaxRelaunches = 0
SPECIFICATION FairSpec
CHECK_DEADLOCK FALSE
PROPERTIES
  EveryLaunchEnds
  ReachesLastStep
