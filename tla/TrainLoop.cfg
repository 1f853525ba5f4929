CONSTANTS
  Prompt = {p1, p2, p3, p4, p5, p6, p7}
  GenBatchSize = 2
  TrainBatchSize = 2
  Filters = {TRUE, FALSE}
  MaxGenBatches = 1
  TotalEpochs = 2
  TotalSteps = 0
  SaveFreq = 2
  NoSave = NoSave
  MaxCrashes = 2
  MaxRelaunches = 1
SPECIFICATION Spec
CHECK_DEADLOCK FALSE
SYMMETRY Symmetry
INVARIANTS
  BatchIsComplete
  RawIsExact
  TrainedOnce
  NoPromptIsSkipped
  LittleIsLost
  SearchIsBounded
