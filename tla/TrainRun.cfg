CONSTANTS
  TotalSteps = 3
  SaveFreq = 1
  MaxKeep = 2
  MaxUpdates = 1
  SupportEnabled = TRUE
  ProbeEnabled = TRUE
  MemoryReported = TRUE
  AnyCheckpoint = FALSE
  Torn = Torn
  Missing = Missing
  MaxStops = 2
SPECIFICATION FairSpec
CHECK_DEADLOCK FALSE
INVARIANTS
  TrainTableIsTheRun
  OptimizerStepIsExact
  ValidatorReadsTheRun
  TrackedIsWhole
  TrackedHasRows
  EventsAreWhole
PROPERTIES
  RecoversOnceSaved
