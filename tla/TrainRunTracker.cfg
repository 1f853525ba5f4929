CONSTANTS
  TotalSteps = 2
  SaveFreq = 1
  MaxKeep = 0
  MaxUpdates = 1
  SupportEnabled = FALSE
  ProbeEnabled = FALSE
  MemoryReported = TRUE
  AnyCheckpoint = FALSE
  Torn = Torn
  Missing = Missing
  MaxStops = 1
SPECIFICATION Spec
CHECK_DEADLOCK FALSE
INVARIANTS
  TrackerIsReadable
