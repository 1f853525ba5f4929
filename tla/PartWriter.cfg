CONSTANTS
  k1 = k1
  k2 = k2
  k3 = k3
  Writer = {w1, w2}
  File = {f1, f2, f3}
  Key = {k1, k2, k3}
  StepOf <- StepOfMC
  Batch <- BatchMC
  Cut <- CutMC
  NoCut = NoCut
  NoWriter = NoWriter
  NoFile = NoFile
  MaxNumber = 4
  CallerRetries = FALSE
  ReadsFail = TRUE
  PowerFails = TRUE
SPECIFICATION Spec
CHECK_DEADLOCK FALSE
SYMMETRY Symmetry
INVARIANTS
  UniqueKeys
  ReadyIsExact
  CommittedIsDurable
  NumbersUnique
PROPERTIES
  ImplementsLog
