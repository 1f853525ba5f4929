SPECIFICATION Spec
CONSTANTS
  Calls = 3
  Tensors = 2
  Prompts = 1
  Samples = 3
  MaxNew = 3
  Lost = Lost
INVARIANTS
  RolloutsAreOnPolicy
  FlushSucceeds
PROPERTIES
  EveryCallReturns
