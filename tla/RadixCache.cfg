SPECIFICATION Spec
CONSTANTS
  Token = {a, b}
  Slot = {s1, s2, s3, s4}
  Req = {r1, r2, r3}
  MaxLen = 3
  RetractSteps = 2
  None = None
SYMMETRY Symmetry
INVARIANTS
  SlotsConserved
  RowsAreTheTrees
  CountersExact
  EvictionDelivers
PROPERTIES
  ImplementsPrefixCache
