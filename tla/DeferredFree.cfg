SPECIFICATION Spec
CONSTANTS
  Req = {r1, r2}
  Block = {b1, b2}
  Roles <- Both
  MaxBatches = 2
  MaxStep = 4
SYMMETRY Symmetry
INVARIANTS
  TypeOK
  NoOverwrite
  LandingExclusive
  CountersInSync
  DrainedUpToFence
  IInv
PROPERTY ImplementsBlockReuse
CHECK_DEADLOCK FALSE
