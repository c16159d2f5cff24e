SPECIFICATION Spec
CONSTANTS
  Settings <- MCSettings
  Batches <- MCBatches
  MaxSteps = 3
INVARIANTS
  FillCompletes
CHECK_DEADLOCK FALSE
