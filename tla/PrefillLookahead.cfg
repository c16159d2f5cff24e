SPECIFICATION Spec
CONSTANTS
  Prompts <- MCPrompts
  Settings <- MCSettings
  MaxSteps = 3
INVARIANTS
  EmptyChunkIsExplained
CHECK_DEADLOCK FALSE
