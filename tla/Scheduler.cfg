SPECIFICATION MCSpec
CONSTANTS
  r1 = r1
  r2 = r2
  r3 = r3
  Req <- R3
  Rank <- RankOf
  ByPriority = TRUE
  Adapter <- NoAdapters
  MaxLoras = 1
  ComputeShare = FALSE
  InterleavePrefill = TRUE
  Throttle = TRUE
  Checkpoints = FALSE
  Overlap = TRUE
  Limits = TRUE
  MaxRunning = 3
  TokenCap = 3
  InputCap = 6
  DraftSlots = 1
  DraftInput = 1
  MaxPrompt = 2
  MaxDrafts = 1
INVARIANTS
  BothBalance
  EveryoneConsidered
  EvictionIsOrdered
  BoundaryStepIsAlone
  EmptyStepIsExplained
  BothQueued
  TransfersBelong
  NoSessionForgotten
  SlotsSufficeForAll
PROPERTIES
  LeftoverIsHarmless
CHECK_DEADLOCK FALSE
