SPECIFICATION Spec
CONSTANTS
  r1 = r1
  r2 = r2
  r3 = r3
  Req <- R2
  Rank <- RankOf2
  ByPriority = FALSE
  Adapter <- TwoAdapters
  MaxLoras = 1
  ComputeShare = TRUE
  InterleavePrefill = FALSE
  Throttle = FALSE
  Checkpoints = FALSE
  Overlap = FALSE
  Limits = FALSE
  MaxRunning = 3
  TokenCap = 3
  InputCap = 4
  DraftSlots = 0
  DraftInput = 0
  MaxPrompt = 2
  MaxDrafts = 0
INVARIANTS
  AdaptersFit
CHECK_DEADLOCK FALSE
