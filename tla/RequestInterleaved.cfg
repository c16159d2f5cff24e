SPECIFICATION Spec
CONSTANTS
  Req = {r1, r2}
  Resumable = {}
  Structured = {}
  Connector = TRUE
  InterleavePrefill = TRUE
  MayPreempt = FALSE
  MaxRunning = 2
  MaxBatches = 2
  MaxChunks = 0
  MaxPreemptions = 1
INVARIANTS
  SkippedAreRequeued
CHECK_DEADLOCK FALSE
