SPECIFICATION Spec
CONSTANTS
  Req = {r1}
  Resumable = {r1}
  Structured = {}
  Connector = FALSE
  InterleavePrefill = FALSE
  MayPreempt = TRUE
  MaxRunning = 2
  MaxBatches = 2
  MaxChunks = 2
  MaxPreemptions = 1
INVARIANTS
  SessionCommences
CHECK_DEADLOCK FALSE
