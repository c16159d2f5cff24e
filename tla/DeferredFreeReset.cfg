SPECIFICATION Spec
CONSTANTS
  Req = {r1, r2}
  Block = {b1, b2}
  Roles <- Consumer
  MaxBatches = 2
  MaxStep = 2
INVARIANT ResetSucceeds
CHECK_DEADLOCK FALSE
