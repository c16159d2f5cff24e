SPECIFICATION Spec
CONSTANTS
  Req = {r1, r2}
  Prompt = 1
  MaxOut = 2
  NumSpec = 1
  Async = TRUE
  KVDelivery = FALSE
  MaxBatches = 2
  MaxPreemptions = 2
SYMMETRY Symmetry
INVARIANTS
  TypeOK
  StaleShareIsExact
  OutputInOrder
  PlaceholdersMatch
  CountersSettle
  NoWastedStep
CHECK_DEADLOCK FALSE
