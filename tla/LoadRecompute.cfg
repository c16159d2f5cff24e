SPECIFICATION Spec
CONSTANT
  Scenarios <- MCScenarios
INVARIANT
  OutputsAreExact
CHECK_DEADLOCK FALSE
