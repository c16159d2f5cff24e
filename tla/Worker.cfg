SPECIFICATION Spec
INVARIANTS
  WeightsFitGeometry
  AttentionIsGlobal
  BlocksAreExact
  ChunksAreServable
  StatesAreExact
  LoadsAreRecovered
  VmmKeepsWeights
  BanksResolve
  LayersShareFairly
  EngramRowsAreGlobal
  CollectivesAreExact
  BackendsFitGroup
  PlanIsConsistent
  NamespacesAreSeparate
  ArenaFollowsLock
CHECK_DEADLOCK FALSE
