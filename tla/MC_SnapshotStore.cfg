SPECIFICATION StoreSpec
CONSTANTS
  Process = {p1, p2, p3}
  Observations <- MCObservations
  Time = {1, 2}
  Builds <- MCBuilds
SYMMETRY Symmetry
INVARIANTS
  StoreIsFaithful
  DiffIsHonest
CHECK_DEADLOCK FALSE
