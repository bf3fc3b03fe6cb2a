SPECIFICATION Spec
CONSTANTS
  Names = {n1}
  PoolWorkers = {w1, w2}
  MaxRequeues = 1
  IsCrd = TRUE
  AllNamespaces = FALSE
  MaxVersion = 3
INVARIANT CrdDeletionReachesManager
