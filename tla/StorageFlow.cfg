SPECIFICATION FlowFairSpec
CONSTANTS
  Names = {n1}
  PoolWorkers = {w1, w2}
  MaxRequeues = 1
  IsCrd = FALSE
  AllNamespaces = TRUE
  MaxVersion = 3
INVARIANTS FlowTypeOK TypeOK LatestPublished DeletionPublished NoFalseDeletion RowForEveryObject
PROPERTY FlowComesToRest
