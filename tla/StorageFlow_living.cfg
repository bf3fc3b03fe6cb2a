SPECIFICATION FlowSpec
CONSTANTS
  Names = {n1}
  PoolWorkers = {w1, w2}
  MaxRequeues = 0
  IsCrd = FALSE
  AllNamespaces = FALSE
  MaxVersion = 3
INVARIANT DeletedRowsAreGone
