SPECIFICATION Spec
CONSTANTS
  d1 = d1
  n1 = n1
  n2 = n2
  Replicas <- OneReplica
  N = 1
  Names <- TwoNames
  BatchSize = 2
  SyncBudget <- SyncEdits
INVARIANT OneObjectPerLab
CHECK_DEADLOCK FALSE
