SPECIFICATION FairSpec
CONSTANTS
  d1 = d1
  n1 = n1
  n2 = n2
  Replicas <- OneReplica
  N = 1
  Names <- OneName
  BatchSize = 1
  SyncBudget <- OneSyncFault
PROPERTY CreatedIsMarked
CHECK_DEADLOCK FALSE
