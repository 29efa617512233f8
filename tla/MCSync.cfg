SPECIFICATION FairSpec
CONSTANTS
  d1 = d1
  n1 = n1
  n2 = n2
  Replicas <- OneReplica
  N = 2
  Names <- OneName
  BatchSize = 1
  SyncBudget <- SyncFaults
INVARIANT SyncTypeOK
INVARIANT SyncedWasCreated
INVARIANT FailsOnlyWithoutObject
PROPERTY LabLeavesQueue
PROPERTY ObjectIsMirrored
PROPERTY ImplementsLabSync
CHECK_DEADLOCK FALSE
