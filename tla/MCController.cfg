SPECIFICATION Spec
CONSTANTS
  r1 = r1
  c1 = c1
  c2 = c2
  f1 = f1
  f2 = f2
  s1 = s1
  s2 = s2
  NoFiles = NoFiles
  Torn = Torn
  NoCommit = NoCommit
  NoRequest = NoRequest
  MaxRetries = 1
  Requests <- OneRequest
  Clusters <- TwoClusters
  Specs <- TwoSpecs
  Contents <- TwoFiles
  ClusterOf <- ClusterEach
  Render <- RenderEach
  Budget <- FaultBudget
CONSTRAINT ThreeEvents
INVARIANT TypeOK
INVARIANT StatusIsTrue
INVARIANT NoLostWakeup
PROPERTY ImplementsLifecycle
PROPERTY ApprovalIsKept
PROPERTY CommitMatchesSpec
PROPERTY PublishHoldsFinalizer
PROPERTY ArrowsFollowed
CHECK_DEADLOCK FALSE
