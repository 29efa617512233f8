SPECIFICATION FairSpec
CONSTANTS
  r1 = r1
  c1 = c1
  c2 = c2
  f1 = f1
  f2 = f2
  s1 = s1
  s2 = s2
  NoFiles = NoFiles
  Torn = Torn
  NoCommit = NoCommit
  NoRequest = NoRequest
  MaxRetries = 3
  Requests <- OneRequest
  Clusters <- OneCluster
  Specs <- TwoSpecs
  Contents <- OneFile
  ClusterOf <- SameCluster
  Render <- RenderSome
  Budget <- LivenessBudget
PROPERTY ApprovedSettles
PROPERTY DeletionCompletes
CHECK_DEADLOCK FALSE
