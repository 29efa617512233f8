SPECIFICATION FairSpec
CONSTANTS
  r1 = r1
  c1 = c1
  c2 = c2
  f1 = f1
  f2 = f2
  s1 = s1
  s2 = s2
  NoFiles = NoFiles
  Torn = Torn
  NoCommit = NoCommit
  NoRequest = NoRequest
  MaxRetries = 3
  Requests <- OneRequest
  Clusters <- OneCluster
  Specs <- OneSpec
  Contents <- OneFile
  ClusterOf <- FirstCluster
  Render <- RenderOne
  Budget <- DivergeBudget
PROPERTY CloneCatchesUp
CHECK_DEADLOCK FALSE
