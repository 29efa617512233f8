SPECIFICATION GitSpec
CONSTANTS
  c1 = c1
  c2 = c2
  f1 = f1
  f2 = f2
  NoFiles = NoFiles
  Torn = Torn
  NoCommit = NoCommit
  Clusters <- MCClusters
  Contents <- MCContents
  Budget <- MCDiskBudget
PROPERTY PushStaysInItsClusters
CHECK_DEADLOCK FALSE
