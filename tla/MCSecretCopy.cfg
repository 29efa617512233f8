SPECIFICATION FairSpec
CONSTANTS
  d1 = d1
  d2 = d2
  e1 = e1
  Missing = Missing
  secretsToCopy <- MCSecrets
  Data <- MCData
  TypeOf <- MCTypeOf
  CopyBudget <- MCCopyBudget
INVARIANT CopyTypeOK
INVARIANT CopiedAsRead
INVARIANT FailsForCause
PROPERTY ImplementsMirror
PROPERTY CallSucceeds
CHECK_DEADLOCK FALSE
