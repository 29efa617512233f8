\* The numbers of cmd/main.go, internal/database/client.go and
\* config/manager/manager.yaml; three failures are the default of Kubernetes.
SPECIFICATION FairSpec
CHECK_DEADLOCK FALSE
CONSTANTS
  maxRetries = 5
  MaxBackoff = 30
  ProbeDelay = 15
  ProbePeriod = 20
  ProbeFailures = 3
  StartupBudget <- StartupEventsOnce
INVARIANT StartupTypeOK
INVARIANT RunsPrepared
INVARIANT AttemptsSpaced
PROPERTY ProbeSparesRetries
PROPERTY ComesToRun
