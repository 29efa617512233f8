SPECIFICATION Spec
CONSTANTS
  Unset = Unset
  DnsNames <- MCDnsNames
  LabelValues <- MCLabelValues
  Names <- MCNames
  Regions <- MCRegions
  RequestTypes <- MCRequestTypes
  Versions <- MCVersions
  ControlPlanes <- MCControlPlanes
  WorkerBlocks <- MCWorkerBlocks
  Networkings <- MCNetworkings
INVARIANT ConfigTypeOK
INVARIANT ValidLabIsTaken
INVARIANT EveryRequestRenders
INVARIANT CountsAsAsked
INVARIANT NodesAsAsked
INVARIANT VersionMatchesImage
CHECK_DEADLOCK FALSE
