------------------------------ MODULE Mappers ------------------------------
(***************************************************************************)
(* The pure functions between a row of the labs table and the files in     *)
(* Git: internal/database/mapper.go (a row becomes a ClusterRequest), the  *)
(* defaults and the validation that the markers of                         *)
(* api/v1alpha1/clusterrequest_types.go put into the CRD, and              *)
(* internal/mappers (the spec becomes the values of the templates).        *)
(*                                                                         *)
(* Fields that are only copied (baseDomain, requestedBy, companyName,      *)
(* labId) are left out.  A version string is a record: what it looks like  *)
(* (form), the number in it, whether it is an image set of another name    *)
(* than the operator gives (custom), and whether blanks surround it        *)
(* (padded).                                                               *)
(***************************************************************************)
EXTENDS Integers, Sequences

CONSTANTS
  Unset,        \* a field or block a manifest does not have
  DnsNames,     \* strings that match the pattern of a DNS label
  LabelValues   \* strings that Kubernetes takes as the value of a label

Forms == {"empty", "number", "image", "name"}

VersionText == [form : Forms, number : Seq(Nat), custom : BOOLEAN, padded : BOOLEAN]

Text(form, number, custom) ==
  [form |-> form, number |-> number, custom |-> custom, padded |-> FALSE]

EmptyText == Text("empty", <<>>, FALSE)
ImageSet(number) == Text("image", number, FALSE)
Number(number) == Text("number", number, FALSE)

ASSUME MappersAssumption ==
  Unset # "" /\ Unset \notin Int /\ Unset \notin VersionText

---------------------------------------------------------------------------
(* internal/database/mapper.go                                             *)

\* The row as the query reads it; hold is an integer column.
ValidateLab(lab) ==
  /\ lab.clusterName \in DnsNames
  /\ lab.clusterSize \in {"small", "medium", "large"}
  /\ lab.region # ""
  /\ lab.primaryEmail # ""
  /\ lab.hold = 0
  /\ lab.openshiftVersion # EmptyText

\* Mutant of mapEnvironment: the request type is passed on.
mapEnvironmentAsIs(requestType) == requestType

mapEnvironment(requestType) ==
  IF requestType \in {"demo", "trial"} THEN "development"
  ELSE IF requestType = "production" THEN "production"
  ELSE "staging"

\* The query selects no cloud provider, so that the default always applies.
MapLabToClusterRequest(lab) ==
  [clusterName |-> lab.clusterName, environment |-> mapEnvironment(lab.requestType),
   openshiftVersion |-> lab.openshiftVersion, clusterSize |-> lab.clusterSize,
   cloudProvider |-> "aws", region |-> lab.region, requestType |-> lab.requestType,
   controlPlane |-> Unset, workers |-> Unset, networking |-> Unset]

---------------------------------------------------------------------------
(* The CRD: what the API server fills in, and what it refuses.             *)

Default(value, default) == IF value = Unset THEN default ELSE value

NodeDefaults(block, instanceType) ==
  IF block = Unset THEN Unset
  ELSE [block EXCEPT !.instanceType = Default(@, instanceType), !.replicas = Default(@, 3)]

defaultNetworks ==
  [clusterNetworkCIDR |-> "10.128.0.0/14", serviceNetworkCIDR |-> "172.30.0.0/16",
   machineNetworkCIDR |-> "10.0.0.0/16"]

\* The defaults of a block apply to the fields that a given block leaves out.
WithDefaults(m) ==
  [m EXCEPT
     !.openshiftVersion = Default(@, ImageSet(<<4, 20, 10>>)),
     !.cloudProvider = Default(@, "aws"),
     !.controlPlane = NodeDefaults(@, "m5.xlarge"),
     !.workers = NodeDefaults(@, "m5.2xlarge"),
     !.networking = IF @ = Unset THEN Unset
                    ELSE [n \in DOMAIN defaultNetworks |-> Default(@[n], defaultNetworks[n])]]

Sizes == {"small", "medium", "large", "xl"}

Admits(s) ==
  /\ s.clusterName \in DnsNames
  /\ s.environment \in {"development", "staging", "production"}
  /\ s.clusterSize \in Sizes
  /\ s.cloudProvider = "aws"
  /\ s.controlPlane # Unset => s.controlPlane.replicas \in 1..5
  /\ s.workers # Unset => s.workers.replicas \in 0..100

---------------------------------------------------------------------------
(* internal/mappers/region_mapper.go and version_mapper.go                 *)

regionMappings ==
  [na1 |-> "us-east-1", na2 |-> "us-central-1", na3 |-> "us-west-1",
   apac |-> "ap-southeast-1", emea |-> "eu-west-1"]

MapRegionToAWS(region) ==
  IF region \in DOMAIN regionMappings THEN regionMappings[region] ELSE region

\* A zone is its region and a letter.
GetAWSAvailabilityZones(awsRegion) == <<<<awsRegion, "a">>, <<awsRegion, "b">>, <<awsRegion, "c">>>>

\* The releases with an entry, and the release each stands for.
versionMappings(number) ==
  CASE number = <<4, 20>> -> <<4, 20, 10>>
    [] number = <<4, 19>> -> <<4, 19, 15>>
    [] OTHER -> number

TrimSpace(v) == [v EXCEPT !.padded = FALSE]

\* Digits and at least one dot.
isVersionNumber(v) == v.form = "number" /\ Len(v.number) > 1

\* Mutant of MapVersionToImageSet: the version is reported as it was asked for.
MapVersionUnresolved(version) ==
  LET v == TrimSpace(version) IN
  IF isVersionNumber(v)
  THEN [imageSetRef |-> ImageSet(versionMappings(v.number)), openshiftVersion |-> v]
  ELSE IF v.form = "image"
  THEN [imageSetRef |-> v, openshiftVersion |-> Number(v.number)]
  ELSE [imageSetRef |-> v, openshiftVersion |-> v]

\* A release stands for itself unless the table says otherwise, so that the
\* table and the construction of a name are one case.
MapVersionToImageSet(version) ==
  LET v == TrimSpace(version) IN
  IF isVersionNumber(v)
  THEN [imageSetRef |-> ImageSet(versionMappings(v.number)),
        openshiftVersion |-> Number(versionMappings(v.number))]
  ELSE IF v.form = "image"
  THEN [imageSetRef |-> v, openshiftVersion |-> Number(v.number)]
  ELSE [imageSetRef |-> v, openshiftVersion |-> v]

---------------------------------------------------------------------------
(* internal/mappers/instance_types.go and cluster_config.go                *)

Nodes(controlPlane, workers) == [controlPlane |-> controlPlane, workers |-> workers]

\* Every size has three nodes of each kind.
clusterSizeMap ==
  [small  |-> Nodes("m7i.large", "m7i.large"),
   medium |-> Nodes("m7i.xlarge", "m7i.xlarge"),
   large  |-> Nodes("m7i.2xlarge", "m7i.2xlarge"),
   xl     |-> Nodes("m7i.4xlarge", "m7i.4xlarge")]

sizeReplicas == 3

GetClusterSizeConfig(size) ==
  IF size \in DOMAIN clusterSizeMap THEN clusterSizeMap[size] ELSE clusterSizeMap["medium"]

requestTypeInstanceOverrides ==
  [ocpv   |-> Nodes("m6a.metal", "m6a.metal"),
   rhoai  |-> Nodes("m7i.xlarge", "g5.2xlarge"),
   nvidia |-> Nodes("m7i.xlarge", "g5.2xlarge")]

\* Mutant of BaseNodes: the size is looked at before the request type.
SizeBeforeType(spec) ==
  IF spec.clusterSize \in DOMAIN clusterSizeMap THEN clusterSizeMap[spec.clusterSize]
  ELSE requestTypeInstanceOverrides[spec.requestType]

\* The size says which nodes, unless the request is of a special type.
BaseNodes(spec) ==
  IF spec.requestType \in DOMAIN requestTypeInstanceOverrides
  THEN requestTypeInstanceOverrides[spec.requestType]
  ELSE GetClusterSizeConfig(spec.clusterSize)

InstanceType(block, base) ==
  IF block # Unset /\ block.instanceType # "" THEN block.instanceType ELSE base

\* Mutant of WorkerZones: a workers block brings its zones, if any.
WorkerZonesAsGiven(spec) ==
  IF spec.workers # Unset THEN spec.workers.zones
  ELSE GetAWSAvailabilityZones(MapRegionToAWS(spec.region))

WorkerZones(spec) ==
  IF spec.workers # Unset /\ spec.workers.zones # <<>> THEN spec.workers.zones
  ELSE GetAWSAvailabilityZones(MapRegionToAWS(spec.region))

\* Mutant of WorkerReplicas: none is taken for not given, as it is for the
\* control plane.
WorkerReplicasPositive(spec) ==
  IF spec.workers # Unset /\ spec.workers.replicas > 0 THEN spec.workers.replicas
  ELSE sizeReplicas

\* Unlike the control plane's, the number of workers may be 0.
WorkerReplicas(spec) ==
  IF spec.workers # Unset THEN spec.workers.replicas ELSE sizeReplicas

MapClusterRequest(spec) ==
  [version |-> MapVersionToImageSet(spec.openshiftVersion),
   region |-> MapRegionToAWS(spec.region),
   controlPlaneType |-> InstanceType(spec.controlPlane, BaseNodes(spec).controlPlane),
   controlPlaneReplicas |->
     IF spec.controlPlane # Unset /\ spec.controlPlane.replicas > 0
     THEN spec.controlPlane.replicas ELSE sizeReplicas,
   workerType |-> InstanceType(spec.workers, BaseNodes(spec).workers),
   workerReplicas |-> WorkerReplicas(spec),
   workerZones |-> WorkerZones(spec),
   networks |->
     [n \in DOMAIN defaultNetworks |->
        IF spec.networking # Unset /\ spec.networking[n] # ""
        THEN spec.networking[n] ELSE defaultNetworks[n]]]

\* internal/templates/generator.go: executing the templates fails on the index
\* of the first zone only, the other fields being strings and numbers.
Renders(config) == config.workerZones # <<>>
=============================================================================
