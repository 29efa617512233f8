------------------------ MODULE ClusterConfigProofs ------------------------
(***************************************************************************)
(* Theorems about the way of a request through the mappers, for any names, *)
(* regions, request types, versions and blocks: what the API server takes  *)
(* can be rendered, with the nodes, counts and version that were asked     *)
(* for, and a lab that the poller finds valid is taken.                    *)
(***************************************************************************)
EXTENDS ClusterConfig, TLAPS

\* The defaults, field by field.
LEMMA Defaults ==
  ASSUME NEW m \in Manifests
  PROVE  LET s == WithDefaults(m) IN
         /\ s.clusterName = m.clusterName /\ s.environment = m.environment
         /\ s.clusterSize = m.clusterSize /\ s.region = m.region
         /\ s.requestType = m.requestType
         /\ s.openshiftVersion = Default(m.openshiftVersion, ImageSet(<<4, 20, 10>>))
         /\ s.cloudProvider = Default(m.cloudProvider, "aws")
         /\ s.controlPlane = NodeDefaults(m.controlPlane, "m5.xlarge")
         /\ s.workers = NodeDefaults(m.workers, "m5.2xlarge")
         /\ s.networking = IF m.networking = Unset THEN Unset
                           ELSE [n \in DOMAIN defaultNetworks |->
                                   Default(m.networking[n], defaultNetworks[n])]
  BY DEF WithDefaults, Manifests

\* A block is stored exactly when it is given, and its fields are the given
\* ones or the defaults.
LEMMA ControlPlaneDefaults ==
  ASSUME NEW b \in ControlPlanes \union {Unset}
  PROVE  LET s == NodeDefaults(b, "m5.xlarge") IN
         /\ s = Unset <=> b = Unset
         /\ b # Unset => /\ s.instanceType = Default(b.instanceType, "m5.xlarge")
                         /\ s.replicas = Default(b.replicas, 3)
  <1>1. CASE b = Unset
    BY <1>1 DEF NodeDefaults
  <1>2. CASE b # Unset
    <2>1. "instanceType" \in DOMAIN b /\ "replicas" \in DOMAIN b
      BY <1>2, ConfigAssumption DEF ConfigAssumption
    <2>2. NodeDefaults(b, "m5.xlarge") # Unset
      BY <1>2, ConfigAssumption DEF ConfigAssumption
    <2> QED
      BY <1>2, <2>1, <2>2 DEF NodeDefaults
  <1> QED
    BY <1>1, <1>2

LEMMA WorkersDefaults ==
  ASSUME NEW b \in WorkerBlocks \union {Unset}
  PROVE  LET s == NodeDefaults(b, "m5.2xlarge") IN
         /\ s = Unset <=> b = Unset
         /\ b # Unset => /\ s.instanceType = Default(b.instanceType, "m5.2xlarge")
                         /\ s.replicas = Default(b.replicas, 3)
  <1>1. CASE b = Unset
    BY <1>1 DEF NodeDefaults
  <1>2. CASE b # Unset
    <2>1. "instanceType" \in DOMAIN b /\ "replicas" \in DOMAIN b
      BY <1>2, ConfigAssumption DEF ConfigAssumption
    <2>2. NodeDefaults(b, "m5.2xlarge") # Unset
      BY <1>2, ConfigAssumption DEF ConfigAssumption
    <2> QED
      BY <1>2, <2>1, <2>2 DEF NodeDefaults
  <1> QED
    BY <1>1, <1>2

---------------------------------------------------------------------------
(* The invariant                                                           *)

\* What the properties follow from.
ConfigInv == ConfigTypeOK /\ ValidLabIsTaken

\* A valid lab becomes a manifest that the API server takes.
LEMMA ValidLabAdmitted ==
  ASSUME NEW lab \in Labs, ValidateLab(lab)
  PROVE  /\ MapLabToClusterRequest(lab) \in Manifests
         /\ Admits(WithDefaults(MapLabToClusterRequest(lab)))
  <1> DEFINE m == MapLabToClusterRequest(lab)
  <1>1. /\ m.clusterName = lab.clusterName /\ m.clusterSize = lab.clusterSize
        /\ m.environment = mapEnvironment(lab.requestType) /\ m.cloudProvider = "aws"
        /\ m.controlPlane = Unset /\ m.workers = Unset
    BY DEF MapLabToClusterRequest
  <1>2. mapEnvironment(lab.requestType) \in {"development", "staging", "production"}
    BY DEF mapEnvironment
  <1>3. m \in Manifests
    <2>1. lab.openshiftVersion \in Versions
      BY DEF Labs, ValidateLab
    <2>2. lab.openshiftVersion \in VersionText
      BY <2>1, ConfigAssumption DEF ConfigAssumption
    <2>3. /\ lab.clusterName \in Names /\ lab.clusterSize \in Sizes \union {"huge"}
          /\ lab.region \in Regions /\ lab.requestType \in RequestTypes
      BY DEF Labs
    <2> QED
      BY <1>2, <2>2, <2>3 DEF MapLabToClusterRequest, Manifests
  <1>4. Admits(WithDefaults(m))
    <2> HIDE DEF m
    <2>1. Default("aws", "aws") = "aws" /\ NodeDefaults(Unset, "m5.xlarge") = Unset
          /\ NodeDefaults(Unset, "m5.2xlarge") = Unset
      BY DEF Default, NodeDefaults
    <2>2. lab.clusterName \in DnsNames /\ lab.clusterSize \in Sizes
      BY DEF ValidateLab, Sizes
    <2> QED
      BY <1>1, <1>2, <1>3, <2>1, <2>2, Defaults DEF Admits
  <1> QED
    BY <1>3, <1>4

\* The initial state satisfies the invariant.
LEMMA InitConfig == Init => ConfigInv
  BY DEF Init, ConfigInv, ConfigTypeOK, ValidLabIsTaken

\* Submitting a well-formed manifest keeps the invariant.
LEMMA SubmitConfig ==
  ASSUME ConfigInv, NEW m \in Manifests, Submit(m)
  PROVE  ConfigInv'
  BY ConfigAssumption DEF Submit, ConfigInv, ConfigTypeOK, ValidLabIsTaken, ConfigAssumption

\* An edit changes one field of a manifest.
LEMMA EditConfig ==
  ASSUME ConfigInv, Edit
  PROVE  ConfigInv'
  <1>1. manifest \in Manifests
    BY DEF Edit, ConfigInv, ConfigTypeOK
  <1>2. CASE \E s \in Sizes \union {"huge"} : Submit([manifest EXCEPT !.clusterSize = s])
    <2>1. PICK s \in Sizes \union {"huge"} : Submit([manifest EXCEPT !.clusterSize = s])
      BY <1>2
    <2>2. [manifest EXCEPT !.clusterSize = s] \in Manifests
      BY <1>1 DEF Manifests
    <2> QED
      BY <2>1, <2>2, SubmitConfig
  <1>3. CASE \E t \in RequestTypes : Submit([manifest EXCEPT !.requestType = t])
    <2>1. PICK t \in RequestTypes : Submit([manifest EXCEPT !.requestType = t])
      BY <1>3
    <2>2. [manifest EXCEPT !.requestType = t] \in Manifests
      BY <1>1, ConfigAssumption DEF Manifests, ConfigAssumption
    <2> QED
      BY <2>1, <2>2, SubmitConfig
  <1>4. CASE \E v \in Versions : Submit([manifest EXCEPT !.openshiftVersion = v])
    <2>1. PICK v \in Versions : Submit([manifest EXCEPT !.openshiftVersion = v])
      BY <1>4
    <2>2. v \in VersionText
      BY ConfigAssumption DEF ConfigAssumption
    <2>3. [manifest EXCEPT !.openshiftVersion = v] \in Manifests
      BY <1>1, <2>2 DEF Manifests
    <2> QED
      BY <2>1, <2>3, SubmitConfig
  <1>5. CASE \E b \in ControlPlanes : Submit([manifest EXCEPT !.controlPlane = b])
    <2>1. PICK b \in ControlPlanes : Submit([manifest EXCEPT !.controlPlane = b])
      BY <1>5
    <2>2. [manifest EXCEPT !.controlPlane = b] \in Manifests
      BY <1>1 DEF Manifests
    <2> QED
      BY <2>1, <2>2, SubmitConfig
  <1>6. CASE \E b \in WorkerBlocks : Submit([manifest EXCEPT !.workers = b])
    <2>1. PICK b \in WorkerBlocks : Submit([manifest EXCEPT !.workers = b])
      BY <1>6
    <2>2. [manifest EXCEPT !.workers = b] \in Manifests
      BY <1>1 DEF Manifests
    <2> QED
      BY <2>1, <2>2, SubmitConfig
  <1>7. CASE \E b \in Networkings : Submit([manifest EXCEPT !.networking = b])
    <2>1. PICK b \in Networkings : Submit([manifest EXCEPT !.networking = b])
      BY <1>7
    <2>2. [manifest EXCEPT !.networking = b] \in Manifests
      BY <1>1 DEF Manifests
    <2> QED
      BY <2>1, <2>2, SubmitConfig
  <1> QED
    BY <1>2, <1>3, <1>4, <1>5, <1>6, <1>7 DEF Edit

\* Every step keeps the invariant.
LEMMA NextConfig == ConfigInv /\ [Next]_vars => ConfigInv'
  <1> SUFFICES ASSUME ConfigInv, [Next]_vars PROVE ConfigInv'
    OBVIOUS
  <1>1. CASE UNCHANGED vars
    BY <1>1 DEF vars, ConfigInv, ConfigTypeOK, ValidLabIsTaken
  <1>2. CASE \E lab \in Labs : SyncLab(lab)
    <2>1. PICK lab \in Labs : SyncLab(lab)
      BY <1>2
    <2>2. ValidateLab(lab)
      BY <2>1 DEF SyncLab
    <2>3. CASE Submit(MapLabToClusterRequest(lab))
      BY <2>2, <2>3, ValidLabAdmitted, SubmitConfig
    <2>4. CASE ~Submit(MapLabToClusterRequest(lab))
      <3>1. /\ lab.requestType \notin LabelValues
            /\ refused' = lab /\ UNCHANGED <<manifest, stored, config>>
        BY <2>1, <2>2, <2>4, ValidLabAdmitted DEF SyncLab
      <3> QED
        BY <2>2, <3>1 DEF ConfigInv, ConfigTypeOK, ValidLabIsTaken
    <2> QED
      BY <2>3, <2>4
  <1>3. CASE \E n \in Names, s \in Sizes, r \in Regions : Create(n, s, r)
    <2>1. PICK n \in Names, s \in Sizes, r \in Regions : Create(n, s, r)
      BY <1>3
    <2> DEFINE m == [clusterName |-> n, environment |-> "staging", openshiftVersion |-> Unset,
                     clusterSize |-> s, cloudProvider |-> Unset, region |-> r,
                     requestType |-> "", controlPlane |-> Unset, workers |-> Unset,
                     networking |-> Unset]
    <2>2. m \in Manifests
      BY DEF Manifests
    <2> QED
      BY <2>1, <2>2, SubmitConfig DEF Create
  <1>4. CASE Edit
    BY <1>4, EditConfig
  <1>5. CASE Generate
    BY <1>5 DEF Generate, ConfigInv, ConfigTypeOK, ValidLabIsTaken
  <1> QED
    BY <1>1, <1>2, <1>3, <1>4, <1>5 DEF Next

---------------------------------------------------------------------------
(* What follows from it                                                    *)

\* The stored blocks are the given ones with defaults.
LEMMA StoredFields ==
  ASSUME ConfigInv, config # Unset
  PROVE  /\ manifest \in Manifests /\ stored = WithDefaults(manifest)
         /\ Admits(stored) /\ config = MapClusterRequest(stored)
  BY DEF ConfigInv, ConfigTypeOK

\* The counts that the mapper reads off a stored spec.
LEMMA ReplicasMapped ==
  ASSUME NEW s
  PROVE  /\ MapClusterRequest(s).controlPlaneReplicas =
              IF s.controlPlane # Unset /\ s.controlPlane.replicas > 0
              THEN s.controlPlane.replicas ELSE sizeReplicas
         /\ MapClusterRequest(s).workerReplicas =
              IF s.workers # Unset THEN s.workers.replicas ELSE sizeReplicas
  BY Zenon DEF MapClusterRequest, WorkerReplicas

\* What the API server takes can be rendered.
LEMMA RenderingSafe == ConfigInv => EveryRequestRenders
  <1> SUFFICES ASSUME ConfigInv, config # Unset
               PROVE  /\ Renders(config)
                      /\ stored.clusterSize \in DOMAIN clusterSizeMap
                      /\ \A n \in DOMAIN config.networks : config.networks[n] # ""
                      /\ config.controlPlaneReplicas \in 1..5
                      /\ config.workerReplicas \in 0..100
    BY DEF EveryRequestRenders
  <1>1. Admits(stored) /\ config = MapClusterRequest(stored)
    BY StoredFields
  <1>2. Renders(config)
    <2>1. config.workerZones = WorkerZones(stored)
      BY <1>1 DEF MapClusterRequest
    <2>2. \A z : GetAWSAvailabilityZones(z) # <<>>
      BY DEF GetAWSAvailabilityZones
    <2> QED
      BY <2>1, <2>2 DEF Renders, WorkerZones
  <1>3. stored.clusterSize \in DOMAIN clusterSizeMap
    BY <1>1 DEF Admits, Sizes, clusterSizeMap
  <1>4. \A n \in DOMAIN config.networks : config.networks[n] # ""
    <2>1. config.networks = [n \in DOMAIN defaultNetworks |->
                               IF stored.networking # Unset /\ stored.networking[n] # ""
                               THEN stored.networking[n] ELSE defaultNetworks[n]]
      BY <1>1 DEF MapClusterRequest
    <2>2. DOMAIN defaultNetworks =
            {"clusterNetworkCIDR", "serviceNetworkCIDR", "machineNetworkCIDR"}
      BY DEF defaultNetworks
    <2>3. /\ defaultNetworks.clusterNetworkCIDR # "" /\ defaultNetworks.serviceNetworkCIDR # ""
          /\ defaultNetworks.machineNetworkCIDR # ""
      BY DEF defaultNetworks
    <2> QED
      BY <2>1, <2>2, <2>3
  <1>5. config.controlPlaneReplicas \in 1..5
    <2>1. stored.controlPlane # Unset => stored.controlPlane.replicas \in 1..5
      BY <1>1 DEF Admits
    <2> QED
      BY <1>1, <2>1, ReplicasMapped DEF sizeReplicas
  <1>6. config.workerReplicas \in 0..100
    <2>1. stored.workers # Unset => stored.workers.replicas \in 0..100
      BY <1>1 DEF Admits
    <2> QED
      BY <1>1, <2>1, ReplicasMapped DEF sizeReplicas
  <1> QED
    BY <1>2, <1>3, <1>4, <1>5, <1>6

\* The counts are those asked for.
LEMMA CountsSafe == ConfigInv => CountsAsAsked
  <1> SUFFICES ASSUME ConfigInv, config # Unset
               PROVE  /\ config.controlPlaneReplicas =
                           IF Asked(manifest.controlPlane) THEN manifest.controlPlane.replicas
                           ELSE sizeReplicas
                      /\ config.workerReplicas =
                           IF Asked(manifest.workers) THEN manifest.workers.replicas
                           ELSE sizeReplicas
    BY DEF CountsAsAsked
  <1>1. /\ manifest \in Manifests /\ stored = WithDefaults(manifest)
        /\ Admits(stored) /\ config = MapClusterRequest(stored)
    BY StoredFields
  <1>2. /\ manifest.controlPlane \in ControlPlanes \union {Unset}
        /\ manifest.workers \in WorkerBlocks \union {Unset}
    BY <1>1 DEF Manifests
  <1>3. /\ stored.controlPlane = NodeDefaults(manifest.controlPlane, "m5.xlarge")
        /\ stored.workers = NodeDefaults(manifest.workers, "m5.2xlarge")
    BY <1>1, Defaults
  <1>4. stored.controlPlane # Unset => stored.controlPlane.replicas \in 1..5
    BY <1>1 DEF Admits
  <1>5. config.controlPlaneReplicas = IF stored.controlPlane # Unset
                                      THEN stored.controlPlane.replicas ELSE sizeReplicas
    BY <1>1, <1>4, ReplicasMapped
  <1>6. config.workerReplicas = IF stored.workers # Unset
                                THEN stored.workers.replicas ELSE sizeReplicas
    BY <1>1, ReplicasMapped
  <1> QED
    BY <1>2, <1>3, <1>5, <1>6, ControlPlaneDefaults, WorkersDefaults
    DEF Asked, Default, sizeReplicas

\* The nodes are those asked for.
LEMMA NodesSafe == ConfigInv => NodesAsAsked
  <1> DEFINE base == SpecialNodes(manifest.requestType)
  <1> SUFFICES ASSUME ConfigInv, config # Unset
               PROVE  /\ TypeAsAsked(config.controlPlaneType, manifest.controlPlane,
                                     base.controlPlane)
                      /\ TypeAsAsked(config.workerType, manifest.workers, base.workers)
    BY DEF NodesAsAsked
  <1>1. /\ manifest \in Manifests /\ stored = WithDefaults(manifest)
        /\ Admits(stored) /\ config = MapClusterRequest(stored)
    BY StoredFields
  <1>2. /\ manifest.controlPlane \in ControlPlanes \union {Unset}
        /\ manifest.workers \in WorkerBlocks \union {Unset}
    BY <1>1 DEF Manifests
  <1>3. /\ stored.controlPlane = NodeDefaults(manifest.controlPlane, "m5.xlarge")
        /\ stored.workers = NodeDefaults(manifest.workers, "m5.2xlarge")
        /\ stored.clusterSize = manifest.clusterSize
        /\ stored.requestType = manifest.requestType
    BY <1>1, Defaults
  <1>4. base = BaseNodes(stored)
    <2>1. stored.clusterSize \in DOMAIN clusterSizeMap
      BY <1>1 DEF Admits, Sizes, clusterSizeMap
    <2> QED
      BY <1>3, <2>1 DEF SpecialNodes, BaseNodes, GetClusterSizeConfig,
                        requestTypeInstanceOverrides
  <1>5. /\ config.controlPlaneType = InstanceType(stored.controlPlane, base.controlPlane)
        /\ config.workerType = InstanceType(stored.workers, base.workers)
    BY <1>1, <1>4 DEF MapClusterRequest
  <1> HIDE DEF base
  <1>6. /\ manifest.controlPlane # Unset => manifest.controlPlane.instanceType # ""
        /\ manifest.workers # Unset => manifest.workers.instanceType # ""
    BY <1>2, ConfigAssumption DEF ConfigAssumption
  <1>7. TypeAsAsked(config.controlPlaneType, manifest.controlPlane, base.controlPlane)
    <2>1. manifest.controlPlane = Unset <=> stored.controlPlane = Unset
      BY <1>2, <1>3, ControlPlaneDefaults
    <2>2. manifest.controlPlane # Unset =>
            stored.controlPlane.instanceType =
              Default(manifest.controlPlane.instanceType, "m5.xlarge")
      BY <1>2, <1>3, ControlPlaneDefaults
    <2> QED
      BY <1>5, <1>6, <2>1, <2>2 DEF TypeAsAsked, InstanceType, Default
  <1>8. TypeAsAsked(config.workerType, manifest.workers, base.workers)
    <2>1. manifest.workers = Unset <=> stored.workers = Unset
      BY <1>2, <1>3, WorkersDefaults
    <2>2. manifest.workers # Unset =>
            stored.workers.instanceType = Default(manifest.workers.instanceType, "m5.2xlarge")
      BY <1>2, <1>3, WorkersDefaults
    <2> QED
      BY <1>5, <1>6, <2>1, <2>2 DEF TypeAsAsked, InstanceType, Default
  <1> QED
    BY <1>7, <1>8

\* The version is that of the image set.
LEMMA VersionSafe == ConfigInv => VersionMatchesImage
  <1> SUFFICES ASSUME ConfigInv, config # Unset, config.version.imageSetRef.form = "image"
               PROVE  /\ config.version.openshiftVersion =
                           Number(config.version.imageSetRef.number)
                      /\ ~config.version.imageSetRef.padded
    BY DEF VersionMatchesImage
  <1>1. /\ manifest \in Manifests /\ stored = WithDefaults(manifest)
        /\ config = MapClusterRequest(stored)
    BY StoredFields
  <1>2. stored.openshiftVersion \in VersionText
    <2>1. ImageSet(<<4, 20, 10>>) \in VersionText
      <3>1. <<4, 20, 10>> \in Seq(Nat)
        OBVIOUS
      <3>2. "image" \in Forms
        BY DEF Forms
      <3> QED
        BY <3>1, <3>2 DEF ImageSet, Text, VersionText
    <2>2. manifest.openshiftVersion \in VersionText \union {Unset}
      BY <1>1 DEF Manifests
    <2> QED
      BY <1>1, <2>1, <2>2, Defaults DEF Default
  <1>3. config.version = MapVersionToImageSet(stored.openshiftVersion)
    BY <1>1 DEF MapClusterRequest
  <1> DEFINE v == TrimSpace(stored.openshiftVersion)
  <1>4. v \in VersionText /\ ~v.padded
    BY <1>2 DEF TrimSpace, VersionText
  <1>5. CASE isVersionNumber(v)
    BY <1>3, <1>5 DEF MapVersionToImageSet, ImageSet, Text
  <1>6. CASE ~isVersionNumber(v) /\ v.form = "image"
    BY <1>3, <1>4, <1>6 DEF MapVersionToImageSet
  <1>7. CASE ~isVersionNumber(v) /\ v.form # "image"
    BY <1>3, <1>4, <1>7 DEF MapVersionToImageSet
  <1> QED
    BY <1>5, <1>6, <1>7

\* The API server takes every lab that the poller finds valid, unless its
\* request type is not a label; and every request it takes is rendered, with
\* the counts, nodes and version asked for (MapLabToClusterRequest,
\* MapClusterRequest, GenerateClusterFiles).
THEOREM ConfigSafety ==
  Spec => [](/\ ConfigTypeOK /\ ValidLabIsTaken /\ EveryRequestRenders
             /\ CountsAsAsked /\ NodesAsAsked /\ VersionMatchesImage)
  <1>1. ConfigInv => /\ ConfigTypeOK /\ ValidLabIsTaken /\ EveryRequestRenders
                     /\ CountsAsAsked /\ NodesAsAsked /\ VersionMatchesImage
    BY RenderingSafe, CountsSafe, NodesSafe, VersionSafe DEF ConfigInv
  <1> QED
    BY InitConfig, NextConfig, <1>1, PTL DEF Spec
=============================================================================
