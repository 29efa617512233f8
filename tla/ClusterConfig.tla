--------------------------- MODULE ClusterConfig ---------------------------
(***************************************************************************)
(* The way of one ClusterRequest through the functions of Mappers: the     *)
(* poller makes it from a row, or a user from a manifest; the API server   *)
(* fills in defaults and validates; the user edits it field by field; the  *)
(* controller maps and renders what is stored (handleApproved).            *)
(***************************************************************************)
EXTENDS Mappers

CONSTANTS
  Names,          \* cluster names, DNS labels or not
  Regions,        \* database regions and others
  RequestTypes,   \* request types, labels or not
  Versions,       \* version strings
  ControlPlanes,  \* controlPlane blocks of manifests, and Unset
  WorkerBlocks,   \* workers blocks of manifests, and Unset
  Networkings     \* networking blocks of manifests, and Unset

\* A manifest as its author wrote it: fields with a default may be Unset.  A
\* block with an empty instance type, in an object that has no finalizer yet,
\* counts as one that leaves it out: the operator's client leaves empty fields
\* out when it writes the object back to add the finalizer (omitempty), and the
\* API server fills in its default.  An empty type that an edit puts in later
\* stays, as only the status is written then; such edits are left out.
Manifests ==
  [clusterName : Names, environment : {"development", "staging", "production"},
   openshiftVersion : VersionText \union {Unset}, clusterSize : Sizes \union {"huge"},
   cloudProvider : {"aws", Unset}, region : Regions, requestType : RequestTypes \union {""},
   controlPlane : ControlPlanes \union {Unset}, workers : WorkerBlocks \union {Unset},
   networking : Networkings \union {Unset}]

ASSUME ConfigAssumption ==
  /\ Unset \notin Manifests
  /\ Versions \in SUBSET VersionText
  /\ \A b \in ControlPlanes \ {Unset} :
       /\ DOMAIN b = {"instanceType", "replicas"} /\ b.instanceType # ""
       /\ b.replicas \in Int \union {Unset}
       /\ NodeDefaults(b, "m5.xlarge") # Unset
  /\ \A b \in WorkerBlocks \ {Unset} :
       /\ DOMAIN b = {"instanceType", "replicas", "zones"} /\ b.instanceType # ""
       /\ b.replicas \in Int \union {Unset}
       /\ NodeDefaults(b, "m5.2xlarge") # Unset
  /\ \A b \in Networkings \ {Unset} : DOMAIN b = DOMAIN defaultNetworks

Labs ==
  [clusterName : Names, clusterSize : Sizes \union {"huge"}, region : Regions,
   primaryEmail : {"", "someone"}, hold : {0, 1}, requestType : RequestTypes,
   openshiftVersion : Versions \union {EmptyText}]

VARIABLES
  manifest,  \* what was asked for in the stored object, before defaults
  stored,    \* the spec the API server stores
  config,    \* what the last rendering was made from
  refused    \* the valid lab whose object the API server refused last

vars == <<manifest, stored, config, refused>>

Init == manifest = Unset /\ stored = Unset /\ config = Unset /\ refused = Unset

\* Mutant of Submit: the CRD has defaults and no validation.
SubmitUnvalidated(m) ==
  /\ manifest' = m
  /\ stored' = WithDefaults(m)
  /\ config' = Unset
  /\ refused' = Unset

\* The API server takes the manifest, or refuses it and changes nothing.
Submit(m) ==
  /\ Admits(WithDefaults(m))
  /\ manifest' = m
  /\ stored' = WithDefaults(m)
  /\ config' = Unset
  /\ refused' = Unset

\* processLab: validate, map, create.  The request type is also a label.
SyncLab(lab) ==
  /\ stored = Unset
  /\ ValidateLab(lab)
  /\ LET m == MapLabToClusterRequest(lab) IN
     \/ lab.requestType \in LabelValues /\ Submit(m)
     \/ /\ ~(lab.requestType \in LabelValues /\ Admits(WithDefaults(m)))
        /\ refused' = lab
        /\ UNCHANGED <<manifest, stored, config>>

\* A user's manifest names what is required and leaves the rest out.
Create(name, size, region) ==
  /\ stored = Unset
  /\ Submit([clusterName |-> name, environment |-> "staging", openshiftVersion |-> Unset,
             clusterSize |-> size, cloudProvider |-> Unset, region |-> region,
             requestType |-> "", controlPlane |-> Unset, workers |-> Unset,
             networking |-> Unset])

Edit ==
  /\ stored # Unset
  /\ \/ \E s \in Sizes \union {"huge"} : Submit([manifest EXCEPT !.clusterSize = s])
     \/ \E t \in RequestTypes : Submit([manifest EXCEPT !.requestType = t])
     \/ \E v \in Versions : Submit([manifest EXCEPT !.openshiftVersion = v])
     \/ \E b \in ControlPlanes : Submit([manifest EXCEPT !.controlPlane = b])
     \/ \E b \in WorkerBlocks : Submit([manifest EXCEPT !.workers = b])
     \/ \E b \in Networkings : Submit([manifest EXCEPT !.networking = b])

\* handleApproved maps what is stored and renders the files of it.
Generate ==
  /\ stored # Unset
  /\ config' = MapClusterRequest(stored)
  /\ UNCHANGED <<manifest, stored, refused>>

Next ==
  \/ \E lab \in Labs : SyncLab(lab)
  \/ \E n \in Names, s \in Sizes, r \in Regions : Create(n, s, r)
  \/ Edit
  \/ Generate

Spec == Init /\ [][Next]_vars

---------------------------------------------------------------------------
(* Properties                                                              *)

\* What is stored is what was asked for with defaults, and what is rendered is
\* made from what is stored.
ConfigTypeOK ==
  /\ manifest \in Manifests \union {Unset}
  /\ stored = IF manifest = Unset THEN Unset ELSE WithDefaults(manifest)
  /\ stored # Unset => Admits(stored)
  /\ config # Unset => stored # Unset /\ config = MapClusterRequest(stored)
  /\ refused # Unset => refused \in Labs /\ ValidateLab(refused)

\* ValidateLab is as strict as the API server: a lab it passes is refused for
\* its request type at most, which is a label and which it does not look at
\* ("so we don't retry invalid data", dbsync_controller.go:121).
ValidLabIsTaken == refused # Unset => refused.requestType \notin LabelValues

\* Whatever the API server takes can be rendered: no user can write a request
\* that fails in the templates (the index of the first zone, the fallback for
\* unknown sizes, networks left out).
EveryRequestRenders ==
  config # Unset =>
    /\ Renders(config)
    /\ stored.clusterSize \in DOMAIN clusterSizeMap
    /\ \A n \in DOMAIN config.networks : config.networks[n] # ""
    /\ config.controlPlaneReplicas \in 1..5
    /\ config.workerReplicas \in 0..100

\* Each count is the one asked for, none included, and otherwise that of the
\* size, although the API server puts a default of its own into every block
\* that leaves the count out.
Asked(block) == block # Unset /\ block.replicas # Unset

CountsAsAsked ==
  config # Unset =>
    /\ config.controlPlaneReplicas =
         IF Asked(manifest.controlPlane) THEN manifest.controlPlane.replicas ELSE sizeReplicas
    /\ config.workerReplicas =
         IF Asked(manifest.workers) THEN manifest.workers.replicas ELSE sizeReplicas

\* A special workload gets its nodes, whatever the size, where the manifest says
\* nothing of nodes; an instance type that is asked for wins over both.  (With a
\* block that leaves the type out, the default of the CRD wins.)
TypeAsAsked(type, block, base) ==
  /\ block = Unset => type = base
  /\ block # Unset /\ block.instanceType # Unset => type = block.instanceType

SpecialNodes(requestType) ==
  CASE requestType = "ocpv" -> Nodes("m6a.metal", "m6a.metal")
    [] requestType \in {"rhoai", "nvidia"} -> Nodes("m7i.xlarge", "g5.2xlarge")
    [] OTHER -> clusterSizeMap[manifest.clusterSize]

NodesAsAsked ==
  config # Unset =>
    LET base == SpecialNodes(manifest.requestType) IN
    /\ TypeAsAsked(config.controlPlaneType, manifest.controlPlane, base.controlPlane)
    /\ TypeAsAsked(config.workerType, manifest.workers, base.workers)

\* The version in the files is the version of the image set in them, however
\* the request names it (an alias, a release, an image set, with blanks).
VersionMatchesImage ==
  config # Unset /\ config.version.imageSetRef.form = "image" =>
    /\ config.version.openshiftVersion = Number(config.version.imageSetRef.number)
    /\ ~config.version.imageSetRef.padded
=============================================================================
