--------------------- MODULE MCClusterRequestController ---------------------
(* Small instances of ClusterRequestController.                            *)
EXTENDS ClusterRequestController

CONSTANTS r1, c1, c2, f1, f2, s1, s2

None == [e \in Events |-> 0]

\* One request, two specs that name different clusters and have different files.
OneRequest == {r1}
OneCluster == {c1}
TwoClusters == {c1, c2}
TwoSpecs == {s1, s2}
ClusterEach == [s \in {s1, s2} |-> IF s = s1 THEN c1 ELSE c2]
SameCluster == [s \in {s1, s2} |-> c1]
TwoFiles == {f1, f2}
RenderEach == [s \in {s1, s2} |-> IF s = s1 THEN f1 ELSE f2]
RenderSome == [s \in {s1, s2} |-> IF s = s1 THEN f1 ELSE NoFiles]

\* Everything that can happen to one request, once; copies of secrets can be
\* refused at every attempt.
FaultBudget == [None EXCEPT !["create"] = 1, !["edit"] = 1, !["delete"] = 1,
                            !["hive"] = 1, !["nsDelete"] = 1, !["fault"] = 1,
                            !["restart"] = 1, !["secrets"] = 1]

\* Of these, the creation and at most three more happen in one behaviour.
ThreeEvents == Cardinality({e \in Events : budget[e] < Budget[e]}) <= 4

\* One spec, one rendering.
OneSpec == {s1}
OneFile == {f1}
FirstCluster == [s \in {s1} |-> c1]
RenderOne == [s \in {s1} |-> f1]

\* For liveness: a deletion, a failure of the network, of the disk, a restart,
\* and somebody else who pushes.
LivenessBudget == [None EXCEPT !["create"] = 1, !["delete"] = 1, !["fault"] = 1,
                               !["diskFault"] = 1, !["othersPush"] = 1, !["restart"] = 1]

\* Nothing fails but what a run is about.
HiveBudget == [None EXCEPT !["create"] = 1, !["hive"] = 1]
DivergeBudget == [None EXCEPT !["create"] = 1, !["othersPush"] = 1]
=============================================================================
