---------------------------- MODULE MCGitClient ----------------------------
(* GitClient with two clusters, two renderings, and every failure.        *)
EXTENDS GitClient

CONSTANTS c1, c2, f1, f2

MCClusters == {c1, c2}
MCContents == {f1, f2}

Events0 == [e \in Events |-> 0]
MCBudget ==
  [Events0 EXCEPT !["call"] = 4, !["fault"] = 2, !["diskFault"] = 1,
                  !["othersPush"] = 2, !["restart"] = 1]

\* For staging that fails: the two calls it takes.
MCDiskBudget == [Events0 EXCEPT !["call"] = 2, !["diskFault"] = 1]
=============================================================================
