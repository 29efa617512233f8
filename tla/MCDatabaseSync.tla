--------------------------- MODULE MCDatabaseSync ---------------------------
(* Small instances of DatabaseSync.                                        *)
EXTENDS DatabaseSync

CONSTANTS d1, n1, n2

OneReplica == {d1}
OneName == {n1}
TwoNames == {n1, n2}

Never == [e \in SyncEvents |-> 0]

\* Two labs want one name, which may be taken by hand.
SyncFaults ==
  [Never EXCEPT !["manual"] = 1, !["fault"] = 1, !["restart"] = 1]

\* A row is edited twice and an object deleted while the poller works on its copies
\* of them, or restarts.
SyncEdits == [Never EXCEPT !["edit"] = 2, !["hold"] = 1, !["delete"] = 1, !["restart"] = 1]

\* A run is about one event.
OneSyncFault == [Never EXCEPT !["fault"] = 1]
=============================================================================
