---------------------------- MODULE SecretMirror ----------------------------
(***************************************************************************)
(* What the owners of a cluster's namespace and of the source secrets can  *)
(* rely on, whatever interrupts the copying and however often it is done   *)
(* again: the operator removes nothing, leaves the sources alone, and      *)
(*                                                                         *)
(*   - puts into a copy only what it has read from the source of that      *)
(*     name, and only where the namespace is;                              *)
(*   - replaces a copy only if it has read the copy as it is, so that      *)
(*     nothing is overwritten that it does not know of;                    *)
(*   - never changes the type of a copy.                                   *)
(***************************************************************************)
EXTENDS Naturals

CONSTANTS Names, TypeOf, Missing

VARIABLES
  namespace,    \* the cluster's namespace exists
  source,       \* the source secrets
  copy,         \* their copies in the namespace
  sourcesRead,  \* names and contents of sources, as read
  copiesRead    \* names and copies, as read

stores == <<namespace, source, copy>>
memory == <<sourcesRead, copiesRead>>
mirrorVars == <<stores, memory>>

Present(s) == copy[s].data # Missing

Sources == {<<s, source[s]>> : s \in Names}
Copies  == {<<s, copy[s]>> : s \in Names}

MirrorInit ==
  /\ ~namespace
  /\ \A s \in Names : ~Present(s)
  /\ sourcesRead \subseteq Sources /\ copiesRead \subseteq Copies

\* Some, all or nothing is forgotten.
Forgets == sourcesRead' \subseteq sourcesRead /\ copiesRead' \subseteq copiesRead

Reads ==
  /\ sourcesRead' \subseteq sourcesRead \union Sources
  /\ copiesRead' \subseteq copiesRead \union Copies
  /\ UNCHANGED stores

MakesNamespace ==
  /\ ~namespace /\ namespace' = TRUE
  /\ UNCHANGED <<source, copy>>
  /\ Forgets

Puts(s, contents) ==
  /\ copy' = [copy EXCEPT ![s] = [version |-> copy[s].version + 1, data |-> contents]]
  /\ UNCHANGED <<namespace, source>>
  /\ Forgets

MakesCopy(s, contents) ==
  /\ namespace /\ ~Present(s) /\ contents # Missing
  /\ Puts(s, contents)

ReplacesCopy(s, contents) ==
  /\ Present(s) /\ contents \notin {Missing, copy[s].data}
  /\ <<s, copy[s]>> \in copiesRead
  /\ TypeOf[contents] = TypeOf[copy[s].data]
  /\ Puts(s, contents)

Operator ==
  \/ Reads
  \/ MakesNamespace
  \/ \E r \in sourcesRead : MakesCopy(r[1], r[2]) \/ ReplacesCopy(r[1], r[2])

SourceChanges(s) ==
  /\ source' = [source EXCEPT ![s] = source'[s]]
  /\ UNCHANGED <<namespace, copy, memory>>

\* Others remove copies, and the namespace with all of them.
Removed(S) ==
  /\ copy' = [s \in Names |-> IF s \in S /\ Present(s)
                              THEN [version |-> copy[s].version + 1, data |-> Missing]
                              ELSE copy[s]]
  /\ namespace' \in {namespace, FALSE}
  /\ ~namespace' => S = Names
  /\ UNCHANGED <<source, memory>>

MirrorNext ==
  \/ Operator
  \/ \E s \in Names : SourceChanges(s)
  \/ \E S \in SUBSET Names : Removed(S)

MirrorSpec == MirrorInit /\ [][MirrorNext]_mirrorVars
=============================================================================
