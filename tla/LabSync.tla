------------------------------ MODULE LabSync ------------------------------
(***************************************************************************)
(* What the database sync promises, however many replicas run it and       *)
(* whatever fails: how it changes the two stores that it stands between.   *)
(*                                                                         *)
(* It acts on what it has read, at any time before, and has not forgotten; *)
(* it remembers nothing but what it has read or concluded from that:       *)
(*                                                                         *)
(*   - an object is made only under a free name, and only for a valid lab  *)
(*     that the API server accepts and that asked for that name when it    *)
(*     was waiting for one;                                                *)
(*   - a lab is marked only when an object was made for it;                *)
(*   - a lab is failed only if it asked for something invalid, or for a    *)
(*     name that an object of another lab had;                             *)
(*   - a state is reported to a lab only if an object of the lab had it;   *)
(*   - nothing else is written: no mark is taken back, no report or mark   *)
(*     touches the rest of the row, no object is changed or removed.       *)
(***************************************************************************)
CONSTANTS Labs, Names

VARIABLES
  rows,      \* the labs table
  objects,   \* ClusterRequests, by name
  created,   \* labs that an object was made for
  batch,     \* what waiting labs asked for, as read
  copies,    \* names and objects, as read
  refused,   \* labs found to ask for what they cannot have
  reports    \* labs and states that their objects were found to have

stores == <<rows, objects, created>>
memory == <<batch, copies, refused, reports>>
labSyncVars == <<stores, memory>>

LabSyncInit ==
  /\ \A l \in Labs : ~rows[l].exists /\ ~rows[l].synced
  /\ \A n \in Names : ~objects[n].exists /\ objects[n].labID = 0
  /\ created = {}
  /\ batch = {} /\ refused = {} /\ reports = {}
  /\ copies \subseteq {<<n, objects[n]>> : n \in Names}

Waiting(l) ==
  /\ rows[l].exists /\ ~rows[l].synced /\ ~rows[l].hold
  /\ rows[l].state \in {"pending", "approved"}

Asked(l) == [id |-> l, name |-> rows[l].name, valid |-> rows[l].valid,
             accepted |-> rows[l].accepted]

\* Some, all or nothing is forgotten: a call returns, or a process dies.
Forgets == /\ batch' \subseteq batch /\ copies' \subseteq copies
           /\ refused' \subseteq refused /\ reports' \subseteq reports

Reads ==
  /\ batch' \subseteq batch \union {Asked(l) : l \in {m \in Labs : Waiting(m)}}
  /\ copies' \subseteq copies \union {<<n, objects[n]>> : n \in Names}
  /\ refused' \subseteq refused /\ reports' \subseteq reports
  /\ UNCHANGED stores

\* An object of another lab had the name that s asks for.
Taken(s) ==
  \E o \in {c[2] : c \in {d \in copies : d[1] = s.name}} :
    o.exists /\ o.labID \notin {0, s.id}

Refuses(s) ==
  /\ ~s.valid \/ Taken(s)
  /\ refused' \subseteq refused \union {s.id}
  /\ UNCHANGED <<stores, batch, copies, reports>>

Notes(o) ==
  /\ o.exists /\ o.labID # 0
  /\ o.state \in {"git-committed", "provisioning", "complete", "failed"}
  /\ reports' \subseteq reports \union {<<o.labID, o.state>>}
  /\ UNCHANGED <<stores, batch, copies, refused>>

Creates(s) ==
  /\ s.valid /\ s.accepted /\ ~objects[s.name].exists
  /\ objects' = [objects EXCEPT ![s.name] = [exists |-> TRUE, labID |-> s.id, state |-> ""]]
  /\ created' = created \union {s.id}
  /\ UNCHANGED rows
  /\ Forgets

Marks(l) ==
  /\ rows' = [rows EXCEPT ![l].synced = TRUE]
  /\ UNCHANGED <<objects, created>>
  /\ Forgets

Sets(l, state) ==
  /\ rows' = [rows EXCEPT ![l].state = state]
  /\ UNCHANGED <<objects, created>>
  /\ Forgets

Operator ==
  \/ Reads
  \/ \E s \in batch : Refuses(s) \/ Creates(s)
  \/ \E c \in copies : Notes(c[2])
  \/ \E l \in created : Marks(l)
  \/ \E l \in refused : Sets(l, "failed")
  \/ \E report \in reports : Sets(report[1], report[2])

\* Others approve labs, edit what they ask for and hold them, and neither mark
\* them nor set other states.
RowChanges(l) ==
  /\ rows' = [rows EXCEPT ![l] = rows'[l]]
  /\ rows'[l].exists /\ rows'[l].synced = rows[l].synced
  /\ \/ rows'[l].state = rows[l].state
     \/ rows[l].state = "pending" /\ rows'[l].state = "approved"
  /\ UNCHANGED <<objects, created, memory>>

\* Others move objects along their states, remove them, and make some by hand.
ObjectChanges(n) ==
  /\ objects' = [objects EXCEPT ![n] = objects'[n]]
  /\ \/ /\ objects[n].exists /\ objects'[n].exists
        /\ objects'[n].labID = objects[n].labID
     \/ objects[n].exists # objects'[n].exists /\ objects'[n].labID = 0
  /\ UNCHANGED <<rows, created, memory>>

LabSyncNext ==
  \/ Operator
  \/ \E l \in Labs : RowChanges(l)
  \/ \E n \in Names : ObjectChanges(n)

LabSyncSpec == LabSyncInit /\ [][LabSyncNext]_labSyncVars
=============================================================================
