---------------------------- MODULE DatabaseSync ----------------------------
(***************************************************************************)
(* internal/controller/dbsync_controller.go with the queries it makes      *)
(* (internal/database): a poller that creates a ClusterRequest for each    *)
(* row of the labs table, and a controller that writes the states of       *)
(* ClusterRequests back to the table.                                      *)
(*                                                                         *)
(* Both run in every replica that is active: one with leader election,     *)
(* all of them without.  The poller works on a batch of rows it has read   *)
(* before, both read objects from the replica's informer cache, and each   *)
(* statement and each call of the API server is an action.                 *)
(*                                                                         *)
(* A lab is identified by its ID; labs are numbered as they were created.  *)
(* Everything ValidateLab looks at, but for hold, is the flag valid; what  *)
(* else the API server asks of the object made of a row is accepted.       *)
(***************************************************************************)
EXTENDS Naturals, FiniteSets, StateArrows

CONSTANTS
  Replicas,    \* active replicas
  N,           \* how many labs there can be
  Names,       \* cluster names, which name the objects as well
  BatchSize,   \* SYNC_BATCH_SIZE
  SyncBudget   \* how often each event of the environment may happen

SyncEvents == {"edit", "hold", "manual", "delete", "fault", "restart"}

ASSUME SyncAssumption ==
  /\ N \in Nat
  /\ BatchSize \in Nat \ {0}
  /\ Names # {}
  /\ SyncBudget \in [SyncEvents -> Nat]

Labs == 1..N

LabStates == {"pending", "approved", "git-committed", "provisioning", "complete", "failed"}

\* What the column can hold: "state varchar(12) NOT NULL" (DATABASE_SYNC_DESIGN.md).
Storable == LabStates \ {"git-committed"}

\* A row of the table labs.
Lab == [exists : BOOLEAN, state : Storable, name : Names, valid : BOOLEAN,
        accepted : BOOLEAN, hold : BOOLEAN, synced : BOOLEAN]

\* A ClusterRequest: spec.labId, which the label lab-id repeats and which is 0
\* in objects made by hand, and status.state.
SyncObject == [exists : BOOLEAN, labID : 0..N, state : LabStates \union {""}]

NoObject == [exists |-> FALSE, labID |-> 0, state |-> ""]

\* What the poller keeps of a row; its other uses of the row change nothing.
Snapshot == [id : Labs, name : Names, valid : BOOLEAN, accepted : BOOLEAN]

\* The statement the status watcher is about to make, for the object of a name.
Update == [name : Names, lab : Labs, state : LabStates]

NoUpdate == [lab |-> 0]

VARIABLES
  labs,      \* the table
  objects,   \* ClusterRequests in the sync namespace, by name
  created,   \* labs for which an object has ever been created
  informer,  \* each replica's cache of the objects
  step,      \* the next call of each replica's poller
  todo,      \* the rest of its batch, the lab in hand included
  queue,     \* the work queue of each replica's status watcher
  update,    \* its next statement
  left       \* what is left of SyncBudget

pollerVars  == <<step, todo>>
watcherVars == <<queue, update>>
vars == <<labs, objects, created, informer, step, todo, queue, update, left>>

SyncTypeOK ==
  /\ labs \in [Labs -> Lab]
  /\ objects \in [Names -> SyncObject]
  /\ created \in SUBSET Labs
  /\ informer \in [Replicas -> [Names -> SyncObject]]
  /\ step \in [Replicas -> {"idle", "decide", "fail", "mark", "create"}]
  /\ todo \in [Replicas -> SUBSET Snapshot]
  /\ \A d \in Replicas : step[d] = "idle" <=> todo[d] = {}
  /\ queue \in [Replicas -> SUBSET Names]
  /\ update \in [Replicas -> Update \union {NoUpdate}]
  /\ left \in [SyncEvents -> Nat]

Init ==
  /\ labs = [l \in Labs |-> [exists |-> FALSE, state |-> "pending",
                             name |-> CHOOSE n \in Names : TRUE, valid |-> TRUE,
                             accepted |-> TRUE, hold |-> FALSE, synced |-> FALSE]]
  /\ objects = [n \in Names |-> NoObject]
  /\ created = {}
  /\ informer = [d \in Replicas |-> objects]
  /\ step = [d \in Replicas |-> "idle"]
  /\ todo = [d \in Replicas |-> {}]
  /\ queue = [d \in Replicas |-> {}]
  /\ update = [d \in Replicas |-> NoUpdate]
  /\ left = SyncBudget

Spend(event) == left[event] > 0 /\ left' = [left EXCEPT ![event] = @ - 1]

---------------------------------------------------------------------------
(* The poller                                                              *)

\* The condition of GetUnsyncedLabs.
Unsynced(l) ==
  /\ labs[l].exists /\ ~labs[l].synced /\ ~labs[l].hold
  /\ labs[l].state \in {"pending", "approved"}

\* The oldest of them, at most BatchSize.  The locks of the statement are gone
\* when it ends, so that nothing keeps a lab out of another replica's batch.
GetUnsyncedLabs ==
  {l \in Labs : Unsynced(l) /\ Cardinality({m \in 1..(l-1) : Unsynced(m)}) < BatchSize}

Selected(l) == [id |-> l, name |-> labs[l].name, valid |-> labs[l].valid,
                accepted |-> labs[l].accepted]

Fetch(d) ==
  /\ step[d] = "idle"
  /\ GetUnsyncedLabs # {}
  /\ todo' = [todo EXCEPT ![d] = {Selected(l) : l \in GetUnsyncedLabs}]
  /\ step' = [step EXCEPT ![d] = "decide"]
  /\ UNCHANGED <<labs, objects, created, informer, watcherVars, left>>

InHand(d) == CHOOSE lab \in todo[d] : \A other \in todo[d] : lab.id <= other.id

\* Mutant of Claimed: the lab's own object counts as well.
ClaimedByAny(d, lab) ==
  LET o == informer[d][lab.name] IN o.exists /\ o.labID # 0

\* Mutant of Claimed: nobody looks who the object belongs to.
ClaimedByNone(d, lab) == FALSE

\* Another lab has an object of this name.
Claimed(d, lab) ==
  LET o == informer[d][lab.name] IN o.exists /\ o.labID \notin {0, lab.id}

\* Mutant of Known: the label is not looked for.
KnownByName(d, lab) ==
  LET o == informer[d][lab.name] IN o.exists /\ o.labID = lab.id

\* The lab has an object, of this name or another.
Known(d, lab) == \E n \in Names : informer[d][n].exists /\ informer[d][n].labID = lab.id

\* processLab up to its first call: validation, and two looks at the cache.
Decide(d) ==
  LET lab == InHand(d) IN
  /\ step[d] = "decide"
  /\ step' = [step EXCEPT ![d] = IF ~lab.valid \/ Claimed(d, lab) THEN "fail"
                                 ELSE IF Known(d, lab) THEN "mark" ELSE "create"]
  /\ UNCHANGED <<labs, objects, created, informer, todo, watcherVars, left>>

\* Mutant of NextLab: the loop goes past the end of the batch.
NextLabPastEnd(d) ==
  /\ todo' = [todo EXCEPT ![d] = @ \ {InHand(d)}]
  /\ step' = [step EXCEPT ![d] = "decide"]

\* processLab returns, and the loop goes on to the next lab of the batch.
NextLab(d) ==
  /\ todo' = [todo EXCEPT ![d] = @ \ {InHand(d)}]
  /\ step' = [step EXCEPT ![d] = IF todo'[d] = {} THEN "idle" ELSE "decide"]

\* Mutant of SetState: the statement takes the mark back.
SetStateUnmarks(l, state) ==
  labs' = [labs EXCEPT ![l] = [@ EXCEPT !.state = state, !.synced = FALSE]]

\* UpdateLabK8sStatus sets the state, and only that.
SetState(l, state) == labs' = [labs EXCEPT ![l].state = state]

MarkLabAsSynced(l) == labs' = [labs EXCEPT ![l].synced = TRUE]

\* The API server takes the object, under a free name.
Create(lab) ==
  /\ lab.accepted
  /\ ~objects[lab.name].exists
  /\ objects' = [objects EXCEPT ![lab.name] = [exists |-> TRUE, labID |-> lab.id, state |-> ""]]
  /\ created' = created \union {lab.id}

FailLab(d) ==
  /\ step[d] = "fail"
  /\ SetState(InHand(d).id, "failed")
  /\ NextLab(d)
  /\ UNCHANGED <<objects, created, informer, watcherVars, left>>

MarkLab(d) ==
  /\ step[d] = "mark"
  /\ MarkLabAsSynced(InHand(d).id)
  /\ NextLab(d)
  /\ UNCHANGED <<objects, created, informer, watcherVars, left>>

CreateObject(d) ==
  /\ step[d] = "create"
  /\ Create(InHand(d))
  /\ step' = [step EXCEPT ![d] = "mark"]
  /\ UNCHANGED <<labs, informer, todo, watcherVars, left>>

\* Mutant of CreateRefused: whatever the answer, the lab is marked.
CreateRefusedMarks(d) ==
  /\ step[d] = "create"
  /\ ~InHand(d).accepted \/ objects[InHand(d).name].exists
  /\ step' = [step EXCEPT ![d] = "mark"]
  /\ UNCHANGED <<labs, objects, created, informer, todo, watcherVars, left>>

\* The API server refuses the object for what the row says (a request type that
\* is no label value), at every poll; or the name is taken, whoever made that
\* object.  processLab returns the error, and the row stays as it is.
CreateRefused(d) ==
  /\ step[d] = "create"
  /\ ~InHand(d).accepted \/ objects[InHand(d).name].exists
  /\ NextLab(d)
  /\ UNCHANGED <<labs, objects, created, informer, watcherVars, left>>

\* A call fails, with its effect or without.  The error is logged either way:
\* processLab swallows that of marking, the loop over the batch all others.
PollerCallFails(d) ==
  /\ Spend("fault")
  /\ \/ step[d] \in {"fail", "mark", "create"} /\ UNCHANGED <<labs, objects, created>>
     \/ step[d] = "fail" /\ SetState(InHand(d).id, "failed") /\ UNCHANGED <<objects, created>>
     \/ step[d] = "mark" /\ MarkLabAsSynced(InHand(d).id) /\ UNCHANGED <<objects, created>>
     \/ step[d] = "create" /\ Create(InHand(d)) /\ UNCHANGED labs
  /\ NextLab(d)
  /\ UNCHANGED <<informer, watcherVars>>

Poller(d) ==
  \/ Fetch(d) \/ Decide(d) \/ FailLab(d) \/ MarkLab(d)
  \/ CreateObject(d) \/ CreateRefused(d) \/ PollerCallFails(d)

---------------------------------------------------------------------------
(* The status watcher                                                      *)

SyncedStates == {"git-committed", "provisioning", "complete", "failed"}

Reported(o) == o.exists /\ o.labID # 0 /\ o.state \in SyncedStates

Reconcile(d, n) ==
  /\ update[d] = NoUpdate
  /\ n \in queue[d]
  /\ queue' = [queue EXCEPT ![d] = @ \ {n}]
  /\ LET o == informer[d][n] IN
     update' = IF Reported(o)
               THEN [update EXCEPT ![d] = [name |-> n, lab |-> o.labID, state |-> o.state]]
               ELSE update
  /\ UNCHANGED <<labs, objects, created, informer, pollerVars, left>>

UpdateLab(d) ==
  /\ update[d] # NoUpdate
  /\ update[d].state \in Storable
  /\ SetState(update[d].lab, update[d].state)
  /\ update' = [update EXCEPT ![d] = NoUpdate]
  /\ UNCHANGED <<objects, created, informer, pollerVars, queue, left>>

\* Mutant of UpdateFails: the error is logged and not returned.
UpdateFailsUnnoticed(d) ==
  /\ update[d] # NoUpdate
  /\ update[d].state \in Storable => Spend("fault")
  /\ update[d].state \notin Storable => UNCHANGED left
  /\ UNCHANGED labs
  /\ update' = [update EXCEPT ![d] = NoUpdate]
  /\ UNCHANGED <<objects, created, informer, pollerVars, queue>>

\* The value is too long, or the call fails, with its effect or without.  The
\* error is returned, and the object is queued again.
UpdateFails(d) ==
  /\ update[d] # NoUpdate
  /\ \/ update[d].state \notin Storable /\ UNCHANGED <<labs, left>>
     \/ update[d].state \in Storable /\ Spend("fault") /\ UNCHANGED labs
     \/ update[d].state \in Storable /\ Spend("fault") /\ SetState(update[d].lab, update[d].state)
  /\ queue' = [queue EXCEPT ![d] = @ \union {update[d].name}]
  /\ update' = [update EXCEPT ![d] = NoUpdate]
  /\ UNCHANGED <<objects, created, informer, pollerVars>>

Watch(d, n) ==
  /\ informer[d][n] # objects[n]
  /\ informer' = [informer EXCEPT ![d][n] = objects[n]]
  /\ queue' = [queue EXCEPT ![d] = @ \union {n}]
  /\ UNCHANGED <<labs, objects, created, pollerVars, update, left>>

\* The process dies; its successor, or the next leader, lists all objects.
Restart(d) ==
  /\ Spend("restart")
  /\ informer' = [informer EXCEPT ![d] = objects]
  /\ queue' = [queue EXCEPT ![d] = {n \in Names : objects[n].exists}]
  /\ update' = [update EXCEPT ![d] = NoUpdate]
  /\ todo' = [todo EXCEPT ![d] = {}]
  /\ step' = [step EXCEPT ![d] = "idle"]
  /\ UNCHANGED <<labs, objects, created>>

---------------------------------------------------------------------------
(* The Buffalo application, users and the ClusterRequest controller.       *)

\* What Buffalo writes of a row.
Written(row, name, valid, accepted) ==
  [row EXCEPT !.exists = TRUE, !.name = name, !.valid = valid, !.accepted = accepted]

Insert(l, name, valid, accepted) ==
  /\ \A m \in 1..(l-1) : labs[m].exists
  /\ ~labs[l].exists
  /\ labs' = [labs EXCEPT ![l] = Written(@, name, valid, accepted)]
  /\ UNCHANGED left

ApproveLab(l) ==
  /\ labs[l].exists /\ labs[l].state = "pending"
  /\ SetState(l, "approved")
  /\ UNCHANGED left

EditLab(l, name, valid, accepted) ==
  /\ labs[l].exists
  /\ Spend("edit")
  /\ labs' = [labs EXCEPT ![l] = Written(@, name, valid, accepted)]

HoldLab(l) ==
  /\ labs[l].exists
  /\ Spend("hold")
  /\ labs' = [labs EXCEPT ![l].hold = ~@]

\* A row that is not valid does not get as far as being refused, so that one
\* value of accepted is enough for it.
Buffalo ==
  /\ \E l \in Labs :
       \/ \E name \in Names, valid, accepted \in BOOLEAN :
            /\ valid \/ accepted
            /\ Insert(l, name, valid, accepted) \/ EditLab(l, name, valid, accepted)
       \/ ApproveLab(l)
       \/ HoldLab(l)
  /\ UNCHANGED <<objects, created, informer, pollerVars, watcherVars>>

\* The object of a name moves along an arrow: its controller or others move it.
Moves(n, arrows) ==
  /\ objects[n].exists
  /\ \E s \in LabStates : /\ <<objects[n].state, s>> \in arrows
                          /\ objects' = [objects EXCEPT ![n].state = s]
  /\ UNCHANGED <<labs, created, informer, pollerVars, watcherVars, left>>

CreateByHand(n) ==
  /\ ~objects[n].exists
  /\ Spend("manual")
  /\ objects' = [objects EXCEPT ![n] = [exists |-> TRUE, labID |-> 0, state |-> ""]]

DeleteObject(n) ==
  /\ objects[n].exists
  /\ Spend("delete")
  /\ objects' = [objects EXCEPT ![n] = NoObject]

Users ==
  /\ \E n \in Names : CreateByHand(n) \/ DeleteObject(n)
  /\ UNCHANGED <<labs, created, informer, pollerVars, watcherVars>>

Next ==
  \/ \E d \in Replicas : Poller(d) \/ UpdateLab(d) \/ UpdateFails(d) \/ Restart(d)
  \/ \E d \in Replicas, n \in Names : Reconcile(d, n) \/ Watch(d, n)
  \/ \E n \in Names : Moves(n, ControllerArrows) \/ Moves(n, OthersArrows)
  \/ Buffalo
  \/ Users

Spec == Init /\ [][Next]_vars

\* The ticker fires, the poller's calls return, events arrive, and the work
\* queue is first-in first-out.  The ClusterRequest controller takes a request
\* on from every state but failed: a request is retried there, or has used up
\* its retries and stays.  Nothing obliges users, Buffalo or failures.
Fairness ==
  /\ \A d \in Replicas :
       /\ WF_vars(Poller(d))
       /\ WF_vars(UpdateLab(d) \/ UpdateFails(d))
       /\ \A n \in Names : WF_vars(Watch(d, n)) /\ SF_vars(Reconcile(d, n))
  /\ \A n \in Names : WF_vars(Moves(n, ControllerArrows \ {<<"failed", "approved">>}))

FairSpec == Spec /\ Fairness

---------------------------------------------------------------------------
(* Properties                                                              *)

\* What the replicas have read and concluded, and have not yet acted on.
rowsRead    == UNION {todo[d] : d \in Replicas}
objectsRead == {<<n, informer[d][n]>> : n \in Names, d \in Replicas}
toFail      == {InHand(d).id : d \in {e \in Replicas : step[e] = "fail"}}
toReport    == {<<update[d].lab, update[d].state>> :
                  d \in {e \in Replicas : update[e] # NoUpdate}}

Abstract == INSTANCE LabSync WITH
  rows <- labs, batch <- rowsRead, copies <- objectsRead, refused <- toFail,
  reports <- toReport

\* Replicas, batches, caches and failing calls come to what LabSync says: each
\* write to the table and to the cluster is for a reason that was read before,
\* and changes nothing else (processLab, Reconcile and their statements).
ImplementsLabSync == Abstract!LabSyncSpec

\* "True if ClusterRequest CR has been created in Kubernetes": a lab is marked
\* only if an object was created for it, although marking and creating are
\* separate calls on stale copies (processLab).
SyncedWasCreated == \A l \in Labs : labs[l].synced => l \in created

\* The poller fails a lab only when no object of the lab is there: a cluster in
\* progress is not declared failed, with a stale cache and two labs that want
\* one name (the order of the checks of processLab).  So it is as long as no row
\* is edited and no object deleted under it.
FailsOnlyWithoutObject ==
  \A d \in Replicas :
    step[d] = "fail" =>
      ~ \E n \in Names : objects[n].exists /\ objects[n].labID = InHand(d).id

\* A lab never has two objects, although it can be renamed, and the process
\* restarted, after its object was created and before the lab is marked
\* (processLab looks for the label as well as for the name).
OneObjectPerLab ==
  \A m, n \in Names :
    objects[m].labID = objects[n].labID /\ objects[m].labID # 0 => m = n

\* The API server refuses an object for this lab, at every poll as long as
\* nothing changes: for what the row says, or because its name is taken by hand.
Refused(l) ==
  LET o == objects[labs[l].name] IN
  /\ Unsynced(l) /\ labs[l].valid
  /\ ~labs[l].accepted \/ (o.exists /\ o.labID = 0)

\* Such labs are at the head of every batch, or this lab is one of them.
Blocked(l) == Refused(l) \/ Cardinality({m \in 1..(l-1) : Refused(m)}) >= BatchSize

\* Only labs that the API server refuses for ever wait for ever, and those that
\* come after a batch of them: every other lab is marked, failed, held, or moves
\* on.  Names taken by other labs, invalid rows, stale copies, failed calls and
\* restarts block nobody (processLab, and the order and limit of the query).
LabLeavesQueue == \A l \in Labs : <>[]Unsynced(l) => <>[]Blocked(l)

\* When the state of a lab's object comes to rest, the lab has that state: also
\* failed, when no retries are left.  So it is as long as no row is edited under
\* it: the poller fails a lab whose row has become invalid, whatever its object
\* does.
ObjectIsMirrored ==
  \A n \in Names, l \in Labs, s \in SyncedStates :
    <>[](objects[n] = [exists |-> TRUE, labID |-> l, state |-> s]) => <>[](labs[l].state = s)

---------------------------------------------------------------------------
(* What the documents and comments say and the code does not do.           *)

\* "Next polling cycle will detect existing CR and mark as synced."
CreatedIsMarked ==
  \A l \in Labs :
    l \in created /\ ~labs[l].hold ~> labs[l].synced \/ labs[l].hold
=============================================================================
