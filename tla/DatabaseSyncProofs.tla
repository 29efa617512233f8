------------------------- MODULE DatabaseSyncProofs -------------------------
(***************************************************************************)
(* Proofs about DatabaseSync, for any number of replicas, labs, names,     *)
(* batch size and faults: its types; that a lab is marked only if an       *)
(* object was created for it; that a lab has no two objects with one       *)
(* poller, or without edits; that a lab is failed only while it has no     *)
(* object; and that the sync implements LabSync.                           *)
(***************************************************************************)
EXTENDS DatabaseSync, WellFoundedInduction, TLAPS

USE SyncAssumption
USE DEF Selected, Written

\* A batch that is not empty has a lab in hand: of IDs, one is the least.
LEMMA InHandInBatch ==
  ASSUME SyncTypeOK, NEW d \in Replicas, step[d] # "idle"
  PROVE  InHand(d) \in todo[d] /\ InHand(d) \in Snapshot
<1> DEFINE ids == {lab.id : lab \in todo[d]}
<1>1. todo[d] \subseteq Snapshot /\ todo[d] # {}
  BY DEF SyncTypeOK
<1>2. ids \subseteq Nat /\ ids # {}
  BY <1>1 DEF Snapshot, Labs
<1>3. \E i \in ids : \A j \in ids : ~ (<<j, i>> \in OpToRel(<, Nat))
  BY <1>2, NatLessThanWellFounded, WFMin
<1>4. PICK i \in ids : \A j \in ids : ~ (j < i)
  BY <1>2, <1>3 DEF OpToRel
<1>5. PICK lab \in todo[d] : lab.id = i
  OBVIOUS
<1>6. \A other \in todo[d] : other.id \in ids
  OBVIOUS
<1>7. \A other \in todo[d] : lab.id <= other.id
  <2> TAKE other \in todo[d]
  <2>1. other.id \in ids /\ i \in Nat /\ other.id \in Nat
    BY <1>2, <1>6
  <2>2. ~ (other.id < i)
    BY <1>4, <2>1
  <2> HIDE DEF ids
  <2> QED
    BY <1>5, <2>1, <2>2
<1> QED
  BY <1>1, <1>7 DEF InHand

LEMMA SyncSpendType ==
  ASSUME SyncTypeOK, NEW event \in SyncEvents, Spend(event)
  PROVE  left' \in [SyncEvents -> Nat]
BY DEF SyncTypeOK, Spend

\* The state of a lab can be set to any that the column holds.
LEMMA SetStateType ==
  ASSUME SyncTypeOK, NEW l \in Labs, NEW s \in Storable, SetState(l, s)
  PROVE  labs' \in [Labs -> Lab]
<1>1. labs \in [Labs -> Lab]
  BY DEF SyncTypeOK
<1>2. [labs[l] EXCEPT !.state = s] \in Lab
  BY <1>1 DEF Lab
<1>3. labs' = [labs EXCEPT ![l] = [labs[l] EXCEPT !.state = s]]
  BY DEF SetState
<1> QED
  BY <1>1, <1>2, <1>3, Zenon

LEMMA MarkType ==
  ASSUME SyncTypeOK, NEW l \in Labs, MarkLabAsSynced(l)
  PROVE  labs' \in [Labs -> Lab]
<1> DEFINE row == [labs[l] EXCEPT !.synced = TRUE]
<1>1. row \in Lab
  <2>1. labs[l] \in Lab
    BY DEF SyncTypeOK
  <2>2. \A r \in Lab : [r EXCEPT !.synced = TRUE] \in Lab
    BY DEF Lab
  <2> QED
    BY <2>1, <2>2
<1>2. labs' = [labs EXCEPT ![l] = row]
  BY DEF MarkLabAsSynced
<1> HIDE DEF row
<1> QED
  BY <1>1, <1>2 DEF SyncTypeOK

LEMMA CreateType ==
  ASSUME SyncTypeOK, NEW lab \in Snapshot, Create(lab)
  PROVE  objects' \in [Names -> SyncObject] /\ created' \in SUBSET Labs
<1>1. /\ lab.id \in Labs /\ lab.id \in 0..N
      /\ [exists |-> TRUE, labID |-> lab.id, state |-> ""] \in SyncObject
  BY DEF Snapshot, Labs, SyncObject
<1> QED
  BY <1>1 DEF SyncTypeOK, Create

\* Going on to the next lab keeps a poller idle exactly when it has no batch.
LEMMA NextLabType ==
  ASSUME SyncTypeOK, NEW d \in Replicas, NextLab(d)
  PROVE  /\ step' \in [Replicas -> {"idle", "decide", "fail", "mark", "create"}]
         /\ todo' \in [Replicas -> SUBSET Snapshot]
         /\ \A e \in Replicas : step'[e] = "idle" <=> todo'[e] = {}
BY DEF SyncTypeOK, NextLab

LEMMA SyncInitType == Init => SyncTypeOK
<1> SUFFICES ASSUME Init PROVE SyncTypeOK
  OBVIOUS
<1>1. (CHOOSE n \in Names : TRUE) \in Names
  OBVIOUS
<1>2. "pending" \in Storable
  BY DEF Storable, LabStates
<1>3. NoObject \in SyncObject
  BY DEF NoObject, SyncObject
<1>4. labs \in [Labs -> Lab]
  BY <1>1, <1>2 DEF Init, Lab
<1> QED
  BY <1>3, <1>4 DEF Init, SyncTypeOK

\* Each step of a poller keeps the types.
LEMMA PollerType ==
  ASSUME SyncTypeOK, NEW d \in Replicas, Poller(d)
  PROVE  SyncTypeOK'
<1>1. CASE Fetch(d)
  <2>1. GetUnsyncedLabs \subseteq Labs /\ GetUnsyncedLabs # {}
    BY <1>1 DEF Fetch, GetUnsyncedLabs
  <2>2. \A l \in Labs : Selected(l) \in Snapshot
    BY DEF SyncTypeOK, Lab, Snapshot
  <2> DEFINE batch == {Selected(l) :
                         l \in GetUnsyncedLabs}
  <2>3. batch \in SUBSET Snapshot /\ batch # {}
    BY <2>1, <2>2
  <2>4. todo' = [todo EXCEPT ![d] = batch] /\ step' = [step EXCEPT ![d] = "decide"]
    BY <1>1 DEF Fetch
  <2> HIDE DEF batch
  <2> QED
    BY <1>1, <2>3, <2>4 DEF Fetch, SyncTypeOK, watcherVars
<1>2. CASE Decide(d)
  BY <1>2 DEF Decide, SyncTypeOK, watcherVars
<1>3. CASE step[d] \notin {"idle", "decide"}
  <2>1. InHand(d) \in Snapshot /\ InHand(d).id \in Labs
    BY <1>3, InHandInBatch DEF Snapshot
  <2>2. "failed" \in Storable
    BY DEF Storable, LabStates
  <2>3. CASE FailLab(d)
    BY <2>1, <2>2, <2>3, SetStateType, NextLabType DEF FailLab, SyncTypeOK, watcherVars
  <2>4. CASE MarkLab(d)
    BY <2>1, <2>4, MarkType, NextLabType DEF MarkLab, SyncTypeOK, watcherVars
  <2>5. CASE CreateObject(d)
    <3>1. objects' \in [Names -> SyncObject] /\ created' \in SUBSET Labs
      BY <2>1, <2>5, CreateType DEF CreateObject
    <3> QED
      BY <1>3, <2>5, <3>1 DEF CreateObject, SyncTypeOK, watcherVars
  <2>6. CASE CreateRefused(d)
    BY <2>6, NextLabType DEF CreateRefused, SyncTypeOK, watcherVars
  <2>7. CASE PollerCallFails(d)
    <3>1. left' \in [SyncEvents -> Nat]
      BY <2>7, SyncSpendType DEF PollerCallFails, SyncEvents
    <3>2. labs' \in [Labs -> Lab] /\ objects' \in [Names -> SyncObject] /\ created' \in SUBSET Labs
      <4>1. CASE UNCHANGED <<labs, objects, created>>
        BY <4>1 DEF SyncTypeOK
      <4>2. CASE SetState(InHand(d).id, "failed") /\ UNCHANGED <<objects, created>>
        BY <2>1, <2>2, <4>2, SetStateType DEF SyncTypeOK
      <4>3. CASE MarkLabAsSynced(InHand(d).id) /\ UNCHANGED <<objects, created>>
        BY <2>1, <4>3, MarkType DEF SyncTypeOK
      <4>4. CASE Create(InHand(d)) /\ UNCHANGED labs
        BY <2>1, <4>4, CreateType DEF SyncTypeOK
      <4> QED
        BY <2>7, <4>1, <4>2, <4>3, <4>4 DEF PollerCallFails
    <3> QED
      BY <2>7, <3>1, <3>2, NextLabType DEF PollerCallFails, SyncTypeOK, watcherVars
  <2> QED
    BY <1>3, <2>3, <2>4, <2>5, <2>6, <2>7 DEF Poller, Fetch, Decide
<1> QED
  BY <1>1, <1>2, <1>3 DEF Poller, FailLab, MarkLab, CreateObject, CreateRefused, PollerCallFails

\* So does each step of a watcher and each restart.
LEMMA WatcherType ==
  ASSUME SyncTypeOK, NEW d \in Replicas, NEW n \in Names,
         UpdateLab(d) \/ UpdateFails(d) \/ Restart(d) \/ Reconcile(d, n) \/ Watch(d, n)
  PROVE  SyncTypeOK'
<1>1. update[d] # NoUpdate => /\ update[d].name \in Names /\ update[d].lab \in Labs
                              /\ update[d] \in Update
  BY DEF SyncTypeOK, Update
<1>2. CASE UpdateLab(d)
  BY <1>1, <1>2, SetStateType DEF UpdateLab, SyncTypeOK, pollerVars
<1>3. CASE UpdateFails(d)
  <2>1. left' \in [SyncEvents -> Nat]
    BY <1>3, SyncSpendType DEF UpdateFails, SyncEvents, SyncTypeOK
  <2>2. labs' \in [Labs -> Lab]
    BY <1>1, <1>3, SetStateType DEF UpdateFails, SyncTypeOK
  <2> QED
    BY <1>1, <1>3, <2>1, <2>2 DEF UpdateFails, SyncTypeOK, pollerVars
<1>4. CASE Restart(d)
  <2>1. left' \in [SyncEvents -> Nat]
    BY <1>4, SyncSpendType DEF Restart, SyncEvents
  <2> QED
    BY <1>4, <2>1 DEF Restart, SyncTypeOK
<1>5. CASE Reconcile(d, n)
  <2>1. informer[d][n] \in SyncObject
    BY DEF SyncTypeOK
  <2> DEFINE report == [name |-> n, lab |-> informer[d][n].labID, state |-> informer[d][n].state]
  <2>2. Reported(informer[d][n]) => report \in Update
    <3>1. informer[d][n].labID \in 0..N
      BY <2>1 DEF SyncObject
    <3>2. Reported(informer[d][n]) =>
            informer[d][n].labID \in Labs /\ informer[d][n].state \in LabStates
      BY <3>1 DEF Reported, SyncedStates, Labs, LabStates
    <3> QED
      BY <3>2 DEF Update
  <2>3. update' = IF Reported(informer[d][n]) THEN [update EXCEPT ![d] = report] ELSE update
    BY <1>5 DEF Reconcile
  <2> HIDE DEF report
  <2>4. update' \in [Replicas -> Update \union {NoUpdate}]
    BY <2>2, <2>3 DEF SyncTypeOK
  <2> QED
    BY <1>5, <2>4 DEF Reconcile, SyncTypeOK, pollerVars
<1>6. CASE Watch(d, n)
  <2>1. objects[n] \in SyncObject
    BY DEF SyncTypeOK
  <2>2. informer' = [informer EXCEPT ![d] = [informer[d] EXCEPT ![n] = objects[n]]]
    BY <1>6 DEF Watch
  <2>3. [informer[d] EXCEPT ![n] = objects[n]] \in [Names -> SyncObject]
    BY <2>1 DEF SyncTypeOK
  <2> QED
    BY <1>6, <2>2, <2>3 DEF Watch, SyncTypeOK, pollerVars
<1> QED
  BY <1>2, <1>3, <1>4, <1>5, <1>6

\* So does everything others do.
LEMMA EnvironmentType ==
  ASSUME SyncTypeOK,
         \/ \E n \in Names : Moves(n, ControllerArrows) \/ Moves(n, OthersArrows)
         \/ Buffalo
         \/ Users
  PROVE  SyncTypeOK'
<1>1. ASSUME NEW n \in Names, NEW arrows, Moves(n, arrows) PROVE SyncTypeOK'
  <2>1. PICK s \in LabStates : objects' = [objects EXCEPT ![n] = [objects[n] EXCEPT !.state = s]]
    BY <1>1 DEF Moves
  <2>2. \A o \in SyncObject : [o EXCEPT !.state = s] \in SyncObject
    BY DEF SyncObject
  <2>3. objects' \in [Names -> SyncObject]
    BY <2>1, <2>2 DEF SyncTypeOK
  <2> QED
    BY <1>1, <2>3 DEF Moves, SyncTypeOK, pollerVars, watcherVars
<1>2. CASE Users
  <2>1. left' \in [SyncEvents -> Nat]
    BY <1>2, SyncSpendType DEF Users, CreateByHand, DeleteObject, SyncEvents
  <2>2. NoObject \in SyncObject /\ [exists |-> TRUE, labID |-> 0, state |-> ""] \in SyncObject
    BY DEF NoObject, SyncObject
  <2>3. objects' \in [Names -> SyncObject]
    BY <1>2, <2>2 DEF Users, CreateByHand, DeleteObject, SyncTypeOK
  <2> QED
    BY <1>2, <2>1, <2>3 DEF Users, SyncTypeOK, pollerVars, watcherVars
<1>3. CASE Buffalo
  <2>1. PICK l \in Labs : \/ \E name \in Names, valid, ok \in BOOLEAN :
                              Insert(l, name, valid, ok) \/ EditLab(l, name, valid, ok)
                           \/ ApproveLab(l)
                           \/ HoldLab(l)
    BY <1>3 DEF Buffalo
  <2>2. left' \in [SyncEvents -> Nat]
    BY <2>1, SyncSpendType DEF Insert, EditLab, ApproveLab, HoldLab, SyncEvents, SyncTypeOK
  <2>3. labs' \in [Labs -> Lab]
    <3>0. labs[l] \in Lab
      BY DEF SyncTypeOK
    <3>1. ASSUME NEW name \in Names, NEW valid \in BOOLEAN, NEW ok \in BOOLEAN,
                 Insert(l, name, valid, ok)
          PROVE  labs' \in [Labs -> Lab]
      <4>1. \A r \in Lab : Written(r, name, valid, ok) \in Lab
        BY DEF Lab
      <4>2. PICK row \in Lab : labs' = [labs EXCEPT ![l] = row]
        BY <3>0, <3>1, <4>1 DEF Insert
      <4> QED
        BY <4>2 DEF SyncTypeOK
    <3>2. ASSUME NEW name \in Names, NEW valid \in BOOLEAN, NEW ok \in BOOLEAN,
                 EditLab(l, name, valid, ok)
          PROVE  labs' \in [Labs -> Lab]
      <4>1. \A r \in Lab : Written(r, name, valid, ok) \in Lab
        BY DEF Lab
      <4>2. PICK row \in Lab : labs' = [labs EXCEPT ![l] = row]
        BY <3>0, <3>2, <4>1 DEF EditLab
      <4> QED
        BY <4>2 DEF SyncTypeOK
    <3>3. CASE ApproveLab(l)
      BY <3>3, SetStateType DEF ApproveLab, Storable, LabStates
    <3>4. CASE HoldLab(l)
      <4>1. \A r \in Lab : [r EXCEPT !.hold = ~@] \in Lab
        BY DEF Lab
      <4>2. PICK row \in Lab : labs' = [labs EXCEPT ![l] = row]
        BY <3>0, <3>4, <4>1 DEF HoldLab
      <4> QED
        BY <4>2 DEF SyncTypeOK
    <3> QED
      BY <2>1, <3>1, <3>2, <3>3, <3>4
  <2> QED
    BY <1>3, <2>2, <2>3 DEF Buffalo, SyncTypeOK, pollerVars, watcherVars
<1> QED
  BY <1>1, <1>2, <1>3

\* The state of the sync is well typed, and a poller is idle exactly when it has
\* no batch, in every reachable state (syncDatabaseToKubernetes, Reconcile).
THEOREM SyncTypeCorrect == Spec => []SyncTypeOK
<1>1. SyncTypeOK /\ [Next]_vars => SyncTypeOK'
  <2> SUFFICES ASSUME SyncTypeOK, [Next]_vars PROVE SyncTypeOK'
    OBVIOUS
  <2>1. CASE \E d \in Replicas : Poller(d)
    BY <2>1, PollerType
  <2>2. CASE \E d \in Replicas : UpdateLab(d) \/ UpdateFails(d) \/ Restart(d)
    BY <2>2, WatcherType
  <2>3. CASE \E d \in Replicas, n \in Names : Reconcile(d, n) \/ Watch(d, n)
    BY <2>3, WatcherType
  <2>4. CASE \/ \E n \in Names : Moves(n, ControllerArrows) \/ Moves(n, OthersArrows)
             \/ Buffalo
             \/ Users
    BY <2>4, EnvironmentType
  <2>5. CASE UNCHANGED vars
    BY <2>5 DEF vars, SyncTypeOK
  <2> QED
    BY <2>1, <2>2, <2>3, <2>4, <2>5 DEF Next
<1> QED
  BY <1>1, SyncInitType, PTL DEF Spec

---------------------------------------------------------------------------
(* A lab that is marked was created                                        *)

\* Whatever speaks for a lab - an object, a cached copy of one, a poller that
\* is about to mark it, the mark itself - does so because an object of the lab
\* has been created.
Backed ==
  /\ \A n \in Names : objects[n].labID # 0 => objects[n].labID \in created
  /\ \A d \in Replicas, n \in Names :
       informer[d][n].labID # 0 => informer[d][n].labID \in created
  /\ \A d \in Replicas : step[d] = "mark" => InHand(d).id \in created
  /\ SyncedWasCreated

LEMMA InHandKept ==
  ASSUME NEW d \in Replicas, todo'[d] = todo[d]
  PROVE  InHand(d)' = InHand(d)
BY DEF InHand

\* A poller that goes on to the next lab leaves the others where they are.
LEMMA OthersInHand ==
  ASSUME SyncTypeOK, NEW d \in Replicas, NextLab(d)
  PROVE  \A e \in Replicas : step'[e] = "mark" => step[e] = "mark" /\ InHand(e)' = InHand(e)
<1>1. step'[d] # "mark"
  BY DEF NextLab, SyncTypeOK
<1>2. \A e \in Replicas \ {d} : step'[e] = step[e] /\ todo'[e] = todo[e]
  BY DEF NextLab, SyncTypeOK
<1> QED
  BY <1>1, <1>2, InHandKept

\* Setting the state of a lab does not mark it.
LEMMA SetStateMarksNothing ==
  ASSUME SyncTypeOK, NEW l \in Labs, NEW s \in Storable, SetState(l, s)
  PROVE  \A m \in Labs : labs'[m].synced = labs[m].synced
<1>1. labs[l] \in Lab
  BY DEF SyncTypeOK
<1>2. \A r \in Lab : [r EXCEPT !.state = s].synced = r.synced
  BY DEF Lab
<1>3. [labs[l] EXCEPT !.state = s].synced = labs[l].synced
  BY <1>1, <1>2
<1> DEFINE row == [labs[l] EXCEPT !.state = s]
<1>4. labs' = [labs EXCEPT ![l] = row] /\ row.synced = labs[l].synced
  BY <1>3 DEF SetState
<1> HIDE DEF row
<1> QED
  BY <1>4 DEF SyncTypeOK

LEMMA MarkMarksOne ==
  ASSUME SyncTypeOK, NEW l \in Labs, MarkLabAsSynced(l)
  PROVE  \A m \in Labs : labs'[m].synced => labs[m].synced \/ m = l
BY DEF SyncTypeOK, MarkLabAsSynced

LEMMA CreateBacks ==
  ASSUME SyncTypeOK, Backed, NEW lab \in Snapshot, Create(lab)
  PROVE  /\ \A n \in Names : objects'[n].labID # 0 => objects'[n].labID \in created'
         /\ created \subseteq created' /\ lab.id \in created'
BY DEF SyncTypeOK, Backed, Create, Snapshot

LEMMA PollerBacked ==
  ASSUME SyncTypeOK, Backed, NEW d \in Replicas, Poller(d)
  PROVE  Backed'
<1>1. CASE Fetch(d)
  <2>1. /\ step'[d] # "mark"
        /\ \A e \in Replicas \ {d} : step'[e] = step[e] /\ todo'[e] = todo[e]
    BY <1>1 DEF Fetch, SyncTypeOK
  <2>2. \A e \in Replicas : step'[e] = "mark" => step[e] = "mark" /\ InHand(e)' = InHand(e)
    BY <2>1, InHandKept
  <2> QED
    BY <1>1, <2>2 DEF Fetch, Backed, SyncedWasCreated
<1>2. CASE Decide(d)
  <2>1. InHand(d) \in Snapshot /\ InHand(d).id # 0
    BY <1>2, InHandInBatch DEF Decide, Snapshot, Labs
  <2>2. \A e \in Replicas : InHand(e)' = InHand(e)
    BY <1>2, InHandKept DEF Decide
  <2>3. step'[d] = "mark" => Known(d, InHand(d))
    BY <1>2 DEF Decide, SyncTypeOK
  <2>4. step'[d] = "mark" => InHand(d).id \in created
    BY <2>1, <2>3 DEF Known, Backed
  <2>5. \A e \in Replicas \ {d} : step'[e] = step[e]
    BY <1>2 DEF Decide, SyncTypeOK
  <2> QED
    BY <1>2, <2>2, <2>4, <2>5 DEF Decide, Backed, SyncedWasCreated
<1>3. CASE step[d] \notin {"idle", "decide"}
  <2>1. InHand(d) \in Snapshot /\ InHand(d).id \in Labs
    BY <1>3, InHandInBatch DEF Snapshot
  <2>2. "failed" \in Storable
    BY DEF Storable, LabStates
  <2>3. CASE FailLab(d)
    <3>1. \A m \in Labs : labs'[m].synced = labs[m].synced
      BY <2>1, <2>2, <2>3, SetStateMarksNothing DEF FailLab
    <3> QED
      BY <2>3, <3>1, OthersInHand DEF FailLab, Backed, SyncedWasCreated
  <2>4. CASE MarkLab(d)
    <3>1. \A m \in Labs : labs'[m].synced => labs[m].synced \/ m = InHand(d).id
      BY <2>1, <2>4, MarkMarksOne DEF MarkLab
    <3> QED
      BY <2>4, <3>1, OthersInHand DEF MarkLab, Backed, SyncedWasCreated
  <2>5. CASE CreateObject(d)
    <3>1. \A e \in Replicas : InHand(e)' = InHand(e)
      BY <2>5, InHandKept DEF CreateObject
    <3>2. \A e \in Replicas \ {d} : step'[e] = step[e]
      BY <2>5 DEF CreateObject, SyncTypeOK
    <3> QED
      BY <2>1, <2>5, <3>1, <3>2, CreateBacks DEF CreateObject, Backed, SyncedWasCreated
  <2>6. CASE CreateRefused(d)
    BY <2>6, OthersInHand DEF CreateRefused, Backed, SyncedWasCreated
  <2>7. CASE PollerCallFails(d)
    <3>1. CASE UNCHANGED <<labs, objects, created>>
      BY <2>7, <3>1, OthersInHand DEF PollerCallFails, Backed, SyncedWasCreated
    <3>2. CASE SetState(InHand(d).id, "failed") /\ UNCHANGED <<objects, created>>
      <4>1. \A m \in Labs : labs'[m].synced = labs[m].synced
        BY <2>1, <2>2, <3>2, SetStateMarksNothing
      <4> QED
        BY <2>7, <3>2, <4>1, OthersInHand DEF PollerCallFails, Backed, SyncedWasCreated
    <3>3. CASE step[d] = "mark" /\ MarkLabAsSynced(InHand(d).id) /\ UNCHANGED <<objects, created>>
      <4>1. \A m \in Labs : labs'[m].synced => labs[m].synced \/ m = InHand(d).id
        BY <2>1, <3>3, MarkMarksOne
      <4> QED
        BY <2>7, <3>3, <4>1, OthersInHand DEF PollerCallFails, Backed, SyncedWasCreated
    <3>4. CASE Create(InHand(d)) /\ UNCHANGED labs
      BY <2>1, <2>7, <3>4, CreateBacks, OthersInHand DEF PollerCallFails, Backed, SyncedWasCreated
    <3> QED
      BY <2>7, <3>1, <3>2, <3>3, <3>4 DEF PollerCallFails
  <2> QED
    BY <1>3, <2>3, <2>4, <2>5, <2>6, <2>7 DEF Poller, Fetch, Decide
<1> QED
  BY <1>1, <1>2, <1>3 DEF Poller, FailLab, MarkLab, CreateObject, CreateRefused, PollerCallFails

LEMMA WatcherBacked ==
  ASSUME SyncTypeOK, Backed, NEW d \in Replicas, NEW n \in Names,
         UpdateLab(d) \/ UpdateFails(d) \/ Restart(d) \/ Reconcile(d, n) \/ Watch(d, n)
  PROVE  Backed'
<1>1. update[d] # NoUpdate => update[d].lab \in Labs
  BY DEF SyncTypeOK, Update
<1>2. CASE UpdateLab(d) \/ UpdateFails(d)
  <2>1. \A m \in Labs : labs'[m].synced = labs[m].synced
    BY <1>1, <1>2, SetStateMarksNothing DEF UpdateLab, UpdateFails
  <2>2. \A e \in Replicas : InHand(e)' = InHand(e)
    BY <1>2, InHandKept DEF UpdateLab, UpdateFails, pollerVars
  <2> QED
    BY <1>2, <2>1, <2>2 DEF UpdateLab, UpdateFails, Backed, SyncedWasCreated, pollerVars
<1>3. CASE Restart(d)
  <2>1. /\ step'[d] # "mark"
        /\ \A e \in Replicas \ {d} : step'[e] = step[e] /\ todo'[e] = todo[e]
    BY <1>3 DEF Restart, SyncTypeOK
  <2>2. \A e \in Replicas : step'[e] = "mark" => step[e] = "mark" /\ InHand(e)' = InHand(e)
    BY <2>1, InHandKept
  <2>3. \A e \in Replicas, m \in Names : informer'[e][m] \in {informer[e][m], objects[m]}
    BY <1>3 DEF Restart, SyncTypeOK
  <2> QED
    BY <1>3, <2>2, <2>3 DEF Restart, Backed, SyncedWasCreated
<1>4. CASE Reconcile(d, n)
  <2>1. \A e \in Replicas : InHand(e)' = InHand(e)
    BY <1>4, InHandKept DEF Reconcile, pollerVars
  <2> QED
    BY <1>4, <2>1 DEF Reconcile, Backed, SyncedWasCreated, pollerVars
<1>5. CASE Watch(d, n)
  <2>1. \A e \in Replicas : InHand(e)' = InHand(e)
    BY <1>5, InHandKept DEF Watch, pollerVars
  <2>2. \A e \in Replicas, m \in Names : informer'[e][m] \in {informer[e][m], objects[m]}
    BY <1>5 DEF Watch, SyncTypeOK
  <2> QED
    BY <1>5, <2>1, <2>2 DEF Watch, Backed, SyncedWasCreated, pollerVars
<1> QED
  BY <1>2, <1>3, <1>4, <1>5

\* What others do to the objects and to the rows, as far as it matters here.
LEMMA MovesKeepsLab ==
  ASSUME SyncTypeOK, NEW n \in Names, NEW arrows, Moves(n, arrows)
  PROVE  \A m \in Names : /\ objects'[m].labID = objects[m].labID
                          /\ objects'[m].exists = objects[m].exists
<1>1. PICK s \in LabStates : objects' = [objects EXCEPT ![n] = [objects[n] EXCEPT !.state = s]]
  BY DEF Moves
<1>2. \A o \in SyncObject : LET p == [o EXCEPT !.state = s] IN
                            p.labID = o.labID /\ p.exists = o.exists
  BY DEF SyncObject
<1> QED
  BY <1>1, <1>2 DEF SyncTypeOK

LEMMA UsersObjects ==
  ASSUME SyncTypeOK, Users
  PROVE  \A m \in Names : \/ objects'[m] = objects[m]
                          \/ /\ ~objects[m].exists /\ objects'[m].exists
                             /\ objects'[m].labID = 0
                          \/ left["delete"] > 0 /\ ~objects'[m].exists /\ objects'[m].labID = 0
<1>1. CASE \E n \in Names : CreateByHand(n)
  <2>1. PICK n \in Names : /\ ~objects[n].exists
                           /\ objects' = [objects EXCEPT ![n] =
                                            [exists |-> TRUE, labID |-> 0, state |-> ""]]
    BY <1>1 DEF CreateByHand
  <2> QED
    BY <2>1 DEF SyncTypeOK
<1>2. CASE \E n \in Names : DeleteObject(n)
  <2>1. PICK n \in Names : left["delete"] > 0 /\ objects' = [objects EXCEPT ![n] = NoObject]
    BY <1>2 DEF DeleteObject, Spend
  <2>2. ~NoObject.exists /\ NoObject.labID = 0
    BY DEF NoObject
  <2> QED
    BY <2>1, <2>2 DEF SyncTypeOK
<1> QED
  BY <1>1, <1>2 DEF Users

LEMMA BuffaloRows ==
  ASSUME SyncTypeOK, Buffalo
  PROVE  \A m \in Labs : /\ labs'[m].synced = labs[m].synced
                         /\ labs[m].exists /\ left["edit"] = 0 =>
                              /\ labs'[m].exists /\ labs'[m].name = labs[m].name
                              /\ labs'[m].valid = labs[m].valid
<1> DEFINE Goal == \A m \in Labs : /\ labs'[m].synced = labs[m].synced
                                   /\ labs[m].exists /\ left["edit"] = 0 =>
                                        /\ labs'[m].exists /\ labs'[m].name = labs[m].name
                                        /\ labs'[m].valid = labs[m].valid
<1>1. PICK l \in Labs : \/ \E name \in Names, valid, ok \in BOOLEAN :
                            Insert(l, name, valid, ok) \/ EditLab(l, name, valid, ok)
                         \/ ApproveLab(l)
                         \/ HoldLab(l)
  BY DEF Buffalo
<1>2. labs[l] \in Lab /\ labs \in [Labs -> Lab]
  BY DEF SyncTypeOK
<1>3. ASSUME NEW row, labs' = [labs EXCEPT ![l] = row], row.synced = labs[l].synced,
             labs[l].exists /\ left["edit"] = 0 =>
               row.exists /\ row.name = labs[l].name /\ row.valid = labs[l].valid
      PROVE  Goal
  BY <1>2, <1>3
<1>4. ASSUME NEW name \in Names, NEW valid \in BOOLEAN, NEW ok \in BOOLEAN,
             Insert(l, name, valid, ok) PROVE Goal
  <2> DEFINE row == Written(labs[l], name, valid, ok)
  <2>1. row.synced = labs[l].synced
    BY <1>2 DEF Lab
  <2>2. labs' = [labs EXCEPT ![l] = row] /\ ~labs[l].exists
    BY <1>4 DEF Insert
  <2> HIDE DEF row
  <2> QED
    BY <1>3, <2>1, <2>2
<1>5. ASSUME NEW name \in Names, NEW valid \in BOOLEAN, NEW ok \in BOOLEAN,
             EditLab(l, name, valid, ok) PROVE Goal
  <2> DEFINE row == Written(labs[l], name, valid, ok)
  <2>1. row.synced = labs[l].synced
    BY <1>2 DEF Lab
  <2>2. labs' = [labs EXCEPT ![l] = row] /\ left["edit"] > 0
    BY <1>5 DEF EditLab, Spend
  <2>3. left["edit"] # 0
    BY <2>2 DEF SyncTypeOK, SyncEvents
  <2> HIDE DEF row
  <2> QED
    BY <1>3, <2>1, <2>2, <2>3
<1>6. CASE ApproveLab(l)
  <2> DEFINE row == [labs[l] EXCEPT !.state = "approved"]
  <2>1. /\ row.synced = labs[l].synced /\ row.exists = labs[l].exists
        /\ row.name = labs[l].name /\ row.valid = labs[l].valid
    BY <1>2 DEF Lab
  <2>2. labs' = [labs EXCEPT ![l] = row]
    BY <1>6 DEF ApproveLab, SetState
  <2> HIDE DEF row
  <2> QED
    BY <1>3, <2>1, <2>2
<1>7. CASE HoldLab(l)
  <2> DEFINE row == [labs[l] EXCEPT !.hold = ~@]
  <2>1. /\ row.synced = labs[l].synced /\ row.exists = labs[l].exists
        /\ row.name = labs[l].name /\ row.valid = labs[l].valid
    BY <1>2 DEF Lab
  <2>2. labs' = [labs EXCEPT ![l] = row]
    BY <1>7 DEF HoldLab
  <2> HIDE DEF row
  <2> QED
    BY <1>3, <2>1, <2>2
<1> QED
  BY <1>1, <1>4, <1>5, <1>6, <1>7

LEMMA EnvironmentBacked ==
  ASSUME SyncTypeOK, Backed,
         \/ \E n \in Names : Moves(n, ControllerArrows) \/ Moves(n, OthersArrows)
         \/ Buffalo
         \/ Users
  PROVE  Backed'
<1>1. \A e \in Replicas : InHand(e)' = InHand(e)
  BY InHandKept DEF Moves, Buffalo, Users, pollerVars
<1>2. ASSUME NEW n \in Names, NEW arrows, Moves(n, arrows) PROVE Backed'
  BY <1>1, <1>2, MovesKeepsLab DEF Moves, Backed, SyncedWasCreated, pollerVars
<1>3. CASE Users
  <2>1. \A m \in Names : objects'[m].labID \in {0, objects[m].labID}
    BY <1>3, UsersObjects
  <2> QED
    BY <1>1, <1>3, <2>1 DEF Users, Backed, SyncedWasCreated, pollerVars
<1>4. CASE Buffalo
  BY <1>1, <1>4, BuffaloRows DEF Buffalo, Backed, SyncedWasCreated, pollerVars
<1> QED
  BY <1>2, <1>3, <1>4

\* Whatever speaks for a lab is backed by an object that was created for it.
THEOREM BackedHolds == Spec => []Backed
<1>1. Init => Backed
  <2> SUFFICES ASSUME Init PROVE Backed
    OBVIOUS
  <2>1. NoObject.labID = 0
    BY DEF NoObject
  <2>2. /\ \A n \in Names : objects[n] = NoObject
        /\ \A d \in Replicas, n \in Names : informer[d][n] = NoObject
        /\ \A d \in Replicas : step[d] # "mark"
        /\ \A l \in Labs : labs[l].synced = FALSE
    BY DEF Init
  <2> QED
    BY <2>1, <2>2 DEF Backed, SyncedWasCreated
<1>2. SyncTypeOK /\ Backed /\ [Next]_vars => Backed'
  <2> SUFFICES ASSUME SyncTypeOK, Backed, [Next]_vars PROVE Backed'
    OBVIOUS
  <2>1. CASE \E d \in Replicas : Poller(d)
    BY <2>1, PollerBacked
  <2>2. CASE \E d \in Replicas : UpdateLab(d) \/ UpdateFails(d) \/ Restart(d)
    BY <2>2, WatcherBacked
  <2>3. CASE \E d \in Replicas, n \in Names : Reconcile(d, n) \/ Watch(d, n)
    BY <2>3, WatcherBacked
  <2>4. CASE \/ \E n \in Names : Moves(n, ControllerArrows) \/ Moves(n, OthersArrows)
             \/ Buffalo
             \/ Users
    BY <2>4, EnvironmentBacked
  <2>5. CASE UNCHANGED vars
    <3>1. \A e \in Replicas : InHand(e)' = InHand(e)
      BY <2>5, InHandKept DEF vars, pollerVars
    <3> QED
      BY <2>5, <3>1 DEF vars, Backed, SyncedWasCreated, pollerVars
  <2> QED
    BY <2>1, <2>2, <2>3, <2>4, <2>5 DEF Next
<1> QED
  BY <1>1, <1>2, SyncTypeCorrect, PTL DEF Spec

\* A lab is marked only if an object was created for it, whatever fails, however
\* old the copies are that processLab works on, and however many replicas do so.
THEOREM MarkedWasCreated == Spec => []SyncedWasCreated
<1>1. Backed => SyncedWasCreated
  BY DEF Backed
<1> QED
  BY <1>1, BackedHolds, PTL

---------------------------------------------------------------------------
(* A lab never has two objects                                             *)

\* One poller d whose calls do not fail: an object of a lab is in its cache,
\* unless the lab is marked or about to be marked; so a lab in its batch that
\* it finds no object for has none.
Sole(d) ==
  /\ left["fault"] = 0
  /\ \A s, t \in todo[d] : s.id = t.id => s = t
  /\ \A s \in todo[d] : ~labs[s.id].synced
  /\ \A n \in Names : objects[n].labID # 0 =>
       /\ objects[n].exists
       /\ \/ labs[objects[n].labID].synced
          \/ step[d] = "mark" /\ InHand(d).id = objects[n].labID
          \/ informer[d][n].exists /\ informer[d][n].labID = objects[n].labID
  /\ step[d] = "create" => \A n \in Names : objects[n].labID # InHand(d).id
  /\ OneObjectPerLab

LEMMA LabIDs == ASSUME SyncTypeOK PROVE \A n \in Names : objects[n].labID \in Labs \union {0}
<1> TAKE n \in Names
<1>1. objects[n] \in SyncObject
  BY DEF SyncTypeOK
<1>2. objects[n].labID \in 0..N
  BY <1>1 DEF SyncObject
<1> QED
  BY <1>2 DEF Labs

\* Nobody else gives a lab an object or takes back a mark.
LEMMA OthersSole ==
  ASSUME SyncTypeOK, NEW d \in Replicas, Sole(d), UNCHANGED <<pollerVars, informer>>,
         left'["fault"] = 0, \A l \in Labs : labs'[l].synced = labs[l].synced,
         \A n \in Names : \/ objects'[n].labID = 0
                          \/ /\ objects'[n].labID = objects[n].labID
                             /\ objects'[n].exists = objects[n].exists
  PROVE  Sole(d)'
<1>1. InHand(d)' = InHand(d) /\ step' = step /\ todo' = todo
  BY InHandKept DEF pollerVars
<1>2. \A s \in todo[d] : s.id \in Labs
  BY DEF SyncTypeOK, Snapshot
<1>3. \A n \in Names : objects[n].labID \in Labs \union {0}
  BY LabIDs
<1>4. OneObjectPerLab'
  BY DEF Sole, OneObjectPerLab
<1>5. step'[d] = "create" => \A n \in Names : objects'[n].labID # InHand(d)'.id
  <2> SUFFICES ASSUME step[d] = "create", NEW n \in Names
               PROVE  objects'[n].labID # InHand(d).id
    BY <1>1
  <2>1. InHand(d).id \in Labs
    BY InHandInBatch DEF Snapshot
  <2> QED
    BY <2>1 DEF Sole, Labs
<1>6. \A s \in todo'[d] : ~labs'[s.id].synced
  BY <1>1, <1>2 DEF Sole
<1>7. \A n \in Names : objects'[n].labID # 0 =>
        /\ objects'[n].exists
        /\ \/ labs'[objects'[n].labID].synced
           \/ step'[d] = "mark" /\ InHand(d)'.id = objects'[n].labID
           \/ informer'[d][n].exists /\ informer'[d][n].labID = objects'[n].labID
  <2> TAKE n \in Names
  <2> HAVE objects'[n].labID # 0
  <2>1. objects'[n].labID = objects[n].labID /\ objects[n].labID \in Labs
    BY <1>3
  <2> QED
    BY <1>1, <2>1 DEF Sole
<1> QED
  BY <1>1, <1>4, <1>5, <1>6, <1>7 DEF Sole

\* Going on to the next lab, whose predecessor is left as it is or marked.
LEMMA NextLabSole ==
  ASSUME SyncTypeOK, NEW d \in Replicas, Sole(d), NextLab(d),
         step[d] \in {"fail", "mark", "create"},
         UNCHANGED <<objects, informer>>, left'["fault"] = 0,
         \A l \in Labs : labs'[l].synced = labs[l].synced \/ l = InHand(d).id,
         step[d] = "mark" => labs'[InHand(d).id].synced
  PROVE  Sole(d)'
<1> DEFINE lab == InHand(d)
<1>1. lab \in todo[d] /\ lab \in Snapshot
  BY InHandInBatch
<1>2. todo'[d] = todo[d] \ {lab} /\ step'[d] \in {"idle", "decide"}
  BY DEF NextLab, SyncTypeOK
<1>3. \A s \in todo'[d] : s.id \in Labs /\ s.id # lab.id /\ ~labs[s.id].synced
  BY <1>1, <1>2 DEF Sole, SyncTypeOK, Snapshot
<1>4. \A n \in Names : objects[n].labID \in Labs \union {0}
  BY LabIDs
<1> HIDE DEF lab
<1>5. \A n \in Names : objects[n].labID # 0 =>
        /\ objects[n].exists
        /\ \/ labs'[objects[n].labID].synced
           \/ informer[d][n].exists /\ informer[d][n].labID = objects[n].labID
  <2> TAKE n \in Names
  <2> HAVE objects[n].labID # 0
  <2>1. objects[n].labID \in Labs
    BY <1>4
  <2>2. /\ objects[n].exists
        /\ \/ labs[objects[n].labID].synced
           \/ step[d] = "mark" /\ lab.id = objects[n].labID
           \/ informer[d][n].exists /\ informer[d][n].labID = objects[n].labID
    BY DEF Sole, lab
  <2>3. CASE labs[objects[n].labID].synced
    <3>1. objects[n].labID # lab.id
      BY <1>1, <2>3 DEF Sole, lab
    <3> QED
      BY <2>1, <2>2, <2>3, <3>1 DEF lab
  <2>4. CASE step[d] = "mark" /\ lab.id = objects[n].labID
    BY <2>2, <2>4 DEF lab
  <2> QED
    BY <2>2, <2>3, <2>4
<1>6. \A s, t \in todo'[d] : s.id = t.id => s = t
  BY <1>2 DEF Sole
<1>7. \A s \in todo'[d] : ~labs'[s.id].synced
  BY <1>3 DEF lab
<1>8. OneObjectPerLab'
  BY DEF Sole, OneObjectPerLab
<1> QED
  BY <1>2, <1>5, <1>6, <1>7, <1>8 DEF Sole

LEMMA PollerSole ==
  ASSUME SyncTypeOK, NEW d \in Replicas, Sole(d), Poller(d)
  PROVE  Sole(d)'
<1> DEFINE lab == InHand(d)
<1>1. step[d] # "idle" => lab \in todo[d] /\ lab \in Snapshot /\ lab.id \in Labs
  BY InHandInBatch DEF Snapshot
<1>2. CASE Fetch(d)
  <2> DEFINE batch == {Selected(l) :
                         l \in GetUnsyncedLabs}
  <2>1. /\ todo'[d] = batch /\ step'[d] = "decide" /\ step[d] = "idle"
        /\ UNCHANGED <<labs, objects, informer, left>>
    BY <1>2 DEF Fetch, SyncTypeOK
  <2>2. \A s \in batch : s.id \in GetUnsyncedLabs /\ ~labs[s.id].synced
    <3> TAKE s \in batch
    <3>1. PICK l \in GetUnsyncedLabs : s.id = l
      OBVIOUS
    <3> QED
      BY <3>1 DEF GetUnsyncedLabs, Unsynced
  <2>3. \A s, t \in batch : s.id = t.id => s = t
    OBVIOUS
  <2>4. OneObjectPerLab'
    BY <2>1 DEF Sole, OneObjectPerLab
  <2> HIDE DEF batch
  <2> QED
    BY <2>1, <2>2, <2>3, <2>4 DEF Sole
<1>3. CASE Decide(d)
  <2>1. /\ step[d] = "decide" /\ UNCHANGED <<labs, objects, informer, todo, left>>
        /\ InHand(d)' = InHand(d)
        /\ step'[d] = "create" => ~Known(d, lab)
    BY <1>3, InHandKept DEF Decide, SyncTypeOK
  <2>2. step'[d] = "create" => \A n \in Names : objects[n].labID # lab.id
    <3> SUFFICES ASSUME step'[d] = "create", NEW n \in Names, objects[n].labID = lab.id
                 PROVE  FALSE
      OBVIOUS
    <3>1. ~labs[lab.id].synced /\ lab.id # 0
      BY <1>1, <2>1 DEF Sole, Labs
    <3>2. informer[d][n].exists /\ informer[d][n].labID = lab.id
      BY <2>1, <3>1 DEF Sole
    <3> QED
      BY <2>1, <3>2 DEF Known
  <2>3. OneObjectPerLab'
    BY <2>1 DEF Sole, OneObjectPerLab
  <2> QED
    BY <2>1, <2>2, <2>3 DEF Sole
<1>4. CASE FailLab(d)
  <2>1. \A l \in Labs : labs'[l].synced = labs[l].synced
    BY <1>1, <1>4, SetStateMarksNothing DEF FailLab, Storable, LabStates
  <2> QED
    BY <1>4, <2>1, NextLabSole DEF FailLab, Sole
<1>5. CASE MarkLab(d)
  <2>1. /\ \A l \in Labs : labs'[l].synced = labs[l].synced \/ l = lab.id
        /\ labs'[lab.id].synced
    <3>1. lab.id \in Labs /\ labs[lab.id] \in Lab
      BY <1>1, <1>5 DEF MarkLab, SyncTypeOK
    <3> QED
      BY <1>5, <3>1 DEF MarkLab, MarkLabAsSynced, SyncTypeOK, Lab
  <2> QED
    BY <1>5, <2>1, NextLabSole DEF MarkLab, Sole
<1>6. CASE CreateObject(d)
  <2>1. /\ step[d] = "create" /\ step'[d] = "mark" /\ ~objects[lab.name].exists
        /\ UNCHANGED <<labs, informer, todo, left>> /\ InHand(d)' = lab
        /\ objects' = [objects EXCEPT ![lab.name] =
                         [exists |-> TRUE, labID |-> lab.id, state |-> ""]]
    BY <1>6, InHandKept DEF CreateObject, Create, SyncTypeOK
  <2>2. lab.name \in Names /\ objects \in [Names -> SyncObject]
    BY <1>1, <2>1 DEF Snapshot, SyncTypeOK
  <2>3. /\ objects'[lab.name].labID = lab.id /\ objects'[lab.name].exists
        /\ \A n \in Names \ {lab.name} : objects'[n] = objects[n]
    BY <2>1, <2>2
  <2>4. \A n \in Names : objects[n].labID # lab.id
    BY <2>1 DEF Sole
  <2>5. OneObjectPerLab'
    BY <2>3, <2>4 DEF Sole, OneObjectPerLab
  <2>6. \A n \in Names : objects'[n].labID # 0 =>
          /\ objects'[n].exists
          /\ \/ labs[objects'[n].labID].synced
             \/ lab.id = objects'[n].labID
             \/ informer[d][n].exists /\ informer[d][n].labID = objects'[n].labID
    <3> TAKE n \in Names
    <3>1. CASE n = lab.name
      BY <2>3, <3>1
    <3>2. CASE n # lab.name
      <4>1. objects'[n] = objects[n] /\ step[d] # "mark"
        BY <2>1, <2>3, <3>2
      <4> QED
        BY <4>1 DEF Sole
    <3> QED
      BY <3>1, <3>2
  <2> QED
    BY <2>1, <2>5, <2>6 DEF Sole
<1>7. CASE CreateRefused(d)
  BY <1>7, NextLabSole DEF CreateRefused, Sole
<1>8. ~PollerCallFails(d)
  BY DEF PollerCallFails, Spend, Sole
<1> QED
  BY <1>2, <1>3, <1>4, <1>5, <1>6, <1>7, <1>8 DEF Poller

\* The cache follows the store.
LEMMA CacheSole ==
  ASSUME SyncTypeOK, NEW d \in Replicas, Sole(d), UNCHANGED <<labs, objects>>,
         left'["fault"] = 0,
         \A n \in Names : informer'[d][n] \in {informer[d][n], objects[n]},
         \/ UNCHANGED pollerVars
         \/ /\ todo'[d] = {} /\ step'[d] = "idle"
            /\ \A n \in Names : informer'[d][n] = objects[n]
  PROVE  Sole(d)'
<1>1. OneObjectPerLab'
  BY DEF Sole, OneObjectPerLab
<1>2. CASE UNCHANGED pollerVars
  <2>1. InHand(d)' = InHand(d) /\ step' = step /\ todo' = todo
    BY <1>2, InHandKept DEF pollerVars
  <2> QED
    BY <1>1, <2>1 DEF Sole
<1>3. CASE /\ todo'[d] = {} /\ step'[d] = "idle"
           /\ \A n \in Names : informer'[d][n] = objects[n]
  BY <1>1, <1>3 DEF Sole
<1> QED
  BY <1>2, <1>3

LEMMA NextSole ==
  ASSUME SyncTypeOK, NEW d, Replicas = {d}, Sole(d), [Next]_vars
  PROVE  Sole(d)'
<1>0. d \in Replicas
  OBVIOUS
<1>1. CASE \E e \in Replicas : Poller(e)
  BY <1>0, <1>1, PollerSole
<1>2. CASE \E e \in Replicas : UpdateLab(e) \/ UpdateFails(e)
  <2>1. update[d] # NoUpdate => update[d].lab \in Labs
    BY <1>0 DEF SyncTypeOK, Update
  <2>2. UNCHANGED <<pollerVars, informer, objects>> /\ left' = left
    BY <1>2 DEF UpdateLab, UpdateFails, Spend, Sole
  <2>3. \A l \in Labs : labs'[l].synced = labs[l].synced
    BY <1>2, <2>1, SetStateMarksNothing DEF UpdateLab, UpdateFails
  <2> QED
    BY <1>0, <2>2, <2>3, OthersSole DEF Sole
<1>3. CASE \E e \in Replicas : Restart(e)
  <2>1. left'["fault"] = left["fault"]
    BY <1>3 DEF Restart, Spend, SyncTypeOK, SyncEvents
  <2>2. /\ todo'[d] = {} /\ step'[d] = "idle" /\ UNCHANGED <<labs, objects>>
        /\ \A n \in Names : informer'[d][n] = objects[n]
    BY <1>0, <1>3 DEF Restart, SyncTypeOK
  <2> QED
    BY <1>0, <2>1, <2>2, CacheSole DEF Sole
<1>4. CASE \E e \in Replicas, n \in Names : Reconcile(e, n) \/ Watch(e, n)
  <2>1. \A n \in Names : informer'[d][n] \in {informer[d][n], objects[n]}
    BY <1>0, <1>4 DEF Reconcile, Watch, SyncTypeOK
  <2>2. UNCHANGED <<labs, objects, pollerVars, left>>
    BY <1>4 DEF Reconcile, Watch
  <2> QED
    BY <1>0, <2>1, <2>2, CacheSole DEF Sole
<1>5. ASSUME NEW n \in Names, NEW arrows, Moves(n, arrows) PROVE Sole(d)'
  <2>1. UNCHANGED <<labs, informer, pollerVars, left>>
    BY <1>5 DEF Moves
  <2> QED
    BY <1>0, <1>5, <2>1, MovesKeepsLab, OthersSole DEF Sole
<1>6. CASE Buffalo
  <2>1. UNCHANGED <<objects, informer, pollerVars>> /\ left'["fault"] = left["fault"]
    BY <1>6 DEF Buffalo, Insert, EditLab, ApproveLab, HoldLab, Spend, SyncTypeOK, SyncEvents
  <2>2. \A l \in Labs : labs'[l].synced = labs[l].synced
    BY <1>6, BuffaloRows
  <2> QED
    BY <1>0, <2>1, <2>2, OthersSole DEF Sole
<1>7. CASE Users
  <2>1. UNCHANGED <<labs, informer, pollerVars>> /\ left'["fault"] = left["fault"]
    BY <1>7 DEF Users, CreateByHand, DeleteObject, Spend, SyncTypeOK, SyncEvents
  <2>2. \A n \in Names : \/ objects'[n].labID = 0
                         \/ /\ objects'[n].labID = objects[n].labID
                            /\ objects'[n].exists = objects[n].exists
    BY <1>7, UsersObjects
  <2> QED
    BY <1>0, <2>1, <2>2, OthersSole DEF Sole
<1>8. CASE UNCHANGED vars
  <2>1. UNCHANGED <<labs, objects, informer, pollerVars, left>>
    BY <1>8 DEF vars, pollerVars
  <2> QED
    BY <1>0, <2>1, OthersSole DEF Sole
<1> QED
  BY <1>1, <1>2, <1>3, <1>4, <1>5, <1>6, <1>7, <1>8 DEF Next

\* One active replica whose calls do not fail never gives a lab two objects,
\* with any labs and batches, restarts, edits, deletions and stale caches.
THEOREM ObjectPerLab ==
  ASSUME NEW d, Replicas = {d}, SyncBudget["fault"] = 0
  PROVE  Spec => []OneObjectPerLab
<1>1. Init => Sole(d)
  <2> SUFFICES ASSUME Init PROVE Sole(d)
    OBVIOUS
  <2>1. NoObject.labID = 0
    BY DEF NoObject
  <2>2. \A n \in Names : objects[n].labID = 0
    BY <2>1 DEF Init
  <2> QED
    BY <2>2 DEF Init, Sole, OneObjectPerLab
<1>2. SyncTypeOK /\ Sole(d) /\ [Next]_vars => Sole(d)'
  BY NextSole
<1>3. Sole(d) => OneObjectPerLab
  BY DEF Sole
<1> QED
  BY <1>1, <1>2, <1>3, SyncTypeCorrect, PTL DEF Spec

---------------------------------------------------------------------------
(* A lab is failed only while it has no object                             *)

\* Another lab has an object of the name that s asks for.
Taken(s) == objects[s.name].exists /\ objects[s.name].labID \notin {0, s.id}

\* While rows keep their names and no object is deleted, copies lag behind and
\* are not wrong: objects are those of valid labs that ask for their names, a
\* cached object is still there, a batch has the rows as they are, and a lab
\* to be failed is invalid or has its name taken.
Steady ==
  /\ left["edit"] = 0 /\ left["delete"] = 0
  /\ \A n \in Names : objects[n].labID # 0 =>
       LET l == objects[n].labID IN
       objects[n].exists /\ labs[l].exists /\ labs[l].name = n /\ labs[l].valid
  /\ \A d \in Replicas, n \in Names :
       informer[d][n].exists =>
         objects[n].exists /\ objects[n].labID = informer[d][n].labID
  /\ \A d \in Replicas : \A s \in todo[d] :
       labs[s.id].exists /\ s.name = labs[s.id].name /\ s.valid = labs[s.id].valid
  /\ \A d \in Replicas :
       /\ step[d] = "create" => InHand(d).valid
       /\ step[d] = "fail" => ~InHand(d).valid \/ Taken(InHand(d))

LEMMA SteadyFails == ASSUME SyncTypeOK, Steady PROVE FailsOnlyWithoutObject
<1> SUFFICES ASSUME NEW d \in Replicas, step[d] = "fail", NEW n \in Names,
                    objects[n].exists, objects[n].labID = InHand(d).id
             PROVE  FALSE
  BY DEF FailsOnlyWithoutObject
<1>1. InHand(d) \in todo[d] /\ InHand(d).id # 0
  BY InHandInBatch DEF Snapshot, Labs
<1>2. InHand(d).name = n /\ InHand(d).valid
  BY <1>1 DEF Steady
<1> QED
  BY <1>2 DEF Steady, Taken

\* Rows and objects that stay, caches that follow, and pollers that go on with
\* what they have.
LEMMA SteadyStep ==
  ASSUME SyncTypeOK, Steady, left'["edit"] = 0, left'["delete"] = 0,
         \A l \in Labs : labs[l].exists => /\ labs'[l].exists /\ labs'[l].name = labs[l].name
                                          /\ labs'[l].valid = labs[l].valid,
         \A n \in Names : objects[n].exists => /\ objects'[n].exists
                                              /\ objects'[n].labID = objects[n].labID,
         \A n \in Names : \/ objects'[n].labID \in {0, objects[n].labID}
                          \/ LET l == objects'[n].labID IN
                             /\ l \in Labs /\ objects'[n].exists
                             /\ labs[l].exists /\ labs[l].name = n /\ labs[l].valid,
         \A d \in Replicas, n \in Names : informer'[d][n] \in {informer[d][n], objects[n]},
         \A d \in Replicas : \A s \in todo'[d] :
           \/ s \in todo[d]
           \/ /\ s.id \in Labs
              /\ labs[s.id].exists /\ s.name = labs[s.id].name /\ s.valid = labs[s.id].valid,
         \A d \in Replicas :
           \/ step'[d] \notin {"create", "fail"}
           \/ step'[d] = step[d] /\ InHand(d)' = InHand(d)
           \/ /\ step'[d] = "create" => InHand(d)'.valid
              /\ step'[d] = "fail" => ~InHand(d)'.valid \/ Taken(InHand(d)'),
         \A d \in Replicas : step'[d] = "fail" => InHand(d)'.name \in Names
  PROVE  Steady'
<1>1. \A n \in Names : objects'[n].labID # 0 =>
        LET l == objects'[n].labID IN
        objects'[n].exists /\ labs'[l].exists /\ labs'[l].name = n /\ labs'[l].valid
  <2> SUFFICES ASSUME NEW n \in Names, objects'[n].labID # 0
               PROVE  LET l == objects'[n].labID IN
                      objects'[n].exists /\ labs'[l].exists /\ labs'[l].name = n /\ labs'[l].valid
    OBVIOUS
  <2>1. CASE objects'[n].labID = objects[n].labID
    <3>1. objects[n].labID \in Labs
      BY <2>1, LabIDs
    <3> QED
      BY <2>1, <3>1 DEF Steady
  <2> QED
    BY <2>1
<1>2. \A d \in Replicas, n \in Names :
        informer'[d][n].exists =>
          objects'[n].exists /\ objects'[n].labID = informer'[d][n].labID
  BY DEF Steady
<1>3. \A d \in Replicas : \A s \in todo'[d] :
        labs'[s.id].exists /\ s.name = labs'[s.id].name /\ s.valid = labs'[s.id].valid
  <2> TAKE d \in Replicas
  <2> TAKE s \in todo'[d]
  <2>1. s \in todo[d] => s.id \in Labs
    BY DEF SyncTypeOK, Snapshot
  <2>2. /\ s.id \in Labs
        /\ labs[s.id].exists /\ s.name = labs[s.id].name /\ s.valid = labs[s.id].valid
    BY <2>1 DEF Steady
  <2> QED
    BY <2>2
<1>4. \A d \in Replicas :
        /\ step'[d] = "create" => InHand(d)'.valid
        /\ step'[d] = "fail" => ~InHand(d)'.valid \/ Taken(InHand(d))'
  <2> TAKE d \in Replicas
  <2>1. Taken(InHand(d)') /\ InHand(d)'.name \in Names => Taken(InHand(d))'
    BY DEF Taken
  <2>2. /\ step'[d] = "create" => InHand(d)'.valid
        /\ step'[d] = "fail" => ~InHand(d)'.valid \/ Taken(InHand(d)')
    BY DEF Steady
  <2> QED
    BY <2>1, <2>2
<1> QED
  BY <1>1, <1>2, <1>3, <1>4 DEF Steady

LEMMA SetStateRow ==
  ASSUME SyncTypeOK, NEW l \in Labs, NEW s, SetState(l, s)
  PROVE  \A m \in Labs : /\ labs'[m].exists = labs[m].exists /\ labs'[m].name = labs[m].name
                         /\ labs'[m].valid = labs[m].valid
<1> DEFINE row == [labs[l] EXCEPT !.state = s]
<1>1. labs[l] \in Lab /\ labs \in [Labs -> Lab]
  BY DEF SyncTypeOK
<1>2. row.exists = labs[l].exists /\ row.name = labs[l].name /\ row.valid = labs[l].valid
  BY <1>1 DEF Lab
<1>3. labs' = [labs EXCEPT ![l] = row]
  BY DEF SetState
<1> HIDE DEF row
<1> QED
  BY <1>1, <1>2, <1>3

LEMMA MarkRow ==
  ASSUME SyncTypeOK, NEW l \in Labs, MarkLabAsSynced(l)
  PROVE  \A m \in Labs : /\ labs'[m].exists = labs[m].exists /\ labs'[m].name = labs[m].name
                         /\ labs'[m].valid = labs[m].valid
<1> DEFINE row == [labs[l] EXCEPT !.synced = TRUE]
<1>1. labs[l] \in Lab /\ labs \in [Labs -> Lab]
  BY DEF SyncTypeOK
<1>2. row.exists = labs[l].exists /\ row.name = labs[l].name /\ row.valid = labs[l].valid
  BY <1>1 DEF Lab
<1>3. labs' = [labs EXCEPT ![l] = row]
  BY DEF MarkLabAsSynced
<1> HIDE DEF row
<1> QED
  BY <1>1, <1>2, <1>3

\* An object is created for a lab that asks for its name.
LEMMA CreateSteady ==
  ASSUME SyncTypeOK, Steady, NEW d \in Replicas, step[d] = "create", Create(InHand(d))
  PROVE  /\ \A n \in Names : objects[n].exists => /\ objects'[n].exists
                                                  /\ objects'[n].labID = objects[n].labID
         /\ \A n \in Names : \/ objects'[n].labID \in {0, objects[n].labID}
                             \/ LET l == objects'[n].labID IN
                                /\ l \in Labs /\ objects'[n].exists
                                /\ labs[l].exists /\ labs[l].name = n /\ labs[l].valid
<1> DEFINE lab == InHand(d)
<1>1. lab \in todo[d] /\ lab.id \in Labs /\ lab.name \in Names /\ lab.valid
  BY InHandInBatch DEF Snapshot, Steady
<1>2. labs[lab.id].exists /\ labs[lab.id].name = lab.name /\ labs[lab.id].valid
  BY <1>1 DEF Steady
<1>3. /\ ~objects[lab.name].exists
      /\ objects' = [objects EXCEPT ![lab.name] =
                       [exists |-> TRUE, labID |-> lab.id, state |-> ""]]
  BY DEF Create
<1> HIDE DEF lab
<1>4. /\ objects'[lab.name].exists /\ objects'[lab.name].labID = lab.id
      /\ \A n \in Names \ {lab.name} : objects'[n] = objects[n]
  BY <1>1, <1>3 DEF SyncTypeOK
<1> QED
  BY <1>1, <1>2, <1>3, <1>4

\* The poller goes on to the next lab.
LEMMA NextLabSteady ==
  ASSUME SyncTypeOK, Steady, NEW d \in Replicas, NextLab(d), UNCHANGED informer,
         left'["edit"] = 0, left'["delete"] = 0,
         \A m \in Labs : /\ labs'[m].exists = labs[m].exists /\ labs'[m].name = labs[m].name
                         /\ labs'[m].valid = labs[m].valid,
         \A n \in Names : objects[n].exists => /\ objects'[n].exists
                                              /\ objects'[n].labID = objects[n].labID,
         \A n \in Names : \/ objects'[n].labID \in {0, objects[n].labID}
                          \/ LET l == objects'[n].labID IN
                             /\ l \in Labs /\ objects'[n].exists
                             /\ labs[l].exists /\ labs[l].name = n /\ labs[l].valid
  PROVE  Steady'
<1>1. /\ step'[d] \in {"idle", "decide"} /\ todo'[d] \subseteq todo[d]
      /\ \A e \in Replicas \ {d} : step'[e] = step[e] /\ todo'[e] = todo[e]
  BY DEF NextLab, SyncTypeOK
<1>2. \A e \in Replicas :
        \/ step'[e] \notin {"create", "fail"}
        \/ step'[e] = step[e] /\ InHand(e)' = InHand(e)
  BY <1>1, InHandKept
<1>3. \A e \in Replicas : step'[e] = "fail" => InHand(e)'.name \in Names
  BY <1>1, <1>2, InHandInBatch DEF Snapshot
<1>4. \A e \in Replicas : \A s \in todo'[e] : s \in todo[e]
  BY <1>1
<1> QED
  BY <1>2, <1>3, <1>4, SteadyStep

LEMMA PollerSteady ==
  ASSUME SyncTypeOK, Steady, NEW d \in Replicas, Poller(d)
  PROVE  Steady'
<1> DEFINE lab == InHand(d)
<1>1. step[d] # "idle" => lab \in todo[d] /\ lab \in Snapshot /\ lab.id \in Labs
  BY InHandInBatch DEF Snapshot
<1>2. CASE Fetch(d)
  <2>1. /\ step'[d] = "decide" /\ UNCHANGED <<labs, objects, informer, left>>
        /\ \A e \in Replicas \ {d} : step'[e] = step[e] /\ todo'[e] = todo[e]
    BY <1>2 DEF Fetch, SyncTypeOK
  <2>2. \A s \in todo'[d] : /\ s.id \in Labs /\ labs[s.id].exists
                            /\ s.name = labs[s.id].name /\ s.valid = labs[s.id].valid
    <3> TAKE s \in todo'[d]
    <3>1. PICK l \in GetUnsyncedLabs :
            s = Selected(l)
      BY <1>2 DEF Fetch, SyncTypeOK
    <3> QED
      BY <3>1 DEF GetUnsyncedLabs, Unsynced
  <2>3. \A e \in Replicas :
          \/ step'[e] \notin {"create", "fail"}
          \/ step'[e] = step[e] /\ InHand(e)' = InHand(e)
    BY <2>1, InHandKept
  <2>4. \A e \in Replicas : step'[e] = "fail" => InHand(e)'.name \in Names
    BY <2>1, <2>3, InHandInBatch DEF Snapshot
  <2>5. \A e \in Replicas : \A s \in todo'[e] :
          \/ s \in todo[e]
          \/ /\ s.id \in Labs /\ labs[s.id].exists
             /\ s.name = labs[s.id].name /\ s.valid = labs[s.id].valid
    BY <2>1, <2>2
  <2>6. left'["edit"] = 0 /\ left'["delete"] = 0
    BY <2>1 DEF Steady
  <2> QED
    BY <2>1, <2>3, <2>4, <2>5, <2>6, SteadyStep
<1>3. CASE Decide(d)
  <2>1. /\ UNCHANGED <<labs, objects, informer, todo, left>> /\ step[d] = "decide"
        /\ \A e \in Replicas : InHand(e)' = InHand(e)
        /\ \A e \in Replicas \ {d} : step'[e] = step[e]
    BY <1>3, InHandKept DEF Decide, SyncTypeOK
  <2>2. /\ step'[d] = "create" => lab.valid
        /\ step'[d] = "fail" => ~lab.valid \/ Claimed(d, lab)
    BY <1>3 DEF Decide, SyncTypeOK
  <2>3. Claimed(d, lab) => Taken(lab)
    BY <1>1, <2>1 DEF Claimed, Taken, Steady, Snapshot
  <2>4. \A e \in Replicas : step'[e] = "fail" => InHand(e)'.name \in Names
    BY <1>1, <2>1, InHandInBatch DEF Snapshot
  <2>5. left'["edit"] = 0 /\ left'["delete"] = 0
    BY <2>1 DEF Steady
  <2> QED
    BY <2>1, <2>2, <2>3, <2>4, <2>5, SteadyStep
<1>4. CASE FailLab(d)
  <2>1. step[d] = "fail" /\ NextLab(d) /\ UNCHANGED <<objects, informer, left>>
    BY <1>4 DEF FailLab
  <2> QED
    BY <1>1, <1>4, <2>1, SetStateRow, NextLabSteady DEF FailLab, Steady
<1>5. CASE MarkLab(d)
  <2>1. step[d] = "mark" /\ NextLab(d) /\ UNCHANGED <<objects, informer, left>>
    BY <1>5 DEF MarkLab
  <2> QED
    BY <1>1, <1>5, <2>1, MarkRow, NextLabSteady DEF MarkLab, Steady
<1>6. CASE CreateObject(d)
  <2>1. /\ step'[d] = "mark" /\ UNCHANGED <<labs, informer, todo, left>>
        /\ \A e \in Replicas : InHand(e)' = InHand(e)
        /\ \A e \in Replicas \ {d} : step'[e] = step[e]
    BY <1>6, InHandKept DEF CreateObject, SyncTypeOK
  <2>2. \A e \in Replicas : step'[e] = "fail" => InHand(e)'.name \in Names
    BY <2>1, InHandInBatch DEF Snapshot
  <2>3. left'["edit"] = 0 /\ left'["delete"] = 0
    BY <2>1 DEF Steady
  <2> QED
    BY <1>6, <2>1, <2>2, <2>3, CreateSteady, SteadyStep DEF CreateObject
<1>7. CASE CreateRefused(d)
  BY <1>7, NextLabSteady DEF CreateRefused, Steady
<1>8. CASE PollerCallFails(d)
  <2>1. /\ left'["edit"] = 0 /\ left'["delete"] = 0 /\ NextLab(d) /\ UNCHANGED informer
        /\ step[d] # "idle"
    BY <1>8 DEF PollerCallFails, Spend, SyncTypeOK, SyncEvents, Steady
  <2>2. CASE UNCHANGED <<labs, objects, created>>
    BY <2>1, <2>2, NextLabSteady
  <2>3. CASE SetState(lab.id, "failed") /\ UNCHANGED <<objects, created>>
    BY <1>1, <2>1, <2>3, SetStateRow, NextLabSteady
  <2>4. CASE MarkLabAsSynced(lab.id) /\ UNCHANGED <<objects, created>>
    BY <1>1, <2>1, <2>4, MarkRow, NextLabSteady
  <2>5. CASE step[d] = "create" /\ Create(lab) /\ UNCHANGED labs
    BY <2>1, <2>5, CreateSteady, NextLabSteady
  <2> QED
    BY <1>8, <2>2, <2>3, <2>4, <2>5 DEF PollerCallFails
<1> QED
  BY <1>2, <1>3, <1>4, <1>5, <1>6, <1>7, <1>8 DEF Poller

\* While the pollers rest.
LEMMA RestSteady ==
  ASSUME SyncTypeOK, Steady, UNCHANGED pollerVars, left'["edit"] = 0, left'["delete"] = 0,
         \A l \in Labs : labs[l].exists => /\ labs'[l].exists /\ labs'[l].name = labs[l].name
                                          /\ labs'[l].valid = labs[l].valid,
         \A n \in Names : objects[n].exists => /\ objects'[n].exists
                                              /\ objects'[n].labID = objects[n].labID,
         \A n \in Names : objects'[n].labID \in {0, objects[n].labID},
         \A d \in Replicas, n \in Names : informer'[d][n] \in {informer[d][n], objects[n]}
  PROVE  Steady'
<1>1. /\ UNCHANGED <<step, todo>>
      /\ \A e \in Replicas : InHand(e)' = InHand(e)
  BY InHandKept DEF pollerVars
<1>2. \A e \in Replicas : step'[e] = "fail" => InHand(e)'.name \in Names
  BY <1>1, InHandInBatch DEF Snapshot
<1> QED
  BY <1>1, <1>2, SteadyStep

LEMMA NextSteady ==
  ASSUME SyncTypeOK, Steady, [Next]_vars
  PROVE  Steady'
<1>1. CASE \E d \in Replicas : Poller(d)
  BY <1>1, PollerSteady
<1>2. ASSUME NEW d \in Replicas, UpdateLab(d) \/ UpdateFails(d) PROVE Steady'
  <2>1. update[d].lab \in Labs
    BY <1>2 DEF SyncTypeOK, Update, UpdateLab, UpdateFails
  <2>2. /\ UNCHANGED <<pollerVars, informer, objects>>
        /\ left'["edit"] = 0 /\ left'["delete"] = 0
    BY <1>2 DEF UpdateLab, UpdateFails, Spend, SyncTypeOK, SyncEvents, Steady
  <2>3. UNCHANGED labs \/ \E s \in Storable : SetState(update[d].lab, s)
    BY <1>2 DEF UpdateLab, UpdateFails
  <2>4. \A m \in Labs : /\ labs'[m].exists = labs[m].exists /\ labs'[m].name = labs[m].name
                        /\ labs'[m].valid = labs[m].valid
    BY <2>1, <2>3, SetStateRow
  <2> QED
    BY <2>2, <2>4, RestSteady
<1>3. ASSUME NEW d \in Replicas, Restart(d) PROVE Steady'
  <2>1. /\ UNCHANGED <<labs, objects>> /\ left'["edit"] = 0 /\ left'["delete"] = 0
        /\ step'[d] = "idle" /\ todo'[d] = {}
        /\ \A e \in Replicas \ {d} : step'[e] = step[e] /\ todo'[e] = todo[e]
        /\ \A e \in Replicas, n \in Names : informer'[e][n] \in {informer[e][n], objects[n]}
    BY <1>3 DEF Restart, Spend, SyncTypeOK, SyncEvents, Steady
  <2>2. \A e \in Replicas :
          \/ step'[e] \notin {"create", "fail"}
          \/ step'[e] = step[e] /\ InHand(e)' = InHand(e)
    BY <2>1, InHandKept
  <2>3. \A e \in Replicas : step'[e] = "fail" => InHand(e)'.name \in Names
    BY <2>1, <2>2, InHandInBatch DEF Snapshot
  <2>4. \A e \in Replicas : \A s \in todo'[e] : s \in todo[e]
    BY <2>1
  <2> QED
    BY <2>1, <2>2, <2>3, <2>4, SteadyStep
<1>4. CASE \E d \in Replicas, n \in Names : Reconcile(d, n) \/ Watch(d, n)
  <2>1. \A d \in Replicas, n \in Names : informer'[d][n] \in {informer[d][n], objects[n]}
    BY <1>4 DEF Reconcile, Watch, SyncTypeOK
  <2>2. UNCHANGED <<labs, objects, pollerVars, left>>
    BY <1>4 DEF Reconcile, Watch
  <2> QED
    BY <2>1, <2>2, RestSteady DEF Steady
<1>5. ASSUME NEW n \in Names, NEW arrows, Moves(n, arrows) PROVE Steady'
  <2>1. UNCHANGED <<labs, informer, pollerVars, left>>
    BY <1>5 DEF Moves
  <2> QED
    BY <1>5, <2>1, MovesKeepsLab, RestSteady DEF Steady
<1>6. CASE Buffalo
  <2>0. /\ UNCHANGED <<objects, informer, pollerVars>>
        /\ left' = left \/ Spend("edit") \/ Spend("hold")
    BY <1>6 DEF Buffalo, Insert, EditLab, ApproveLab, HoldLab
  <2>1. left'["edit"] = 0 /\ left'["delete"] = 0
    BY <2>0 DEF Spend, SyncTypeOK, SyncEvents, Steady
  <2>2. \A l \in Labs : labs[l].exists => /\ labs'[l].exists /\ labs'[l].name = labs[l].name
                                         /\ labs'[l].valid = labs[l].valid
    BY <1>6, BuffaloRows DEF Steady
  <2> QED
    BY <2>0, <2>1, <2>2, RestSteady
<1>7. CASE Users
  <2>0. /\ UNCHANGED <<labs, informer, pollerVars>>
        /\ Spend("manual") \/ Spend("delete")
    BY <1>7 DEF Users, CreateByHand, DeleteObject
  <2>1. left'["edit"] = 0 /\ left'["delete"] = 0
    BY <2>0 DEF Spend, SyncTypeOK, SyncEvents, Steady
  <2>2. \A n \in Names : \/ objects'[n] = objects[n]
                         \/ ~objects[n].exists /\ objects'[n].labID = 0
    BY <1>7, UsersObjects DEF Steady
  <2> QED
    BY <2>0, <2>1, <2>2, RestSteady
<1>8. CASE UNCHANGED vars
  <2>1. UNCHANGED <<labs, objects, informer, pollerVars, left>>
    BY <1>8 DEF vars, pollerVars
  <2> QED
    BY <2>1, RestSteady DEF Steady
<1> QED
  BY <1>1, <1>2, <1>3, <1>4, <1>5, <1>6, <1>7, <1>8 DEF Next

\* The poller fails a lab only while no object of the lab is there, with any
\* number of replicas, faults and restarts, as long as no row is edited and no
\* object deleted under it.
THEOREM FailedHasNoObject ==
  ASSUME SyncBudget["edit"] = 0, SyncBudget["delete"] = 0
  PROVE  Spec => []FailsOnlyWithoutObject
<1>1. Init => Steady
  <2> SUFFICES ASSUME Init PROVE Steady
    OBVIOUS
  <2>1. NoObject.labID = 0 /\ ~NoObject.exists
    BY DEF NoObject
  <2>2. /\ \A n \in Names : objects[n] = NoObject
        /\ \A d \in Replicas, n \in Names : informer[d][n] = NoObject
        /\ \A d \in Replicas : step[d] = "idle" /\ todo[d] = {}
        /\ left = SyncBudget
    BY DEF Init
  <2> QED
    BY <2>1, <2>2 DEF Steady
<1>2. SyncTypeOK /\ Steady /\ [Next]_vars => Steady'
  BY NextSteady
<1>3. SyncTypeOK /\ Steady => FailsOnlyWithoutObject
  BY SteadyFails
<1> QED
  BY <1>1, <1>2, <1>3, SyncTypeCorrect, PTL DEF Spec
---------------------------------------------------------------------------
(* No lab has two objects as long as no row is edited                      *)

\* The object of a lab has the name that the lab asks for, and batches know it.
Named ==
  /\ left["edit"] = 0
  /\ \A n \in Names : objects[n].labID # 0 =>
       labs[objects[n].labID].exists /\ labs[objects[n].labID].name = n
  /\ \A d \in Replicas : \A s \in todo[d] :
       labs[s.id].exists /\ labs[s.id].name = s.name

\* Of rows and objects, what a step of the sync or of the others can change.
LEMMA NextRows ==
  ASSUME SyncTypeOK, [Next]_vars, left["edit"] = 0
  PROVE  \A l \in Labs : labs[l].exists => labs'[l].exists /\ labs'[l].name = labs[l].name
<1> DEFINE Goal == \A l \in Labs : labs[l].exists => labs'[l].exists /\ labs'[l].name = labs[l].name
<1>1. CASE UNCHANGED labs
  BY <1>1
<1>2. ASSUME NEW l \in Labs, NEW s, SetState(l, s) PROVE Goal
  BY <1>2, SetStateRow
<1>3. ASSUME NEW l \in Labs, MarkLabAsSynced(l) PROVE Goal
  BY <1>3, MarkRow
<1>4. CASE Buffalo
  BY <1>4, BuffaloRows
<1>5. ASSUME NEW d \in Replicas, Poller(d) PROVE Goal
  <2>1. step[d] # "idle" => InHand(d).id \in Labs
    BY InHandInBatch DEF Snapshot
  <2> QED
    BY <1>1, <1>2, <1>3, <1>5, <2>1
       DEF Poller, Fetch, Decide, FailLab, MarkLab, CreateObject, CreateRefused,
           PollerCallFails, Create
<1>6. ASSUME NEW d \in Replicas, UpdateLab(d) \/ UpdateFails(d) PROVE Goal
  <2>1. update[d].lab \in Labs
    BY <1>6 DEF SyncTypeOK, Update, UpdateLab, UpdateFails
  <2> QED
    BY <1>1, <1>2, <1>6, <2>1 DEF UpdateLab, UpdateFails
<1> QED
  BY <1>1, <1>4, <1>5, <1>6
     DEF Next, vars, Restart, Reconcile, Watch, Moves, Users

LEMMA NextObjects ==
  ASSUME SyncTypeOK, [Next]_vars
  PROVE  \A n \in Names :
           \/ objects'[n].labID \in {0, objects[n].labID}
           \/ \E d \in Replicas : \E s \in todo[d] : n = s.name /\ objects'[n].labID = s.id
<1> DEFINE Goal == \A n \in Names :
             \/ objects'[n].labID \in {0, objects[n].labID}
             \/ \E d \in Replicas : \E s \in todo[d] : n = s.name /\ objects'[n].labID = s.id
<1>1. CASE UNCHANGED objects
  BY <1>1
<1>2. ASSUME NEW d \in Replicas, step[d] = "create", Create(InHand(d)) PROVE Goal
  <2> DEFINE s == InHand(d)
  <2>1. s \in todo[d] /\ s.name \in Names
    BY <1>2, InHandInBatch DEF Snapshot
  <2>2. objects' = [objects EXCEPT ![s.name] = [exists |-> TRUE, labID |-> s.id, state |-> ""]]
    BY <1>2 DEF Create
  <2> HIDE DEF s
  <2>3. \A n \in Names : objects'[n] = objects[n] \/ (n = s.name /\ objects'[n].labID = s.id)
    BY <2>1, <2>2 DEF SyncTypeOK
  <2> QED
    BY <2>1, <2>3
<1>3. ASSUME NEW d \in Replicas, Poller(d) PROVE Goal
  BY <1>1, <1>2, <1>3
     DEF Poller, Fetch, Decide, FailLab, MarkLab, CreateObject, CreateRefused, PollerCallFails
<1>4. ASSUME NEW n \in Names, NEW arrows, Moves(n, arrows) PROVE Goal
  BY <1>4, MovesKeepsLab
<1>5. CASE Users
  BY <1>5, UsersObjects
<1> QED
  BY <1>1, <1>3, <1>4, <1>5
     DEF Next, vars, UpdateLab, UpdateFails, Restart, Reconcile, Watch, Buffalo

\* A batch grows by rows as they are.
LEMMA NextBatches ==
  ASSUME SyncTypeOK, [Next]_vars
  PROVE  \A d \in Replicas : \A s \in todo'[d] :
           \/ s \in todo[d]
           \/ /\ s.id \in Labs /\ Unsynced(s.id)
              /\ s = Selected(s.id)
<1> DEFINE Goal == \A d \in Replicas : \A s \in todo'[d] :
             \/ s \in todo[d]
             \/ /\ s.id \in Labs /\ Unsynced(s.id)
                /\ s = Selected(s.id)
<1>1. CASE UNCHANGED todo
  BY <1>1
<1>2. ASSUME NEW d \in Replicas, NextLab(d) \/ Restart(d) PROVE Goal
  BY <1>2 DEF NextLab, Restart, SyncTypeOK
<1>3. ASSUME NEW d \in Replicas, Fetch(d) PROVE Goal
  <2>1. ASSUME NEW s \in todo'[d]
        PROVE  /\ s.id \in Labs /\ Unsynced(s.id)
               /\ s = Selected(s.id)
    <3>1. PICK l \in GetUnsyncedLabs :
            s = Selected(l)
      BY <1>3 DEF Fetch, SyncTypeOK
    <3>2. s.id = l /\ l \in Labs /\ Unsynced(l)
      BY <3>1 DEF GetUnsyncedLabs
    <3> QED
      BY <3>1, <3>2
  <2>2. \A e \in Replicas \ {d} : todo'[e] = todo[e]
    BY <1>3 DEF Fetch, SyncTypeOK
  <2> QED
    BY <2>1, <2>2
<1>4. ASSUME NEW d \in Replicas, Poller(d) PROVE Goal
  BY <1>1, <1>2, <1>3, <1>4
     DEF Poller, Decide, FailLab, MarkLab, CreateObject, CreateRefused, PollerCallFails
<1> QED
  BY <1>1, <1>2, <1>4
     DEF Next, vars, pollerVars, UpdateLab, UpdateFails, Reconcile, Watch, Moves, Buffalo, Users

LEMMA NextSpends ==
  ASSUME SyncTypeOK, [Next]_vars, NEW event \in SyncEvents, left[event] = 0
  PROVE  left'[event] = 0
<1>1. ASSUME NEW other \in SyncEvents, Spend(other) PROVE left'[event] = 0
  BY <1>1 DEF Spend, SyncTypeOK
<1> QED
  BY <1>1
     DEF SyncEvents, Next, vars, Poller, Fetch, Decide, FailLab, MarkLab, CreateObject,
         CreateRefused, PollerCallFails, UpdateLab, UpdateFails, Restart, Reconcile, Watch,
         Moves, Buffalo, Insert, ApproveLab, EditLab, HoldLab, Users, CreateByHand,
         DeleteObject

LEMMA NextNamed == ASSUME SyncTypeOK, Named, [Next]_vars PROVE Named'
<1>1. left'["edit"] = 0
  BY NextSpends DEF Named, SyncEvents
<1>2. \A l \in Labs : labs[l].exists => labs'[l].exists /\ labs'[l].name = labs[l].name
  BY NextRows DEF Named
<1>3. \A d \in Replicas : \A s \in todo[d] :
        s.id \in Labs /\ labs[s.id].exists /\ labs[s.id].name = s.name
  BY DEF Named, SyncTypeOK, Snapshot
<1>4. ASSUME NEW n \in Names, objects'[n].labID # 0
      PROVE  labs'[objects'[n].labID].exists /\ labs'[objects'[n].labID].name = n
  <2>1. CASE objects'[n].labID = objects[n].labID
    <3>1. objects[n].labID \in Labs
      BY <1>4, <2>1, LabIDs
    <3> QED
      BY <1>2, <1>4, <2>1, <3>1 DEF Named
  <2>2. CASE \E d \in Replicas : \E s \in todo[d] : n = s.name /\ objects'[n].labID = s.id
    BY <1>2, <1>3, <2>2
  <2> QED
    BY <1>4, <2>1, <2>2, NextObjects
<1>5. ASSUME NEW d \in Replicas, NEW s \in todo'[d]
      PROVE  labs'[s.id].exists /\ labs'[s.id].name = s.name
  <2>1. CASE s \in todo[d]
    BY <1>2, <1>3, <2>1
  <2>2. CASE /\ s.id \in Labs /\ Unsynced(s.id)
             /\ s = Selected(s.id)
    <3>1. labs[s.id].exists /\ s.name = labs[s.id].name
      BY <2>2 DEF Unsynced
    <3> QED
      BY <1>2, <2>2, <3>1
  <2> QED
    BY <1>5, <2>1, <2>2, NextBatches
<1> QED
  BY <1>1, <1>4, <1>5 DEF Named

\* Without edits of rows a lab never has two objects, with any number of replicas
\* that work on the same rows, and any faults, deletions and restarts.  With
\* ObjectPerLab: it takes an edit, and besides a fault or a second replica.
THEOREM ObjectPerLabWithoutEdits ==
  ASSUME SyncBudget["edit"] = 0
  PROVE  Spec => []OneObjectPerLab
<1>1. Init => Named
  <2> SUFFICES ASSUME Init PROVE Named
    OBVIOUS
  <2>1. \A n \in Names : objects[n].labID = 0
    BY DEF Init, NoObject
  <2> QED
    BY <2>1 DEF Init, Named
<1>2. SyncTypeOK /\ Named /\ [Next]_vars => Named'
  BY NextNamed
<1>3. Named => OneObjectPerLab
  BY DEF Named, OneObjectPerLab
<1> QED
  BY <1>1, <1>2, <1>3, SyncTypeCorrect, PTL DEF Spec
---------------------------------------------------------------------------
(* The sync implements LabSync                                             *)

\* A poller creates an object only for a lab that it found valid.
Prepared == \A d \in Replicas : step[d] = "create" => InHand(d).valid

\* What is concluded is forgotten when a poller leaves its lab and when a watcher
\* has no statement left.
LEMMA ConclusionsGo ==
  ASSUME \A d \in Replicas : step'[d] = "fail" => step[d] = "fail" /\ InHand(d)' = InHand(d),
         \A d \in Replicas : update'[d] \in {update[d], NoUpdate}
  PROVE  toFail' \subseteq toFail /\ toReport' \subseteq toReport
<1>1. toFail' \subseteq toFail
  BY DEF toFail
<1>2. toReport' \subseteq toReport
  BY DEF toReport
<1> QED
  BY <1>1, <1>2

\* A step that only forgets.
LEMMA OnlyForgets ==
  ASSUME SyncTypeOK, UNCHANGED informer,
         \A d \in Replicas : todo'[d] \subseteq todo[d],
         \A d \in Replicas : step'[d] = "fail" => step[d] = "fail" /\ InHand(d)' = InHand(d),
         \A d \in Replicas : update'[d] \in {update[d], NoUpdate}
  PROVE  Abstract!Forgets
<1>1. rowsRead' \subseteq rowsRead
  BY DEF rowsRead
<1>2. objectsRead' = objectsRead
  BY DEF objectsRead
<1> QED
  BY <1>1, <1>2, ConclusionsGo DEF Abstract!Forgets

\* A step that reads, and forgets, rows as they are and objects as they are.
LEMMA OnlyReads ==
  ASSUME SyncTypeOK, [Next]_vars, UNCHANGED <<labs, objects, created>>,
         \A d \in Replicas, n \in Names : informer'[d][n] \in {informer[d][n], objects[n]},
         \A d \in Replicas : step'[d] = "fail" => step[d] = "fail" /\ InHand(d)' = InHand(d),
         \A d \in Replicas : update'[d] \in {update[d], NoUpdate}
  PROVE  Abstract!LabSyncNext
<1>1. ASSUME NEW s \in rowsRead'
      PROVE  s \in rowsRead \/ \E l \in Labs : Abstract!Waiting(l) /\ s = Abstract!Asked(l)
  <2>1. PICK d \in Replicas : s \in todo'[d]
    BY <1>1 DEF rowsRead
  <2>2. CASE s \in todo[d]
    BY <2>2 DEF rowsRead
  <2>3. CASE /\ s.id \in Labs /\ Unsynced(s.id)
             /\ s = Selected(s.id)
    BY <2>3 DEF Unsynced, Abstract!Waiting, Abstract!Asked
  <2> QED
    BY <2>1, <2>2, <2>3, NextBatches
<1>2. rowsRead' \subseteq
        rowsRead \union {Abstract!Asked(l) : l \in {m \in Labs : Abstract!Waiting(m)}}
  BY <1>1
<1>3. objectsRead' \subseteq objectsRead \union {<<n, objects[n]>> : n \in Names}
  BY DEF objectsRead
<1>4. Abstract!Reads
  BY <1>2, <1>3, ConclusionsGo DEF Abstract!Reads, Abstract!stores
<1> QED
  BY <1>4 DEF Abstract!LabSyncNext, Abstract!Operator

\* A poller that goes on forgets the lab it had in hand, and nothing besides.
LEMMA NextLabForgets ==
  ASSUME SyncTypeOK, NEW d \in Replicas, NextLab(d), UNCHANGED update
  PROVE  /\ \A e \in Replicas : todo'[e] \subseteq todo[e]
         /\ \A e \in Replicas : step'[e] = "fail" => step[e] = "fail" /\ InHand(e)' = InHand(e)
         /\ \A e \in Replicas : update'[e] \in {update[e], NoUpdate}
<1>1. step'[d] # "fail" /\ todo'[d] \subseteq todo[d]
  BY DEF NextLab, SyncTypeOK
<1>2. \A e \in Replicas \ {d} : step'[e] = step[e] /\ todo'[e] = todo[e]
  BY DEF NextLab, SyncTypeOK
<1> QED
  BY <1>1, <1>2, InHandKept

LEMMA DecideImplements ==
  ASSUME SyncTypeOK, [Next]_vars, NEW d \in Replicas, Decide(d)
  PROVE  Abstract!LabSyncNext
<1> DEFINE lab == InHand(d)
<1>1. lab \in todo[d] /\ lab \in Snapshot
  BY InHandInBatch DEF Decide
<1>2. /\ UNCHANGED <<labs, objects, created, informer, todo, update>>
      /\ \A e \in Replicas : InHand(e)' = InHand(e)
      /\ \A e \in Replicas \ {d} : step'[e] = step[e]
      /\ step'[d] = "fail" => ~lab.valid \/ Claimed(d, lab)
  BY InHandKept DEF Decide, SyncTypeOK, watcherVars
<1>3. CASE step'[d] = "fail"
  <2>1. ~lab.valid \/ Abstract!Taken(lab)
    <3>1. CASE Claimed(d, lab)
      <4>1. <<lab.name, informer[d][lab.name]>> \in objectsRead
        BY <1>1 DEF objectsRead, Snapshot
      <4> QED
        BY <3>1, <4>1 DEF Claimed, Abstract!Taken
    <3> QED
      BY <1>2, <1>3, <3>1
  <2>2. toFail' \subseteq toFail \union {lab.id}
    <3>1. ASSUME NEW i \in toFail' PROVE i \in toFail \union {lab.id}
      <4>1. PICK e \in Replicas : step'[e] = "fail" /\ i = InHand(e)'.id
        BY <3>1 DEF toFail
      <4>2. e = d \/ (step[e] = "fail" /\ i = InHand(e).id)
        BY <1>2, <4>1
      <4> QED
        BY <1>2, <4>1, <4>2 DEF toFail
    <3> QED
      BY <3>1
  <2>3. lab \in rowsRead
    BY <1>1 DEF rowsRead
  <2>4. UNCHANGED <<rowsRead, objectsRead, toReport>>
    BY <1>2 DEF rowsRead, objectsRead, toReport
  <2>5. Abstract!Refuses(lab)
    BY <1>2, <2>1, <2>2, <2>4 DEF Abstract!Refuses, Abstract!stores
  <2> QED
    BY <2>3, <2>5 DEF Abstract!LabSyncNext, Abstract!Operator
<1>4. CASE step'[d] # "fail"
  BY <1>2, <1>4, OnlyReads
<1> QED
  BY <1>3, <1>4

\* A call of a poller, with its effect or without.
LEMMA CallImplements ==
  ASSUME SyncTypeOK, Backed, Prepared, [Next]_vars, UNCHANGED <<informer, update>>,
         NEW d \in Replicas, step[d] \in {"fail", "mark", "create"},
         \A e \in Replicas : todo'[e] \subseteq todo[e],
         \A e \in Replicas : step'[e] = "fail" => step[e] = "fail" /\ InHand(e)' = InHand(e),
         \/ UNCHANGED <<labs, objects, created>>
         \/ /\ step[d] = "fail" /\ SetState(InHand(d).id, "failed")
            /\ UNCHANGED <<objects, created>>
         \/ /\ step[d] = "mark" /\ MarkLabAsSynced(InHand(d).id)
            /\ UNCHANGED <<objects, created>>
         \/ step[d] = "create" /\ Create(InHand(d)) /\ UNCHANGED labs
  PROVE  Abstract!LabSyncNext
<1> DEFINE lab == InHand(d)
<1>1. lab \in todo[d] /\ lab \in rowsRead
  BY InHandInBatch DEF rowsRead
<1>2. Abstract!Forgets
  BY OnlyForgets
<1>3. CASE UNCHANGED <<labs, objects, created>>
  BY <1>3, OnlyReads
<1>4. CASE step[d] = "fail" /\ SetState(lab.id, "failed") /\ UNCHANGED <<objects, created>>
  <2>1. lab.id \in toFail
    BY <1>4 DEF toFail
  <2>2. Abstract!Sets(lab.id, "failed")
    BY <1>2, <1>4 DEF SetState, Abstract!Sets
  <2> QED
    BY <2>1, <2>2 DEF Abstract!LabSyncNext, Abstract!Operator
<1>5. CASE step[d] = "mark" /\ MarkLabAsSynced(lab.id) /\ UNCHANGED <<objects, created>>
  <2>1. lab.id \in created
    BY <1>5 DEF Backed
  <2>2. Abstract!Marks(lab.id)
    BY <1>2, <1>5 DEF MarkLabAsSynced, Abstract!Marks
  <2> QED
    BY <2>1, <2>2 DEF Abstract!LabSyncNext, Abstract!Operator
<1>6. CASE step[d] = "create" /\ Create(lab) /\ UNCHANGED labs
  <2>1. lab.valid
    BY <1>6 DEF Prepared
  <2>2. Abstract!Creates(lab)
    BY <1>2, <1>6, <2>1, Zenon DEF Create, Abstract!Creates
  <2> QED
    BY <1>1, <2>2 DEF Abstract!LabSyncNext, Abstract!Operator
<1> QED
  BY <1>3, <1>4, <1>5, <1>6

LEMMA PollerImplements ==
  ASSUME SyncTypeOK, Backed, Prepared, [Next]_vars, NEW d \in Replicas, Poller(d)
  PROVE  Abstract!LabSyncNext
<1>1. CASE Fetch(d)
  <2>1. /\ UNCHANGED <<labs, objects, created, informer, update>>
        /\ step'[d] # "fail"
        /\ \A e \in Replicas \ {d} : step'[e] = step[e] /\ todo'[e] = todo[e]
    BY <1>1 DEF Fetch, SyncTypeOK, watcherVars
  <2>2. \A e \in Replicas : step'[e] = "fail" => step[e] = "fail" /\ InHand(e)' = InHand(e)
    BY <2>1, InHandKept
  <2> QED
    BY <2>1, <2>2, OnlyReads
<1>2. CASE Decide(d)
  BY <1>2, DecideImplements
<1>3. CASE CreateObject(d)
  <2>1. /\ step[d] = "create" /\ Create(InHand(d))
        /\ UNCHANGED <<labs, informer, todo, update>>
        /\ step'[d] # "fail" /\ \A e \in Replicas \ {d} : step'[e] = step[e]
    BY <1>3 DEF CreateObject, SyncTypeOK, watcherVars
  <2>2. \A e \in Replicas : step'[e] = "fail" => step[e] = "fail" /\ InHand(e)' = InHand(e)
    BY <2>1, InHandKept
  <2>3. \A e \in Replicas : todo'[e] \subseteq todo[e]
    BY <2>1
  <2> QED
    BY <2>1, <2>2, <2>3, CallImplements
<1>4. CASE FailLab(d) \/ MarkLab(d) \/ CreateRefused(d) \/ PollerCallFails(d)
  <2>1. /\ NextLab(d) /\ UNCHANGED <<informer, update>>
        /\ step[d] \in {"fail", "mark", "create"}
    BY <1>4 DEF FailLab, MarkLab, CreateRefused, PollerCallFails, watcherVars
  <2>2. \/ UNCHANGED <<labs, objects, created>>
        \/ /\ step[d] = "fail" /\ SetState(InHand(d).id, "failed")
           /\ UNCHANGED <<objects, created>>
        \/ /\ step[d] = "mark" /\ MarkLabAsSynced(InHand(d).id)
           /\ UNCHANGED <<objects, created>>
        \/ step[d] = "create" /\ Create(InHand(d)) /\ UNCHANGED labs
    BY <1>4 DEF FailLab, MarkLab, CreateRefused, PollerCallFails
  <2> QED
    BY <2>1, <2>2, NextLabForgets, CallImplements
<1> QED
  BY <1>1, <1>2, <1>3, <1>4 DEF Poller

\* What the pollers know stays while they rest.
LEMMA PollersRest ==
  ASSUME UNCHANGED <<pollerVars, informer>>
  PROVE  /\ UNCHANGED <<rowsRead, objectsRead, toFail>>
         /\ \A d \in Replicas : todo'[d] \subseteq todo[d]
         /\ \A d \in Replicas : step'[d] = "fail" => step[d] = "fail" /\ InHand(d)' = InHand(d)
<1>1. UNCHANGED <<step, todo, informer>> /\ \A d \in Replicas : InHand(d)' = InHand(d)
  BY InHandKept DEF pollerVars
<1>2. toFail' = toFail
  BY <1>1 DEF toFail
<1> QED
  BY <1>1, <1>2 DEF rowsRead, objectsRead

LEMMA WatcherImplements ==
  ASSUME SyncTypeOK, [Next]_vars, NEW d \in Replicas, NEW n \in Names,
         UpdateLab(d) \/ UpdateFails(d) \/ Restart(d) \/ Reconcile(d, n) \/ Watch(d, n)
  PROVE  Abstract!LabSyncNext
<1>1. CASE UpdateLab(d) \/ UpdateFails(d)
  <2> DEFINE report == <<update[d].lab, update[d].state>>
  <2>1. report \in toReport
    BY <1>1 DEF UpdateLab, UpdateFails, toReport
  <2>2. UNCHANGED <<objects, created, informer, pollerVars>>
    BY <1>1 DEF UpdateLab, UpdateFails
  <2>3. \A e \in Replicas : update'[e] \in {update[e], NoUpdate}
    BY <1>1 DEF UpdateLab, UpdateFails, SyncTypeOK
  <2>4. CASE SetState(update[d].lab, update[d].state)
    <3>1. Abstract!Forgets
      BY <2>2, <2>3, PollersRest, OnlyForgets
    <3>2. Abstract!Sets(report[1], report[2])
      BY <2>2, <2>4, <3>1 DEF SetState, Abstract!Sets
    <3> QED
      BY <2>1, <3>2 DEF Abstract!LabSyncNext, Abstract!Operator
  <2>5. CASE UNCHANGED labs
    BY <2>2, <2>3, <2>5, PollersRest, OnlyReads
  <2> QED
    BY <1>1, <2>4, <2>5 DEF UpdateLab, UpdateFails
<1>2. CASE Restart(d)
  <2>1. /\ UNCHANGED <<labs, objects, created>>
        /\ step'[d] = "idle"
        /\ \A e \in Replicas \ {d} : step'[e] = step[e] /\ todo'[e] = todo[e]
        /\ \A e \in Replicas : update'[e] \in {update[e], NoUpdate}
        /\ \A e \in Replicas, m \in Names : informer'[e][m] \in {informer[e][m], objects[m]}
    BY <1>2 DEF Restart, SyncTypeOK
  <2>2. \A e \in Replicas : step'[e] = "fail" => step[e] = "fail" /\ InHand(e)' = InHand(e)
    BY <2>1, InHandKept
  <2> QED
    BY <2>1, <2>2, OnlyReads
<1>3. CASE Reconcile(d, n)
  <2> DEFINE o == informer[d][n]
  <2>1. UNCHANGED <<labs, objects, created, informer, pollerVars>>
    BY <1>3 DEF Reconcile
  <2>2. CASE Reported(o)
    <3>1. /\ update'[d].lab = o.labID /\ update'[d].state = o.state
          /\ \A e \in Replicas \ {d} : update'[e] = update[e]
      BY <1>3, <2>2 DEF Reconcile, SyncTypeOK
    <3>2. toReport' \subseteq toReport \union {<<o.labID, o.state>>}
      <4>1. ASSUME NEW report \in toReport'
            PROVE  report \in toReport \union {<<o.labID, o.state>>}
        <5>1. PICK e \in Replicas : /\ update'[e] # NoUpdate
                                    /\ report = <<update'[e].lab, update'[e].state>>
          BY <4>1 DEF toReport
        <5> QED
          BY <3>1, <5>1 DEF toReport
      <4> QED
        BY <4>1
    <3>3. Abstract!Notes(o)
      BY <2>1, <2>2, <3>2, PollersRest DEF Reported, SyncedStates, Abstract!Notes, Abstract!stores
    <3>4. <<n, o>> \in objectsRead /\ <<n, o>>[2] = o
      BY DEF objectsRead
    <3> QED
      BY <3>3, <3>4 DEF Abstract!LabSyncNext, Abstract!Operator
  <2>3. CASE ~Reported(o)
    <3>1. UNCHANGED update
      BY <1>3, <2>3 DEF Reconcile
    <3> QED
      BY <2>1, <3>1, PollersRest, OnlyReads
  <2> QED
    BY <2>2, <2>3
<1>4. CASE Watch(d, n)
  <2>1. /\ UNCHANGED <<labs, objects, created, pollerVars, update>>
        /\ \A e \in Replicas, m \in Names : informer'[e][m] \in {informer[e][m], objects[m]}
    BY <1>4 DEF Watch, SyncTypeOK
  <2>2. \A e \in Replicas : step'[e] = "fail" => step[e] = "fail" /\ InHand(e)' = InHand(e)
    BY <2>1, InHandKept DEF pollerVars
  <2> QED
    BY <2>1, <2>2, OnlyReads
<1> QED
  BY <1>1, <1>2, <1>3, <1>4

\* What others do to one row.
LEMMA BuffaloImplements == ASSUME SyncTypeOK, Buffalo PROVE Abstract!LabSyncNext
<1>1. PICK l \in Labs : \/ \E name \in Names, valid, ok \in BOOLEAN :
                            Insert(l, name, valid, ok) \/ EditLab(l, name, valid, ok)
                         \/ ApproveLab(l)
                         \/ HoldLab(l)
  BY DEF Buffalo
<1>2. labs[l] \in Lab /\ labs \in [Labs -> Lab]
  BY DEF SyncTypeOK
<1>3. ASSUME NEW row, labs' = [labs EXCEPT ![l] = row], row.exists, row.synced = labs[l].synced,
             \/ row.state = labs[l].state
             \/ labs[l].state = "pending" /\ row.state = "approved"
      PROVE  Abstract!RowChanges(l)
  <2>1. labs'[l] = row
    BY <1>2, <1>3
  <2>2. UNCHANGED <<objects, created, informer, pollerVars, update>>
    BY DEF Buffalo, watcherVars
  <2>3. UNCHANGED toReport
    BY <2>2 DEF toReport
  <2> QED
    BY <1>3, <2>1, <2>2, <2>3, PollersRest DEF Abstract!RowChanges, Abstract!memory
<1>4. ASSUME NEW name \in Names, NEW valid \in BOOLEAN, NEW ok \in BOOLEAN,
             Insert(l, name, valid, ok)
      PROVE  Abstract!RowChanges(l)
  <2> DEFINE row == Written(labs[l], name, valid, ok)
  <2>1. row.exists /\ row.synced = labs[l].synced /\ row.state = labs[l].state
    BY <1>2 DEF Lab
  <2>2. labs' = [labs EXCEPT ![l] = row]
    BY <1>4 DEF Insert
  <2> HIDE DEF row
  <2> QED
    BY <1>3, <2>1, <2>2
<1>5. ASSUME NEW name \in Names, NEW valid \in BOOLEAN, NEW ok \in BOOLEAN,
             EditLab(l, name, valid, ok)
      PROVE  Abstract!RowChanges(l)
  <2> DEFINE row == Written(labs[l], name, valid, ok)
  <2>1. row.exists /\ row.synced = labs[l].synced /\ row.state = labs[l].state
    BY <1>2, <1>5 DEF Lab, EditLab
  <2>2. labs' = [labs EXCEPT ![l] = row]
    BY <1>5 DEF EditLab
  <2> HIDE DEF row
  <2> QED
    BY <1>3, <2>1, <2>2
<1>6. ASSUME ApproveLab(l) PROVE Abstract!RowChanges(l)
  <2> DEFINE row == [labs[l] EXCEPT !.state = "approved"]
  <2>1. /\ row.exists /\ row.synced = labs[l].synced
        /\ labs[l].state = "pending" /\ row.state = "approved"
    BY <1>2, <1>6 DEF Lab, ApproveLab
  <2>2. labs' = [labs EXCEPT ![l] = row]
    BY <1>6 DEF ApproveLab, SetState
  <2> HIDE DEF row
  <2> QED
    BY <1>3, <2>1, <2>2
<1>7. ASSUME HoldLab(l) PROVE Abstract!RowChanges(l)
  <2> DEFINE row == [labs[l] EXCEPT !.hold = ~@]
  <2>1. row.exists /\ row.synced = labs[l].synced /\ row.state = labs[l].state
    BY <1>2, <1>7 DEF Lab, HoldLab
  <2>2. labs' = [labs EXCEPT ![l] = row]
    BY <1>7 DEF HoldLab
  <2> HIDE DEF row
  <2> QED
    BY <1>3, <2>1, <2>2
<1>8. Abstract!RowChanges(l)
  BY <1>1, <1>4, <1>5, <1>6, <1>7
<1> QED
  BY <1>8 DEF Abstract!LabSyncNext

\* What others do to one object.
LEMMA ObjectsImplement ==
  ASSUME SyncTypeOK,
         Users \/ \E n \in Names : Moves(n, ControllerArrows) \/ Moves(n, OthersArrows)
  PROVE  Abstract!LabSyncNext
<1>1. UNCHANGED <<labs, created, informer, pollerVars, update>>
  BY DEF Users, Moves, watcherVars
<1>2. UNCHANGED <<rowsRead, objectsRead, toFail, toReport>>
  BY <1>1, PollersRest DEF toReport
<1>3. ASSUME NEW n \in Names, objects' = [objects EXCEPT ![n] = objects'[n]],
             \/ /\ objects[n].exists /\ objects'[n].exists
                /\ objects'[n].labID = objects[n].labID
             \/ objects[n].exists # objects'[n].exists /\ objects'[n].labID = 0
      PROVE  Abstract!LabSyncNext
  <2>1. Abstract!ObjectChanges(n)
    BY <1>1, <1>2, <1>3 DEF Abstract!ObjectChanges, Abstract!memory
  <2> QED
    BY <2>1 DEF Abstract!LabSyncNext
<1>4. ASSUME NEW n \in Names, NEW arrows, Moves(n, arrows)
      PROVE  Abstract!LabSyncNext
  <2>1. objects' = [objects EXCEPT ![n] = objects'[n]]
    BY <1>4 DEF Moves, SyncTypeOK
  <2>2. /\ objects[n].exists /\ objects'[n].exists
        /\ objects'[n].labID = objects[n].labID
    BY <1>4, MovesKeepsLab DEF Moves, SyncTypeOK, SyncObject
  <2> QED
    BY <1>3, <2>1, <2>2
<1>5. CASE Users
  <2>1. PICK n \in Names : CreateByHand(n) \/ DeleteObject(n)
    BY <1>5 DEF Users
  <2>2. PICK o : /\ objects' = [objects EXCEPT ![n] = o]
                 /\ o.labID = 0 /\ o.exists = ~objects[n].exists
    <3>1. CASE CreateByHand(n)
      <4> DEFINE new == [exists |-> TRUE, labID |-> 0, state |-> ""]
      <4>1. objects' = [objects EXCEPT ![n] = new] /\ ~objects[n].exists
        BY <3>1, Zenon DEF CreateByHand
      <4>2. new.labID = 0 /\ new.exists
        OBVIOUS
      <4>3. objects[n].exists \in BOOLEAN
        BY DEF SyncTypeOK, SyncObject
      <4> HIDE DEF new
      <4> QED
        BY <4>1, <4>2, <4>3
    <3>2. CASE DeleteObject(n)
      <4>1. NoObject.labID = 0 /\ NoObject.exists = FALSE
        BY DEF NoObject
      <4>2. objects[n].exists \in BOOLEAN
        BY DEF SyncTypeOK, SyncObject
      <4> QED
        BY <3>2, <4>1, <4>2 DEF DeleteObject
    <3> QED
      BY <2>1, <3>1, <3>2
  <2>3. objects'[n] = o
    BY <2>2 DEF SyncTypeOK
  <2>4. objects[n].exists \in BOOLEAN
    BY DEF SyncTypeOK, SyncObject
  <2>5. objects' = [objects EXCEPT ![n] = objects'[n]]
    BY <2>2, <2>3
  <2>6. objects[n].exists # objects'[n].exists /\ objects'[n].labID = 0
    BY <2>2, <2>3, <2>4
  <2> QED
    BY <1>3, <2>5, <2>6
<1> QED
  BY <1>4, <1>5

LEMMA NextPrepared == ASSUME SyncTypeOK, Prepared, [Next]_vars PROVE Prepared'
<1>1. ASSUME \A d \in Replicas : step'[d] = "create" => step[d] = "create" /\ todo'[d] = todo[d]
      PROVE  Prepared'
  BY <1>1, InHandKept DEF Prepared
<1>2. ASSUME NEW d \in Replicas, step'[d] # "create",
             \A e \in Replicas \ {d} : step'[e] = step[e] /\ todo'[e] = todo[e]
      PROVE  Prepared'
  BY <1>1, <1>2
<1>3. ASSUME NEW d \in Replicas, Decide(d) PROVE Prepared'
  <2>1. \A e \in Replicas : InHand(e)' = InHand(e)
    BY <1>3, InHandKept DEF Decide
  <2>2. step'[d] = "create" => InHand(d).valid
    BY <1>3 DEF Decide, SyncTypeOK
  <2>3. \A e \in Replicas \ {d} : step'[e] = step[e]
    BY <1>3 DEF Decide, SyncTypeOK
  <2> QED
    BY <2>1, <2>2, <2>3 DEF Prepared
<1>4. ASSUME NEW d \in Replicas, NextLab(d) PROVE Prepared'
  <2>1. step'[d] # "create"
    BY <1>4 DEF NextLab, SyncTypeOK
  <2>2. \A e \in Replicas \ {d} : step'[e] = step[e] /\ todo'[e] = todo[e]
    BY <1>4 DEF NextLab, SyncTypeOK
  <2> QED
    BY <1>2, <2>1, <2>2
<1>5. ASSUME NEW d \in Replicas, Fetch(d) \/ CreateObject(d) \/ Restart(d) PROVE Prepared'
  <2>1. step'[d] # "create"
    BY <1>5 DEF Fetch, CreateObject, Restart, SyncTypeOK
  <2>2. \A e \in Replicas \ {d} : step'[e] = step[e] /\ todo'[e] = todo[e]
    BY <1>5 DEF Fetch, CreateObject, Restart, SyncTypeOK
  <2> QED
    BY <1>2, <2>1, <2>2
<1>6. ASSUME NEW d \in Replicas, Poller(d) PROVE Prepared'
  BY <1>3, <1>4, <1>5, <1>6 DEF Poller, FailLab, MarkLab, CreateRefused, PollerCallFails
<1>7. CASE UNCHANGED pollerVars
  BY <1>1, <1>7 DEF pollerVars
<1> QED
  BY <1>5, <1>6, <1>7
     DEF Next, vars, pollerVars, UpdateLab, UpdateFails, Reconcile, Watch, Moves, Buffalo, Users

\* Any number of replicas, with stale copies, failing calls and restarts, change the
\* table and the cluster only as LabSync says: each write has its reason in what was
\* read, nothing is created for an invalid lab or in the place of another object, and
\* nothing is marked, failed or reported without cause (processLab, Reconcile).
THEOREM LabSyncImplemented == Spec => ImplementsLabSync
<1>1. Init => Abstract!LabSyncInit
  <2> SUFFICES ASSUME Init PROVE Abstract!LabSyncInit
    OBVIOUS
  <2>1. NoObject.labID = 0 /\ ~NoObject.exists
    BY DEF NoObject
  <2>2. \A n \in Names : ~objects[n].exists /\ objects[n].labID = 0
    BY <2>1 DEF Init
  <2>3. \A l \in Labs : ~labs[l].exists /\ ~labs[l].synced
    BY DEF Init
  <2>4. /\ \A d \in Replicas : step[d] = "idle" /\ todo[d] = {} /\ update[d] = NoUpdate
        /\ \A d \in Replicas : informer[d] = objects
        /\ created = {}
    BY DEF Init
  <2>5. rowsRead = {} /\ toFail = {} /\ toReport = {}
    BY <2>4 DEF rowsRead, toFail, toReport
  <2>6. objectsRead \subseteq {<<n, objects[n]>> : n \in Names}
    BY <2>4 DEF objectsRead
  <2> QED
    BY <2>2, <2>3, <2>4, <2>5, <2>6 DEF Abstract!LabSyncInit
<1>2. Init => Prepared
  BY DEF Init, Prepared
<1>3. SyncTypeOK /\ Prepared /\ [Next]_vars => Prepared'
  BY NextPrepared
<1>4. SyncTypeOK /\ Backed /\ Prepared /\ [Next]_vars =>
        [Abstract!LabSyncNext]_(Abstract!labSyncVars)
  <2> SUFFICES ASSUME SyncTypeOK, Backed, Prepared, [Next]_vars
               PROVE  [Abstract!LabSyncNext]_(Abstract!labSyncVars)
    OBVIOUS
  <2>1. ASSUME NEW d \in Replicas, Poller(d) PROVE Abstract!LabSyncNext
    BY <2>1, PollerImplements
  <2>2. ASSUME NEW d \in Replicas, UpdateLab(d) \/ UpdateFails(d) \/ Restart(d)
        PROVE  Abstract!LabSyncNext
    BY <2>2, WatcherImplements
  <2>3. ASSUME NEW d \in Replicas, NEW n \in Names, Reconcile(d, n) \/ Watch(d, n)
        PROVE  Abstract!LabSyncNext
    BY <2>3, WatcherImplements
  <2>4. CASE Users \/ \E n \in Names : Moves(n, ControllerArrows) \/ Moves(n, OthersArrows)
    BY <2>4, ObjectsImplement
  <2>5. CASE Buffalo
    BY <2>5, BuffaloImplements
  <2>6. CASE UNCHANGED vars
    <3>1. UNCHANGED <<labs, objects, created, informer, pollerVars, update>>
      BY <2>6 DEF vars, pollerVars
    <3> QED
      BY <3>1, PollersRest
         DEF toReport, Abstract!labSyncVars, Abstract!stores, Abstract!memory
  <2> QED
    BY <2>1, <2>2, <2>3, <2>4, <2>5, <2>6 DEF Next
<1> QED
  BY <1>1, <1>2, <1>3, <1>4, SyncTypeCorrect, BackedHolds, PTL
     DEF Spec, ImplementsLabSync, Abstract!LabSyncSpec
=============================================================================
