---------------------- MODULE ClusterRequestControllerGit ---------------------
(***************************************************************************)
(* What the reconciler says and does about Git, proved: the status tells   *)
(* the truth, a request is committed with the files of the spec it has, a  *)
(* commit is published only while its request holds the finalizer; the     *)
(* controller implements ClusterRequestLifecycle; states move along their  *)
(* arrows only; and what a push changes.                                   *)
(***************************************************************************)
EXTENDS ClusterRequestControllerLocking

USE ControllerAssumption

---------------------------------------------------------------------------
(* The invariant.                                                          *)

\* Clusters whose namespace has been created, be it deleted since.
Made == namespaces \union gone

\* StatusHolds, for the published commits P and the clusters N with a namespace.
TrueWith(o, P, N) ==
  /\ o.status.gitCommitSHA # NoCommit => /\ o.status.gitCommitSHA \in P
                                         /\ o.status.gitCommitSHA.cluster \in o.named
  /\ o.status.state \in {"git-committed", "provisioning", "complete"} =>
       /\ o.status.gitCommitSHA # NoCommit
       /\ {"NamespaceCreated", "GitCommitted"} \subseteq o.status.conditions
       /\ o.status.gitCommitSHA.cluster \in N

IsTrue(o) == TrueWith(o, published, Made)

\* The cluster that a request names is one of those it has named.
Naming(o) == o.exists => ClusterOf[o.spec] \in o.named

\* Every copy of a status is true: in the store, the cache and the worker.
StatusesHold ==
  /\ \A r \in Requests : IsTrue(api[r]) /\ IsTrue(cache[r]) /\ Naming(api[r])
  /\ pc # "idle" => IsTrue(obj)

InProgress(o) == o.exists /\ o.finalizer /\ o.status.state = "approved"

\* CommitCluster runs for a stored, approved request, and for the spec that
\* the reconciler has read.
Publishing ==
  pc = "CommitCluster" =>
    /\ call.at # "idle"
    /\ call.commit.cluster = ClusterOf[obj.spec] /\ call.commit.files = Render[obj.spec]
    /\ call.commit.cluster \in obj.named /\ call.commit.cluster \in api[req].named
    /\ InProgress(api[req])

\* From the write of NamespaceCreated on, the namespace has been created.
NamespaceDone ==
  pc \in {"NamespaceReady", "CommitCluster"} =>
    /\ ClusterOf[obj.spec] \in Made
    /\ "NamespaceCreated" \in obj.status.conditions

\* The commit about to be recorded is that of the spec that was read.
Recorded ==
  pc = "GitCommitted" =>
    /\ obj.status.gitCommitSHA.cluster = ClusterOf[obj.spec]
    /\ obj.status.gitCommitSHA.files = Render[obj.spec]

WorkHolds == Publishing /\ NamespaceDone /\ Recorded

\* The cache has no namespace that was never created.
CacheMade == nsCache \subseteq Made

Truth == GitInv /\ StatusesHold /\ WorkHolds /\ CacheMade

---------------------------------------------------------------------------
(* What is published or created has been so ever since.                    *)

\* Nothing is unpublished, and no namespace is forgotten.
Growing == published \subseteq published' /\ Made \subseteq Made'

LEMMA StaysTrue ==
  ASSUME NEW o, NEW P, NEW N, NEW P2, NEW N2,
         TrueWith(o, P, N), P \subseteq P2, N \subseteq N2
  PROVE  TrueWith(o, P2, N2)
BY DEF TrueWith

LEMMA StaysTrueNext == ASSUME NEW o, IsTrue(o), Growing PROVE TrueWith(o, published', Made')
BY StaysTrue DEF IsTrue, Growing

LEMMA CallStepGrows == ASSUME CallStep PROVE published \subseteq published'
BY DEF CallStep, Pull, PullDiverged, PullFails, CommitFiles, CommitEmpty, StageFails,
       Push, PushRejected, PushFails, PushAckLost, remoteVars

LEMMA NextGrows == ASSUME [Next]_vars PROVE Growing
<1> USE DEF Growing, Made, gitVars, remoteVars, storeVars, nsVars
<1>1. CASE UNCHANGED vars
  BY <1>1 DEF vars
<1>2. ASSUME NEW r \in Requests, Reconcile(r) \/ Watch(r) \/ TimerFires(r)
      PROVE  Growing
  BY <1>2 DEF Reconcile, ReconcileNothing, ReconcileWaiting, ReconcileDeletion,
       ReconcileFinalizer, ReconcileNew, ReconcileApproved, ReconcileGitCommitted,
       ReconcileFailed, Take, Watch, TimerFires
<1>3. CASE WorkerStep /\ ~GitStep
  BY <1>3 DEF WorkerStep, WriteConflict, WriteFails, WriteAckLost, RequeueAfterWrite,
       BackOffAfterWrite, DeletionHandled, StartProcessing, EnsureNamespace,
       EnsureNamespaceFails, NamespaceEnsured, NamespaceReady, GitReturns, Write
<1>4. CASE GitStep
  BY <1>4, CallStepGrows DEF GitStep
<1>5. CASE WatchNamespaces \/ Restart
  BY <1>5 DEF WatchNamespaces, Restart, Reclone
<1>6. CASE Environment
  BY <1>6 DEF Environment, Create, Edit, Delete, Approve, HiveReports, DeleteNamespace,
       Store, OthersPush
<1> QED
  BY <1>1, <1>2, <1>3, <1>4, <1>5, <1>6 DEF Next

LEMMA NextCacheMade == ASSUME CacheMade, [Next]_vars PROVE CacheMade'
<1>1. nsCache' \in {nsCache, namespaces}
  BY DEF vars, Next, Reconcile, ReconcileNothing, ReconcileWaiting, ReconcileDeletion,
         ReconcileFinalizer, ReconcileNew, ReconcileApproved, ReconcileGitCommitted,
         ReconcileFailed, Take, WorkerStep, WriteConflict, WriteFails, WriteAckLost,
         RequeueAfterWrite, BackOffAfterWrite, DeletionHandled, StartProcessing,
         EnsureNamespace, EnsureNamespaceFails, NamespaceReady, GitStep, GitReturns,
         Write, Watch, WatchNamespaces, TimerFires, Restart, cacheVars,
         Environment, Create, Edit, Delete, Approve, HiveReports, DeleteNamespace, Store
<1>2. Made \subseteq Made' /\ nsCache \subseteq Made /\ namespaces \subseteq Made
  BY NextGrows DEF Growing, CacheMade, Made
<1> QED
  BY <1>1, <1>2 DEF CacheMade

\* The invariant of the Git client holds under the controller as well.
LEMMA NextGitInv == ASSUME TypeOK, GitInv, [Next]_vars PROVE GitInv'
<1>1. CASE UNCHANGED gitVars
  BY <1>1, UnchangedGitInv
<1>2. CASE NamespaceReady
  BY <1>2, UnchangedGitInv, CommitClusterInv DEF NamespaceReady, gitVars, remoteVars, cloneVars
<1>3. CASE GitStep
  BY <1>3, CallStepInv DEF GitStep, TypeOK
<1>4. CASE GitReturns
  BY <1>4, ReturnInv DEF GitReturns
<1>5. CASE Restart
  BY <1>5, RecloneInv DEF Restart
<1>6. CASE OthersPush
  BY <1>6, OthersPushInv
<1> QED
  BY <1>1, <1>2, <1>3, <1>4, <1>5, <1>6
     DEF vars, Next, Reconcile, ReconcileNothing, ReconcileWaiting, ReconcileDeletion,
         ReconcileFinalizer, ReconcileNew, ReconcileApproved, ReconcileGitCommitted,
         ReconcileFailed, Take, WorkerStep, WriteConflict, WriteFails, WriteAckLost,
         RequeueAfterWrite, BackOffAfterWrite, DeletionHandled, StartProcessing,
         EnsureNamespace, EnsureNamespaceFails, Watch, WatchNamespaces, TimerFires,
         Environment, Create, Edit, Delete, Approve, HiveReports, DeleteNamespace, Store

---------------------------------------------------------------------------
(* What others do to an object.                                            *)

\* How the object of a request changes when somebody else changes it.
Elsewhere(a, b) ==
  /\ InProgress(a) => InProgress(b)
  /\ Naming(a) => Naming(b)
  /\ b.status = NewStatus \/ a.named \subseteq b.named
  /\ b.status.state = "git-committed" => b.status = a.status
  /\ \/ b.status = a.status
     \/ b.status = NewStatus
     \/ /\ b.status.gitCommitSHA = a.status.gitCommitSHA
        /\ b.status.conditions = a.status.conditions
        /\ \/ b.status.state \in {"approved", "failed"}
           \/ a.status.state = "provisioning" /\ b.status.state = "complete"

LEMMA NewStatusParts == NewStatus.state = "" /\ NewStatus.gitCommitSHA = NoCommit
BY DEF NewStatus

LEMMA ElsewhereTrue ==
  ASSUME NEW a, NEW b, NEW P, NEW N, Elsewhere(a, b), TrueWith(a, P, N)
  PROVE  TrueWith(b, P, N)
<1>1. CASE b.status = NewStatus
  BY <1>1, NewStatusParts DEF TrueWith
<1>2. CASE b.status = a.status /\ b.status # NewStatus
  BY <1>2 DEF Elsewhere, TrueWith
<1>3. CASE b.status # a.status /\ b.status # NewStatus
  BY <1>3 DEF Elsewhere, TrueWith
<1> QED
  BY <1>1, <1>2, <1>3

\* An approved request that stays approved keeps the clusters it has named.
LEMMA ElsewhereNames ==
  ASSUME NEW a, NEW b, Elsewhere(a, b), InProgress(a)
  PROVE  InProgress(b) /\ a.named \subseteq b.named
BY NewStatusParts DEF Elsewhere, InProgress

LEMMA EnvironmentElsewhere ==
  ASSUME TypeOK, Locking, Environment
  PROVE  \A q \in Requests : Elsewhere(api[q], api'[q])
<1> DEFINE Goal == \A q \in Requests : Elsewhere(api[q], api'[q])
<1>1. api \in [Requests -> Object]
  BY DEF TypeOK
<1>2. ASSUME NEW a PROVE Elsewhere(a, a)
  BY DEF Elsewhere
<1>3. ASSUME NEW r \in Requests, NEW o, api' = [api EXCEPT ![r] = o], Elsewhere(api[r], o)
      PROVE  Goal
  BY <1>1, <1>2, <1>3
<1>4. ASSUME NEW a \in Object, NEW o \in Object, Elsewhere(a, o), InProgress(a) => o.finalizer
      PROVE  Elsewhere(a, Versioned(a, o))
  <2>1. CASE o = a
    BY <1>2, <2>1 DEF Versioned
  <2>2. CASE o # a /\ o.deleting /\ ~o.finalizer
    <3>1. Versioned(a, o).status = NewStatus /\ ~Versioned(a, o).exists
      BY <2>2 DEF Versioned, Absent
    <3> QED
      BY <1>4, <2>2, <3>1, NewStatusParts DEF Elsewhere, Naming
  <2>3. CASE o # a /\ ~(o.deleting /\ ~o.finalizer)
    <3>1. LET v == Versioned(a, o) IN
          /\ v.exists = o.exists /\ v.finalizer = o.finalizer /\ v.status = o.status
          /\ v.spec = o.spec /\ v.named = o.named
      BY <2>3 DEF Versioned, Object
    <3> QED
      BY <1>4, <3>1 DEF Elsewhere, InProgress, Naming
  <2> QED
    BY <2>1, <2>2, <2>3
<1>5. ASSUME NEW r \in Requests, NEW o \in Object, Store(r, o), Elsewhere(api[r], o)
      PROVE  Goal
  <2>1. InProgress(api[r]) => o.finalizer
    BY <1>5 DEF Elsewhere, InProgress
  <2> QED
    BY <1>1, <1>3, <1>4, <1>5, <2>1 DEF Store
<1>6. ASSUME NEW r \in Requests, NEW s \in Specs, Create(r, s) PROVE Goal
  <2> DEFINE p == Respecified(api[r], s)
             o == [p EXCEPT !.exists = TRUE]
  <2>1. /\ p \in Object /\ p.status = api[r].status /\ p.finalizer = api[r].finalizer
        /\ p.spec = s /\ p.named = api[r].named \union {ClusterOf[s]}
    BY <1>1, RespecifiedType, RespecifiedParts
  <2>2. /\ o \in Object /\ o.status = api[r].status
        /\ o.exists /\ o.finalizer = api[r].finalizer
        /\ o.spec = s /\ o.named = api[r].named \union {ClusterOf[s]}
    <3> HIDE DEF p
    <3> QED
      BY <2>1 DEF Object
  <2>3. Elsewhere(api[r], o)
    BY <2>2 DEF Elsewhere, InProgress, Naming
  <2> QED
    BY <1>5, <1>6, <2>2, <2>3 DEF Create
<1>7. ASSUME NEW r \in Requests, NEW s \in Specs, Edit(r, s) PROVE Goal
  <2> DEFINE p == Respecified(api[r], s)
             o == [p EXCEPT !.resourceVersion = @ + 1]
  <2>1. /\ p \in Object /\ p.status = api[r].status /\ p.finalizer = api[r].finalizer
        /\ p.exists = api[r].exists
        /\ p.spec = s /\ p.named = api[r].named \union {ClusterOf[s]}
    BY <1>1, RespecifiedType, RespecifiedParts
  <2>2. /\ o.status = api[r].status
        /\ o.exists = api[r].exists /\ o.finalizer = api[r].finalizer
        /\ o.spec = s /\ o.named = api[r].named \union {ClusterOf[s]}
    <3> HIDE DEF p
    <3> QED
      BY <2>1 DEF Object
  <2>3. Elsewhere(api[r], o)
    BY <2>2 DEF Elsewhere, InProgress, Naming
  <2> QED
    BY <1>3, <1>7, <2>3 DEF Edit
<1>8. ASSUME NEW r \in Requests, Delete(r) PROVE Goal
  <2> DEFINE o == [api[r] EXCEPT !.deleting = TRUE]
  <2>1. /\ o \in Object /\ o.status = api[r].status
        /\ o.exists = api[r].exists /\ o.finalizer = api[r].finalizer
        /\ o.spec = api[r].spec /\ o.named = api[r].named
    BY <1>1 DEF Object
  <2>2. Elsewhere(api[r], o)
    BY <2>1 DEF Elsewhere, InProgress, Naming
  <2> QED
    BY <1>5, <1>8, <2>1, <2>2 DEF Delete
<1>9. ASSUME NEW r \in Requests, Approve(r) PROVE Goal
  <2> DEFINE o == [api[r] EXCEPT !.status.state = "approved"]
  <2>1. /\ o \in Object /\ o.exists = api[r].exists /\ o.finalizer = api[r].finalizer
        /\ o.status.state = "approved"
        /\ o.status.gitCommitSHA = api[r].status.gitCommitSHA
        /\ o.status.conditions = api[r].status.conditions
        /\ o.spec = api[r].spec /\ o.named = api[r].named
    BY <1>1 DEF Object, Status, States
  <2>2. Elsewhere(api[r], o)
    BY <2>1 DEF Elsewhere, InProgress, Naming
  <2> QED
    BY <1>5, <1>9, <2>1, <2>2 DEF Approve
<1>10. ASSUME NEW r \in Requests, NEW o \in Object, Store(r, o), HiveReports(r),
              o.status.state \in {"complete", "failed"},
              o.status.gitCommitSHA = api[r].status.gitCommitSHA,
              o.status.conditions = api[r].status.conditions,
              o.exists = api[r].exists, o.spec = api[r].spec, o.named = api[r].named
       PROVE  Goal
  BY <1>5, <1>10 DEF HiveReports, Elsewhere, InProgress, Naming
<1>11. ASSUME NEW r \in Requests, HiveReports(r) PROVE Goal
  <2> DEFINE x == [api[r] EXCEPT !.status.state = "complete"]
             y == [api[r] EXCEPT !.status.state = "failed", !.status.error = TRUE]
  <2>1. /\ x \in Object /\ x.status.state = "complete"
        /\ x.status.gitCommitSHA = api[r].status.gitCommitSHA
        /\ x.status.conditions = api[r].status.conditions
        /\ x.exists = api[r].exists /\ x.spec = api[r].spec /\ x.named = api[r].named
    BY <1>1 DEF Object, Status, States
  <2>2. y \in Object
    BY <1>1 DEF Object, Status, States
  <2>3. /\ y.status.state = "failed"
        /\ y.status.gitCommitSHA = api[r].status.gitCommitSHA
        /\ y.status.conditions = api[r].status.conditions
        /\ y.exists = api[r].exists /\ y.spec = api[r].spec /\ y.named = api[r].named
    BY <1>1 DEF Object, Status
  <2> QED
    BY <1>10, <1>11, <2>1, <2>2, <2>3 DEF HiveReports
<1>12. CASE OthersPush /\ UNCHANGED <<storeVars, cacheVars, workVars, workerVars>>
  BY <1>2, <1>12 DEF storeVars
<1>13. ASSUME NEW c \in Clusters, DeleteNamespace(c) PROVE Goal
  BY <1>2, <1>13 DEF DeleteNamespace
<1> QED
  BY <1>6, <1>7, <1>8, <1>9, <1>11, <1>12, <1>13 DEF Environment

---------------------------------------------------------------------------
(* Every copy of a status stays true.                                      *)

LEMMA WriteTrue ==
  ASSUME TypeOK, Locking, StatusesHold, pc \in Writes, Current
  PROVE  IsTrue(Updated) /\ Naming(Updated)
<1>1. /\ req \in Requests
      /\ IsTrue(obj) /\ IsTrue(api[req]) /\ Naming(api[req])
  BY DEF TypeOK, Writes, StatusesHold
<1>2. CASE pc \notin {"AddFinalizer", "RemoveFinalizer"}
  <2>1. /\ Updated.status = obj.status /\ Updated.named = api[req].named
        /\ obj.named = api[req].named /\ Updated.spec = api[req].spec
        /\ api[req].exists
    BY <1>2, StatusWritten DEF Wanted, Decided
  <2> QED
    BY <1>1, <2>1 DEF IsTrue, TrueWith, Naming
<1>3. CASE pc = "AddFinalizer"
  <2>1. /\ Updated.status = api[req].status /\ Updated.named = api[req].named
        /\ Updated.spec = api[req].spec /\ api[req].exists
    BY <1>3, FinalizerWritten DEF Decided
  <2> QED
    BY <1>1, <2>1 DEF IsTrue, TrueWith, Naming
<1>4. CASE pc = "RemoveFinalizer"
  <2>1. Updated.status = NewStatus /\ ~Updated.exists
    BY <1>4, FinalizerWritten DEF Absent
  <2> QED
    BY <2>1, NewStatusParts DEF IsTrue, TrueWith, Naming
<1> QED
  BY <1>2, <1>3, <1>4

\* The store changes by a write of the reconciler or by others, or not at all.
LEMMA NextStores ==
  ASSUME [Next]_vars
  PROVE  \/ UNCHANGED api
         \/ Environment
         \/ pc \in Writes /\ Current /\ api' = [api EXCEPT ![req] = Updated]
BY DEF vars, Next, Reconcile, ReconcileNothing, ReconcileWaiting, ReconcileDeletion,
       ReconcileFinalizer, ReconcileNew, ReconcileApproved, ReconcileGitCommitted,
       ReconcileFailed, Take, WorkerStep, WriteConflict, WriteFails, WriteAckLost,
       RequeueAfterWrite, BackOffAfterWrite, DeletionHandled, StartProcessing,
       EnsureNamespace, EnsureNamespaceFails, NamespaceReady, GitStep, GitReturns,
       Write, Writes, Watch, WatchNamespaces, TimerFires, Restart, storeVars

LEMMA StoreTrue ==
  ASSUME TypeOK, Locking, StatusesHold, [Next]_vars
  PROVE  \A q \in Requests : IsTrue(api'[q]) /\ Naming(api'[q])
<1>1. \A q \in Requests : IsTrue(api[q]) /\ Naming(api[q])
  BY DEF StatusesHold
<1>2. CASE UNCHANGED api
  BY <1>1, <1>2
<1>3. CASE Environment
  <2>1. \A q \in Requests : Elsewhere(api[q], api'[q])
    BY <1>3, EnvironmentElsewhere
  <2>2. \A q \in Requests : Naming(api'[q])
    BY <1>1, <2>1 DEF Elsewhere
  <2>3. \A q \in Requests : IsTrue(api'[q])
    BY <1>1, <2>1, ElsewhereTrue DEF IsTrue
  <2> QED
    BY <2>2, <2>3
<1>4. CASE pc \in Writes /\ Current /\ api' = [api EXCEPT ![req] = Updated]
  <2>1. IsTrue(Updated) /\ Naming(Updated)
    BY <1>4, WriteTrue
  <2>2. \A q \in Requests : api'[q] = IF q = req THEN Updated ELSE api[q]
    BY <1>4 DEF TypeOK
  <2> QED
    BY <1>1, <2>1, <2>2
<1> QED
  BY <1>2, <1>3, <1>4, NextStores

\* The cache changes to what is stored.
LEMMA NextCaches ==
  ASSUME TypeOK, [Next]_vars
  PROVE  \A q \in Requests : cache'[q] \in {cache[q], api[q]}
<1>1. cache \in [Requests -> Object]
  BY DEF TypeOK
<1>2. CASE UNCHANGED cache
  BY <1>2
<1>3. CASE Restart
  BY <1>3 DEF Restart
<1>4. ASSUME NEW r \in Requests, Watch(r)
      PROVE  \A q \in Requests : cache'[q] \in {cache[q], api[q]}
  BY <1>1, <1>4 DEF Watch
<1> QED
  BY <1>2, <1>3, <1>4
     DEF vars, Next, Reconcile, ReconcileNothing, ReconcileWaiting, ReconcileDeletion,
         ReconcileFinalizer, ReconcileNew, ReconcileApproved, ReconcileGitCommitted,
         ReconcileFailed, Take, WorkerStep, WriteConflict, WriteFails, WriteAckLost,
         RequeueAfterWrite, BackOffAfterWrite, DeletionHandled, StartProcessing,
         EnsureNamespace, EnsureNamespaceFails, NamespaceReady, GitStep, GitReturns,
         Write, WatchNamespaces, TimerFires, storeVars, cacheVars,
         Environment, Create, Edit, Delete, Approve, HiveReports, DeleteNamespace, Store

\* How the reconciler changes its copy of an object, but for recording a commit.
Amends(o, o2) ==
  /\ o2.spec = o.spec /\ o2.named = o.named
  /\ o2.status.gitCommitSHA = o.status.gitCommitSHA
  /\ \/ o2.status.state \in {"pending", "approved", "failed"}
     \/ /\ o.status.conditions \subseteq o2.status.conditions
        /\ o2.status.state = o.status.state \/ o.status.state = "git-committed"

LEMMA AmendsTrue ==
  ASSUME NEW o, NEW o2, Amends(o, o2), IsTrue(o)
  PROVE  IsTrue(o2)
BY DEF Amends, IsTrue, TrueWith

LEMMA ReconcileAmends ==
  ASSUME TypeOK, NEW r \in Requests, Reconcile(r), pc' # "idle"
  PROVE  /\ req' = r /\ pc' \in Writes \union {"EnsureNamespace"}
         /\ pc' \notin {"NamespaceReady", "GitCommitted"}
         /\ Amends(cache[r], obj')
<1> USE DEF Writes, Amends, Object, Status
<1>1. cache[r] \in Object /\ pc = "idle"
  BY DEF TypeOK, Reconcile, ReconcileNothing, ReconcileWaiting, ReconcileDeletion,
         ReconcileFinalizer, ReconcileNew, ReconcileApproved, ReconcileGitCommitted,
         ReconcileFailed, Take
<1>2. CASE ReconcileNothing(r) \/ ReconcileWaiting(r)
  BY <1>1, <1>2 DEF ReconcileNothing, ReconcileWaiting, workerVars
<1>3. CASE ReconcileDeletion(r)
  BY <1>1, <1>3 DEF ReconcileDeletion, Begin
<1>4. CASE ReconcileFinalizer(r)
  BY <1>1, <1>4 DEF ReconcileFinalizer, Begin
<1>5. CASE ReconcileNew(r)
  BY <1>1, <1>5 DEF ReconcileNew, Begin
<1>6. CASE ReconcileApproved(r)
  BY <1>1, <1>6 DEF ReconcileApproved, Begin
<1>7. CASE ReconcileGitCommitted(r)
  BY <1>1, <1>7 DEF ReconcileGitCommitted, Begin
<1>8. CASE ReconcileFailed(r)
  BY <1>1, <1>8 DEF ReconcileFailed, Begin
<1> QED
  BY <1>2, <1>3, <1>4, <1>5, <1>6, <1>7, <1>8 DEF Reconcile

LEMMA FailedAmends ==
  ASSUME TypeOK, NEW condition
  PROVE  Amends(obj, Failed(condition))
BY DEF TypeOK, Object, Status, Failed, Amends

---------------------------------------------------------------------------
(* The invariant, worker and all.                                          *)

LEMMA DoneHolds ==
  ASSUME Done
  PROVE  WorkHolds' /\ (pc' = "idle")
BY DEF Done, WorkHolds, Publishing, NamespaceDone, Recorded

\* The worker goes on with an amended copy, and not yet to CommitCluster.
LEMMA ContinueHolds ==
  ASSUME TypeOK, StatusesHold, pc # "idle", Growing,
         NEW step \in Writes \union {"EnsureNamespace"}, NEW o, Continue(step, o),
         Amends(obj, o),
         step = "NamespaceReady" => /\ ClusterOf[o.spec] \in Made'
                                    /\ "NamespaceCreated" \in o.status.conditions,
         step # "GitCommitted"
  PROVE  WorkHolds' /\ (pc' # "idle" => IsTrue(obj)')
<1>1. IsTrue(o)
  BY AmendsTrue DEF StatusesHold
<1>2. IsTrue(obj)'
  BY <1>1, StaysTrueNext DEF IsTrue, Continue
<1>3. WorkHolds'
  BY DEF Writes, Continue, WorkHolds, Publishing, NamespaceDone, Recorded
<1> QED
  BY <1>2, <1>3

\* The worker rests while others act.
LEMMA RestHolds ==
  ASSUME TypeOK, StatusesHold, WorkHolds, UNCHANGED workerVars, UNCHANGED call,
         Growing,
         pc = "CommitCluster" /\ InProgress(api[req]) =>
           InProgress(api'[req]) /\ api[req].named \subseteq api'[req].named
  PROVE  WorkHolds' /\ (pc' # "idle" => IsTrue(obj)')
<1>1. pc' # "idle" => IsTrue(obj)'
  BY StaysTrueNext DEF StatusesHold, IsTrue, workerVars
<1>2. Publishing'
  BY DEF WorkHolds, Publishing, workerVars, InProgress
<1>3. NamespaceDone' /\ Recorded'
  BY DEF WorkHolds, NamespaceDone, Recorded, workerVars, Growing
<1> QED
  BY <1>1, <1>2, <1>3 DEF WorkHolds

LEMMA ReconcileHolds ==
  ASSUME TypeOK, StatusesHold, WorkHolds, NEW r \in Requests, Reconcile(r),
         Growing
  PROVE  WorkHolds' /\ (pc' # "idle" => IsTrue(obj)')
<1>1. CASE pc' = "idle"
  BY <1>1 DEF WorkHolds, Publishing, NamespaceDone, Recorded
<1>2. CASE pc' # "idle"
  <2>1. /\ req' = r /\ pc' \in Writes \union {"EnsureNamespace"}
        /\ pc' \notin {"NamespaceReady", "GitCommitted"}
        /\ Amends(cache[r], obj')
    BY <1>2, ReconcileAmends
  <2>2. IsTrue(obj')
    BY <2>1, AmendsTrue DEF StatusesHold
  <2>3. IsTrue(obj)'
    BY <2>1, <2>2, StaysTrueNext DEF IsTrue
  <2> QED
    BY <2>1, <2>3 DEF Writes, WorkHolds, Publishing, NamespaceDone, Recorded
<1> QED
  BY <1>1, <1>2

\* CommitCluster moves on; it keeps what it was called with.
LEMMA CallStepKeeps ==
  ASSUME CallStep, GitTypeOK
  PROVE  call'.commit = call.commit /\ call'.at # "idle"
BY DEF CallStep, Pull, PullDiverged, PullFails, CommitFiles, CommitEmpty, StageFails,
       Push, PushRejected, PushFails, PushAckLost, Step, GitTypeOK, Calls

LEMMA HandleApprovedHolds ==
  ASSUME TypeOK, Locking, GitInv, StatusesHold, WorkHolds,
         StartProcessing \/ EnsureNamespace \/ EnsureNamespaceFails
           \/ NamespaceReady \/ GitStep \/ GitReturns,
         CacheMade, Growing
  PROVE  WorkHolds' /\ (pc' # "idle" => IsTrue(obj)')
<1>1. req \in Requests /\ obj \in Object /\ pc # "idle"
  BY DEF TypeOK, StartProcessing, EnsureNamespace, EnsureNamespaceFails,
         NamespaceReady, GitStep, GitReturns, Write
<1> DEFINE o == [obj EXCEPT !.resourceVersion = Updated.resourceVersion]
           f == [Failed("GitCommitted") EXCEPT !.resourceVersion = o.resourceVersion]
<1>2. o.status = obj.status /\ o.spec = obj.spec /\ o.named = obj.named /\ Amends(obj, o)
  BY <1>1 DEF Object, Amends
<1>3. CASE StartProcessing
  BY <1>1, <1>2, <1>3, ContinueHolds DEF StartProcessing
<1>4. CASE EnsureNamespace
  <2> DEFINE n == [obj EXCEPT !.status.conditions = @ \union {"NamespaceCreated"}]
  <2>1. Amends(obj, n) /\ "NamespaceCreated" \in n.status.conditions
    BY <1>1 DEF Object, Status, Amends
  <2>2. Continue("NamespaceReady", n) /\ ClusterOf[obj.spec] \in Made'
    BY <1>4 DEF EnsureNamespace, NamespaceEnsured, CacheMade, Growing, Made
  <2>3. n.spec = obj.spec
    BY <1>1 DEF Object
  <2> QED
    BY <1>1, <2>1, <2>2, <2>3, ContinueHolds DEF Writes
<1>5. CASE EnsureNamespaceFails
  BY <1>1, <1>5, FailedAmends, ContinueHolds DEF EnsureNamespaceFails, Writes
<1>6. CASE NamespaceReady
  <2>1. /\ pc = "NamespaceReady" /\ Current
        /\ api' = [api EXCEPT ![req] = Updated]
    BY <1>6 DEF NamespaceReady, Write
  <2>2. CASE Continue("ErrorState", f)
    <3>1. /\ f.status = Failed("GitCommitted").status /\ f.spec = obj.spec
          /\ f.named = obj.named
      BY <1>1 DEF Failed, Object
    <3>2. Amends(obj, f)
      BY <3>1, FailedAmends DEF Amends
    <3> QED
      BY <1>1, <2>1, <2>2, <3>2, ContinueHolds DEF Writes
  <2>3. CASE /\ Continue("CommitCluster", o)
             /\ CommitCluster(ClusterOf[o.spec], Render[o.spec])
    <3>1. /\ Updated.exists /\ Updated.finalizer /\ Updated.status = obj.status
          /\ Updated.named = api[req].named /\ obj.named = api[req].named
          /\ obj.spec = api[req].spec /\ api[req].exists
      BY <2>1, StatusWritten DEF Writes, Wanted, Decided
    <3>2. obj.status.state = "approved"
      BY <2>1 DEF Locking, WorkLocked, Proposed
    <3>3. api'[req] = Updated /\ InProgress(Updated)
      BY <1>1, <2>1, <3>1, <3>2 DEF InProgress, TypeOK
    <3>4. /\ pc' = "CommitCluster" /\ obj' = o /\ req' = req
          /\ call'.at # "idle" /\ call'.commit.cluster = ClusterOf[o.spec]
          /\ call'.commit.files = Render[o.spec]
      BY <2>3 DEF Continue, CommitCluster
    <3>5. ClusterOf[obj.spec] \in Made' /\ "NamespaceCreated" \in obj.status.conditions
      BY <2>1 DEF WorkHolds, NamespaceDone, Growing
    <3>6. IsTrue(obj)'
      <4>1. IsTrue(o)
        BY <1>1, <1>2 DEF IsTrue, TrueWith, StatusesHold
      <4> QED
        BY <3>4, <4>1, StaysTrueNext DEF IsTrue
    <3>7. ClusterOf[o.spec] \in o.named /\ ClusterOf[o.spec] \in Updated.named
      BY <1>1, <1>2, <3>1 DEF StatusesHold, Naming
    <3>8. Publishing'
      BY <3>3, <3>4, <3>7 DEF Publishing, InProgress
    <3> QED
      BY <1>2, <3>4, <3>5, <3>6, <3>8 DEF WorkHolds, NamespaceDone, Recorded
  <2> QED
    BY <1>6, <2>2, <2>3 DEF NamespaceReady
<1>7. CASE GitStep
  <2>1. /\ pc = "CommitCluster" /\ UNCHANGED workerVars /\ UNCHANGED api
        /\ call'.commit = call.commit /\ call'.at # "idle"
    BY <1>7, CallStepKeeps DEF GitStep, storeVars, TypeOK
  <2>2. IsTrue(obj)'
    BY <2>1, StaysTrueNext DEF IsTrue, StatusesHold, workerVars
  <2> QED
    BY <2>1, <2>2
       DEF WorkHolds, Publishing, NamespaceDone, Recorded, workerVars, InProgress, Growing
<1>8. CASE GitReturns
  <2> DEFINE g == [WithState("git-committed") EXCEPT
                     !.status.gitCommitSHA = call.commit,
                     !.status.conditions = @ \union {"GitCommitted"}]
  <2>1. CASE call.at # "ok"
    BY <1>1, <1>8, <2>1, FailedAmends, ContinueHolds DEF GitReturns, Writes
  <2>2. CASE call.at = "ok"
    <3>1. /\ pc = "CommitCluster" /\ Continue("GitCommitted", g)
      BY <1>8, <2>2 DEF GitReturns
    <3>2. /\ g.status.gitCommitSHA = call.commit
          /\ g.spec = obj.spec /\ g.named = obj.named
          /\ g.status.conditions = obj.status.conditions \union {"GitCommitted"}
      BY <1>1 DEF WithState, Object, Status
    <3>3. /\ call.commit \in published
          /\ call.commit.cluster = ClusterOf[obj.spec] /\ call.commit.files = Render[obj.spec]
          /\ call.commit.cluster \in obj.named
      BY <2>2, <3>1 DEF GitInv, SuccessIsPublished, WorkHolds, Publishing
    <3>4. call.commit # NoCommit
      BY <3>3, CommitAssumption DEF TypeOK, GitTypeOK
    <3>5. ClusterOf[obj.spec] \in Made /\ "NamespaceCreated" \in obj.status.conditions
      BY <3>1 DEF WorkHolds, NamespaceDone
    <3>6. IsTrue(g)
      BY <3>2, <3>3, <3>4, <3>5 DEF IsTrue, TrueWith
    <3>7. IsTrue(obj)'
      BY <3>1, <3>6, StaysTrueNext DEF IsTrue, Continue
    <3> QED
      BY <3>1, <3>2, <3>3, <3>7
         DEF Continue, WorkHolds, Publishing, NamespaceDone, Recorded
  <2> QED
    BY <2>1, <2>2
<1> QED
  BY <1>3, <1>4, <1>5, <1>6, <1>7, <1>8

LEMMA OthersHold ==
  ASSUME TypeOK, Locking, StatusesHold, WorkHolds,
         \/ UNCHANGED vars
         \/ WatchNamespaces \/ Environment
         \/ \E r \in Requests : Watch(r) \/ TimerFires(r),
         Growing
  PROVE  WorkHolds' /\ (pc' # "idle" => IsTrue(obj)')
<1>1. UNCHANGED workerVars /\ UNCHANGED call
  BY EnvironmentStores
     DEF vars, WatchNamespaces, Environment, Watch, TimerFires, gitVars, workerVars,
         Create, Edit, Delete, Approve, HiveReports, DeleteNamespace, Store, OthersPush
<1>2. pc = "CommitCluster" /\ InProgress(api[req]) =>
        InProgress(api'[req]) /\ api[req].named \subseteq api'[req].named
  <2>1. CASE UNCHANGED api
    BY <2>1
  <2>2. CASE Environment
    BY <2>2, EnvironmentElsewhere, ElsewhereNames DEF TypeOK
  <2> QED
    BY <2>1, <2>2 DEF vars, WatchNamespaces, Watch, TimerFires, storeVars
<1> QED
  BY <1>1, <1>2, RestHolds

LEMMA NextHolds ==
  ASSUME TypeOK, Locking, Truth, [Next]_vars
  PROVE  Truth'
<1>1. Growing
  BY NextGrows
<1>2. WorkHolds' /\ (pc' # "idle" => IsTrue(obj)')
  <2>1. CASE \E r \in Requests : Reconcile(r)
    BY <1>1, <2>1, ReconcileHolds DEF Truth
  <2>2. CASE WriteConflict \/ WriteFails \/ WriteAckLost
               \/ RequeueAfterWrite \/ BackOffAfterWrite \/ DeletionHandled \/ Restart
    BY <2>2, DoneHolds
       DEF WriteConflict, WriteFails, WriteAckLost, RequeueAfterWrite, BackOffAfterWrite,
           DeletionHandled, ReturnAfter, ReturnDone, Restart
  <2>3. CASE StartProcessing \/ EnsureNamespace \/ EnsureNamespaceFails
               \/ NamespaceReady \/ GitStep \/ GitReturns
    BY <1>1, <2>3, HandleApprovedHolds DEF Truth
  <2>4. CASE \/ UNCHANGED vars
             \/ WatchNamespaces \/ Environment
             \/ \E r \in Requests : Watch(r) \/ TimerFires(r)
    BY <1>1, <2>4, OthersHold DEF Truth
  <2> QED
    BY <2>1, <2>2, <2>3, <2>4 DEF Next, WorkerStep
<1>3. \A q \in Requests : IsTrue(api[q])' /\ Naming(api[q])'
  BY <1>1, StoreTrue, StaysTrueNext DEF Truth, IsTrue, Naming
<1>4. \A q \in Requests : IsTrue(cache[q])'
  <2>1. \A q \in Requests : IsTrue(cache'[q])
    BY NextCaches DEF Truth, StatusesHold
  <2> QED
    BY <1>1, <2>1, StaysTrueNext DEF IsTrue
<1>5. GitInv'
  BY NextGitInv DEF Truth
<1>6. CacheMade'
  BY NextCacheMade DEF Truth
<1> QED
  BY <1>2, <1>3, <1>4, <1>5, <1>6 DEF Truth, StatusesHold, IsTrue, Naming

LEMMA InitHolds == ASSUME Init PROVE Truth
<1>1. \A r \in Requests : /\ api[r].status = NewStatus /\ cache[r].status = NewStatus
                         /\ ~api[r].exists
  BY DEF Init, Absent
<1>2. StatusesHold
  BY <1>1, NewStatusParts DEF Init, Idle, StatusesHold, IsTrue, TrueWith, Naming
<1>3. WorkHolds
  BY DEF Init, Idle, WorkHolds, Publishing, NamespaceDone, Recorded
<1> QED
  BY <1>2, <1>3, GitInitInv DEF Init, Truth, CacheMade

THEOREM TruthHolds == Spec => []Truth
<1>1. Init => Truth
  BY InitHolds
<1>2. TypeOK /\ Locking /\ Truth /\ [Next]_vars => Truth'
  BY NextHolds
<1> QED
  BY <1>1, <1>2, TypeCorrect, LockingHolds, PTL DEF Spec

\* A recorded commit is published and is for a cluster that the request has
\* named, and a request past Git has its commit and its namespace, unless the
\* namespace has been deleted: whatever failed on the way, and although names
\* can be edited and namespaces deleted at any time (handleApproved and its
\* early returns).
THEOREM StatusTrue == Spec => []StatusIsTrue
<1>1. Truth => StatusIsTrue
  BY DEF Truth, StatusesHold, IsTrue, TrueWith, Made, StatusIsTrue, StatusHolds
<1> QED
  BY <1>1, TruthHolds, PTL

\* While the controller uses the client, what its calls return is true.
THEOREM ControllerGitSafety == Spec => [](CloneInSync /\ SuccessIsPublished)
<1>1. Truth => CloneInSync /\ SuccessIsPublished
  BY DEF Truth, GitInv
<1> QED
  BY <1>1, TruthHolds, PTL

---------------------------------------------------------------------------
(* What is committed, and when it is published.                            *)

\* An object becomes git-committed with the cluster and the files of its spec.
Committing(a, b) ==
  a.status.state # "git-committed" /\ b.status.state = "git-committed" =>
    /\ b.status.gitCommitSHA.cluster = ClusterOf[b.spec]
    /\ b.status.gitCommitSHA.files = Render[b.spec]

LEMMA WriteCommits ==
  ASSUME TypeOK, Locking, Truth, pc \in Writes, Current
  PROVE  Committing(api[req], Updated)
<1>1. Proposed(pc, obj)
  BY DEF Locking, WorkLocked, Writes
<1>2. CASE pc \in {"AddFinalizer", "RemoveFinalizer"}
  <2>1. Updated.status = NewStatus \/ Updated.status = api[req].status
    BY <1>2, FinalizerWritten DEF Absent
  <2> QED
    BY <2>1, NewStatusParts DEF Committing
<1>3. CASE pc \notin {"AddFinalizer", "RemoveFinalizer"}
  <2>1. /\ Wanted(pc, obj, api[req])
        /\ Updated.spec = api[req].spec /\ Updated.status = obj.status
    BY <1>3, StatusWritten
  <2>2. obj.status.state = "git-committed" => pc = "GitCommitted"
    BY <1>1, <1>3 DEF Proposed, Writes
  <2>3. pc = "GitCommitted" => /\ obj.status.gitCommitSHA.cluster = ClusterOf[obj.spec]
                               /\ obj.status.gitCommitSHA.files = Render[obj.spec]
    BY DEF Truth, WorkHolds, Recorded
  <2> QED
    BY <2>1, <2>2, <2>3 DEF Wanted, Committing
<1> QED
  BY <1>2, <1>3

LEMMA NextCommits ==
  ASSUME TypeOK, Locking, Truth, [Next]_vars
  PROVE  \A q \in Requests : Committing(api[q], api'[q])
<1>1. CASE UNCHANGED api
  BY <1>1 DEF Committing
<1>2. CASE Environment
  BY <1>2, EnvironmentElsewhere DEF Elsewhere, Committing
<1>3. CASE pc \in Writes /\ Current /\ api' = [api EXCEPT ![req] = Updated]
  <2>1. \A q \in Requests : api'[q] = IF q = req THEN Updated ELSE api[q]
    BY <1>3 DEF TypeOK
  <2> QED
    BY <1>3, <2>1, WriteCommits DEF Committing
<1> QED
  BY <1>1, <1>2, <1>3, NextStores

\* However old the copy and whatever was edited during the push, the name of
\* the cluster included: the commit that is recorded has the cluster and the
\* files of the spec that is stored at that moment.
THEOREM CommitMatches == Spec => CommitMatchesSpec
<1>1. TypeOK /\ Locking /\ Truth /\ [Next]_vars =>
        [\A r \in Requests :
           api[r].status.state # "git-committed" /\ api'[r].status.state = "git-committed" =>
             api'[r].status.gitCommitSHA.cluster = ClusterOf[api'[r].spec]
               /\ api'[r].status.gitCommitSHA.files = Render[api'[r].spec]]_vars
  BY NextCommits DEF Committing
<1> QED
  BY <1>1, TypeCorrect, LockingHolds, TruthHolds, PTL DEF Spec, CommitMatchesSpec

LEMMA NextPublishes ==
  ASSUME TypeOK, Truth, [Next]_vars, call.commit \in published' \ published
  PROVE  req \in Requests /\ api[req].exists /\ api[req].finalizer
<1>1. GitStep
  <2> USE DEF gitVars, remoteVars, storeVars
  <2>1. CASE UNCHANGED vars
    BY <2>1 DEF vars
  <2>2. ASSUME NEW r \in Requests, Reconcile(r) \/ Watch(r) \/ TimerFires(r) PROVE FALSE
    BY <2>2 DEF Reconcile, ReconcileNothing, ReconcileWaiting, ReconcileDeletion,
         ReconcileFinalizer, ReconcileNew, ReconcileApproved, ReconcileGitCommitted,
         ReconcileFailed, Take, Watch, TimerFires
  <2>3. CASE WorkerStep /\ ~GitStep
    BY <2>3 DEF WorkerStep, WriteConflict, WriteFails, WriteAckLost, RequeueAfterWrite,
         BackOffAfterWrite, DeletionHandled, StartProcessing, EnsureNamespace,
         EnsureNamespaceFails, NamespaceReady, GitReturns, Write
  <2>4. CASE WatchNamespaces \/ Restart
    BY <2>4 DEF WatchNamespaces, Restart, Reclone
  <2>5. CASE Environment
    BY <2>5 DEF Environment, Create, Edit, Delete, Approve, HiveReports,
         DeleteNamespace, Store, OthersPush
  <2> QED
    BY <2>1, <2>2, <2>3, <2>4, <2>5 DEF Next
<1>2. pc = "CommitCluster"
  BY <1>1 DEF GitStep
<1> QED
  BY <1>2 DEF TypeOK, Truth, WorkHolds, Publishing, InProgress

\* The running call publishes its commit only while the request it works for
\* exists and its finalizer holds it (lines 109-122 and handleDeletion).
THEOREM PublishHolds == Spec => PublishHoldsFinalizer
<1>1. TypeOK /\ Truth /\ [Next]_vars =>
        [call.commit \in published' \ published =>
           req \in Requests /\ api[req].exists /\ api[req].finalizer]_vars
  BY NextPublishes
<1> QED
  BY <1>1, TypeCorrect, TruthHolds, PTL DEF Spec, PublishHoldsFinalizer

---------------------------------------------------------------------------
(* The lifecycle is implemented.  Each commit has a number of its own, and *)
(* a commit that is being made is recorded nowhere yet.                    *)

Numbered ==
  /\ \A m \in published \union ahead : m.seq <= commits
  /\ published \intersect ahead = {}
  /\ call.at \in {"Initialize", "Commit"} => call.commit.seq = commits + 1

\* The commit that is being made, or is about to be recorded.
Candidate == IF pc = "GitCommitted" THEN obj.status.gitCommitSHA ELSE call.commit

Unrecorded ==
  pc \in {"CommitCluster", "GitCommitted"} =>
    \A q \in Requests : api[q].status.gitCommitSHA # Candidate

\* Nothing is left of an object that is gone.
Blank(o) == ~o.exists => o.status = NewStatus /\ o.named = {}

Unmixed == Numbered /\ Unrecorded /\ \A r \in Requests : Blank(api[r])

\* The phase of an object in the lifecycle.
Phase(o) == IF o.exists THEN o.status.state ELSE "absent"

Keeps(a, b) == /\ b.status.retryCount = a.status.retryCount
               /\ b.status.gitCommitSHA = a.status.gitCommitSHA

\* Its spec names cluster c from now on.
Renames(a, b) == \E c \in Clusters : b.named = a.named \union {c}

\* Its state changes, and nothing else that the lifecycle sees.
Advances(a, b) ==
  \/ Phase(a) = "" /\ Phase(b) = "pending"
  \/ Phase(a) \in {"", "pending"} /\ Phase(b) = "approved"
  \/ Phase(a) = "git-committed" /\ Phase(b) = "provisioning"
  \/ Phase(a) = "provisioning" /\ Phase(b) = "complete"
  \/ Phase(a) \in {"approved", "provisioning"} /\ Phase(b) = "failed"

Commits(a, b) ==
  /\ Phase(a) = "approved" /\ Phase(b) = "git-committed"
  /\ b.named = a.named
  /\ b.status.retryCount = a.status.retryCount
  /\ b.status.gitCommitSHA \in published
  /\ b.status.gitCommitSHA.cluster \in a.named
  /\ \A q \in Requests : api[q].status.gitCommitSHA # b.status.gitCommitSHA

Retries(a, b) ==
  /\ Phase(a) = "failed" /\ Phase(b) = "approved"
  /\ b.named = a.named
  /\ a.status.retryCount < MaxRetries
  /\ b.status.retryCount = a.status.retryCount + 1
  /\ b.status.gitCommitSHA = a.status.gitCommitSHA

Vanishes(a, b) ==
  /\ Phase(a) # "absent" /\ Phase(b) = "absent"
  /\ b.status.retryCount = 0 /\ b.status.gitCommitSHA = NoCommit /\ b.named = {}

\* How an object moves along the arrows of the lifecycle.
Moves(a, b) ==
  \/ Phase(b) = Phase(a) /\ Keeps(a, b) /\ b.named = a.named
  \/ Phase(b) = Phase(a) /\ Phase(a) # "absent" /\ Keeps(a, b) /\ Renames(a, b)
  \/ Phase(a) = "absent" /\ Phase(b) = "" /\ Keeps(a, b) /\ Renames(a, b)
  \/ Advances(a, b) /\ Keeps(a, b) /\ b.named = a.named
  \/ Commits(a, b)
  \/ Retries(a, b)
  \/ Vanishes(a, b)

LifecycleStep == Lifecycle!LifecycleNext \/ UNCHANGED Lifecycle!lifecycleVars

\* Such a move is a step of the lifecycle.
LEMMA MovesStep ==
  ASSUME TypeOK, NEW r \in Requests, NEW b, api' = [api EXCEPT ![r] = b],
         published' = published, Moves(api[r], b)
  PROVE  LifecycleStep
<1> DEFINE a == api[r]
<1>1. /\ phaseOf' = [phaseOf EXCEPT ![r] = Phase(b)] /\ phaseOf[r] = Phase(a)
      /\ retriesOf' = [retriesOf EXCEPT ![r] = b.status.retryCount]
      /\ shaOf' = [shaOf EXCEPT ![r] = b.status.gitCommitSHA]
      /\ namedOf' = [namedOf EXCEPT ![r] = b.named]
  BY DEF TypeOK, Phase, phaseOf, retriesOf, shaOf, namedOf
<1>2. /\ retriesOf[r] = a.status.retryCount
      /\ shaOf[r] = a.status.gitCommitSHA
      /\ namedOf[r] = a.named
      /\ [retriesOf EXCEPT ![r] = retriesOf[r]] = retriesOf
      /\ [shaOf EXCEPT ![r] = shaOf[r]] = shaOf
      /\ [namedOf EXCEPT ![r] = namedOf[r]] = namedOf
      /\ [phaseOf EXCEPT ![r] = phaseOf[r]] = phaseOf
  BY DEF phaseOf, retriesOf, shaOf, namedOf
<1>3. /\ b.status.gitCommitSHA = a.status.gitCommitSHA => shaOf' = shaOf
      /\ b.status.retryCount = a.status.retryCount => retriesOf' = retriesOf
      /\ b.named = a.named => namedOf' = namedOf
      /\ Phase(b) = Phase(a) => phaseOf' = phaseOf
      /\ Keeps(a, b) => retriesOf' = retriesOf /\ shaOf' = shaOf
  BY <1>1, <1>2 DEF Keeps
<1> HIDE DEF a
<1>4. CASE Phase(b) = Phase(a) /\ Keeps(a, b) /\ b.named = a.named
  BY <1>3, <1>4 DEF LifecycleStep, Lifecycle!lifecycleVars
<1>5. ASSUME Renames(a, b) PROVE \E c \in Clusters : Lifecycle!Names(r, c)
  BY <1>1, <1>2, <1>5 DEF Renames, Lifecycle!Names
<1>6. CASE Phase(b) = Phase(a) /\ Phase(a) # "absent" /\ Keeps(a, b) /\ Renames(a, b)
  <2>1. Lifecycle!Edited(r)
    BY <1>1, <1>3, <1>5, <1>6 DEF Lifecycle!Edited
  <2> QED
    BY <2>1 DEF LifecycleStep, Lifecycle!LifecycleNext
<1>7. CASE Phase(a) = "absent" /\ Phase(b) = "" /\ Keeps(a, b) /\ Renames(a, b)
  <2>1. Lifecycle!Appears(r)
    BY <1>1, <1>3, <1>5, <1>7 DEF Lifecycle!Appears, Lifecycle!Goes
  <2> QED
    BY <2>1 DEF LifecycleStep, Lifecycle!LifecycleNext
<1>8. CASE Advances(a, b) /\ Keeps(a, b) /\ b.named = a.named
  <2>1. ASSUME NEW from, NEW to, Phase(a) \in from, Phase(b) = to
        PROVE  Lifecycle!Move(r, from, to)
    BY <1>1, <1>3, <1>8, <2>1 DEF Lifecycle!Move, Lifecycle!Goes
  <2>2. UNCHANGED <<retriesOf, shaOf, namedOf, published>>
    BY <1>3, <1>8
  <2>3. \/ Lifecycle!Accepted(r) \/ Lifecycle!Approved(r) \/ Lifecycle!Provisioned(r)
        \/ Lifecycle!Completes(r) \/ Lifecycle!Fails(r)
    <3>1. CASE Phase(a) = "" /\ Phase(b) = "pending"
      <4>1. phaseOf[r] = "" /\ phaseOf' = [phaseOf EXCEPT ![r] = "pending"]
        BY <1>1, <3>1, Zenon
      <4> QED
        BY <2>2, <4>1, Zenon DEF Lifecycle!Accepted, Lifecycle!Move, Lifecycle!Goes
    <3>2. CASE Phase(a) \in {"", "pending"} /\ Phase(b) = "approved"
      <4>1. /\ phaseOf[r] \in {"", "pending"}
            /\ phaseOf' = [phaseOf EXCEPT ![r] = "approved"]
        BY <1>1, <3>2, Zenon
      <4> QED
        BY <2>2, <4>1, Zenon DEF Lifecycle!Approved, Lifecycle!Move, Lifecycle!Goes
    <3>3. CASE Phase(a) = "git-committed" /\ Phase(b) = "provisioning"
      BY <2>1, <3>3 DEF Lifecycle!Provisioned
    <3>4. CASE Phase(a) = "provisioning" /\ Phase(b) = "complete"
      BY <2>1, <3>4 DEF Lifecycle!Completes
    <3>5. CASE Phase(a) \in {"approved", "provisioning"} /\ Phase(b) = "failed"
      BY <2>1, <3>5 DEF Lifecycle!Fails
    <3> QED
      BY <1>8, <3>1, <3>2, <3>3, <3>4, <3>5 DEF Advances
  <2> QED
    BY <2>3 DEF LifecycleStep, Lifecycle!LifecycleNext
<1>9. CASE Commits(a, b)
  <2>1. /\ phaseOf[r] \in {"approved"} /\ phaseOf' = [phaseOf EXCEPT ![r] = "git-committed"]
        /\ UNCHANGED <<retriesOf, namedOf, published>>
    BY <1>1, <1>3, <1>9 DEF Commits
  <2>2. \E m \in published :
          /\ m.cluster \in namedOf[r]
          /\ \A q \in Requests \ {r} : shaOf[q] # m
          /\ shaOf' = [shaOf EXCEPT ![r] = m]
    <3> DEFINE m == b.status.gitCommitSHA
    <3>1. \A q \in Requests : shaOf[q] = api[q].status.gitCommitSHA
      BY DEF shaOf
    <3>2. m \in published /\ m.cluster \in namedOf[r]
      BY <1>2, <1>9 DEF Commits
    <3>3. \A q \in Requests \ {r} : shaOf[q] # m
      BY <1>9, <3>1 DEF Commits
    <3>4. shaOf' = [shaOf EXCEPT ![r] = m]
      BY <1>1
    <3> HIDE DEF m
    <3> QED
      BY <3>2, <3>3, <3>4
  <2>3. Lifecycle!Committed(r)
    BY <2>1, <2>2 DEF Lifecycle!Committed, Lifecycle!Goes
  <2> QED
    BY <2>3 DEF LifecycleStep, Lifecycle!LifecycleNext
<1>10. CASE Retries(a, b)
  <2>1. retriesOf[r] < MaxRetries /\ retriesOf' = [retriesOf EXCEPT ![r] = @ + 1]
    BY <1>1, <1>2, <1>10 DEF Retries
  <2>2. Lifecycle!Retried(r)
    BY <1>1, <1>3, <1>10, <2>1 DEF Retries, Lifecycle!Retried, Lifecycle!Goes
  <2> QED
    BY <2>2 DEF LifecycleStep, Lifecycle!LifecycleNext
<1>11. CASE Vanishes(a, b)
  <2>1. Lifecycle!Disappears(r)
    BY <1>1, <1>11 DEF Vanishes, Lifecycle!Disappears
  <2> QED
    BY <2>1 DEF LifecycleStep, Lifecycle!LifecycleNext
<1> QED
  BY <1>4, <1>6, <1>7, <1>8, <1>9, <1>10, <1>11 DEF Moves, a

---------------------------------------------------------------------------
(* Every change of an object is such a move.                               *)

LEMMA WriteMoves ==
  ASSUME TypeOK, Locking, Truth, Unrecorded, pc \in Writes, Current
  PROVE  Moves(api[req], Updated) /\ Blank(Updated)
<1>1. /\ req \in Requests /\ api[req] \in Object /\ obj \in Object
      /\ Proposed(pc, obj) /\ IsTrue(obj)
  BY DEF TypeOK, Writes, Locking, WorkLocked, Truth, StatusesHold
<1>2. CASE pc = "AddFinalizer"
  BY <1>2, FinalizerWritten DEF Decided, Moves, Keeps, Phase, Blank
<1>3. CASE pc = "RemoveFinalizer"
  <2>1. api[req].exists /\ Updated = Absent(api[req].resourceVersion + 1)
    BY <1>3, FinalizerWritten DEF Decided
  <2>2. ~Updated.exists /\ Updated.status = NewStatus /\ Updated.named = {}
    BY <2>1 DEF Absent
  <2>3. NewStatus.retryCount = 0 /\ NewStatus.gitCommitSHA = NoCommit
    BY DEF NewStatus
  <2>4. Phase(api[req]) # "absent"
    BY <1>1, <2>1 DEF Phase, Object, Status, States
  <2> QED
    BY <2>2, <2>3, <2>4 DEF Moves, Vanishes, Phase, Blank
<1>4. CASE pc \notin {"AddFinalizer", "RemoveFinalizer"}
  <2>1. /\ Decided(pc, api[req]) /\ Wanted(pc, obj, api[req])
        /\ Updated.exists /\ Updated.status = obj.status
        /\ Updated.named = api[req].named /\ obj.named = api[req].named
    BY <1>4, StatusWritten DEF Wanted
  <2>2. Phase(api[req]) = api[req].status.state /\ Phase(Updated) = obj.status.state
    BY <2>1 DEF Phase, Decided
  <2>3. CASE pc = "GitCommitted"
    <3>1. /\ obj.status.state = "git-committed" /\ api[req].status.state = "approved"
          /\ obj.status.retryCount = api[req].status.retryCount
      BY <1>1, <2>1, <2>3 DEF Proposed, Decided, Wanted, Approving
    <3>2. /\ obj.status.gitCommitSHA \in published
          /\ obj.status.gitCommitSHA.cluster \in api[req].named
      BY <1>1, <2>1, <3>1 DEF IsTrue, TrueWith
    <3>3. \A q \in Requests : api[q].status.gitCommitSHA # obj.status.gitCommitSHA
      BY <2>3 DEF Unrecorded, Candidate
    <3> QED
      BY <2>1, <2>2, <3>1, <3>2, <3>3 DEF Moves, Commits, Blank
  <2>4. CASE pc = "Retry"
    BY <1>1, <2>1, <2>2, <2>4 DEF Proposed, Decided, Wanted, Moves, Retries, Blank
  <2>5. CASE pc \in {"InitState", "ArgoCD", "ErrorState", "Started", "NamespaceReady"}
    <3>1. Keeps(api[req], Updated)
      BY <2>1, <2>5 DEF Wanted, Keeps
    <3>2. Phase(Updated) = Phase(api[req]) \/ Advances(api[req], Updated)
      BY <1>1, <2>1, <2>2, <2>5 DEF Proposed, Decided, Approving, Advances
    <3> QED
      BY <2>1, <3>1, <3>2 DEF Moves, Blank
  <2> QED
    BY <1>4, <2>3, <2>4, <2>5 DEF Writes
<1> QED
  BY <1>2, <1>3, <1>4

\* What the API server makes of an object o that somebody stores in place of a.
LEMMA VersionedMoves ==
  ASSUME TypeOK, NEW r \in Requests, NEW o \in Object, o.exists,
         o.deleting => o.finalizer, Moves(api[r], o)
  PROVE  LET v == Versioned(api[r], o) IN Moves(api[r], v) /\ Blank(v)
<1> DEFINE v == Versioned(api[r], o)
<1>1. v.exists /\ v.status = o.status /\ v.named = o.named
  BY DEF Versioned, Object
<1>2. Phase(v) = Phase(o)
  BY <1>1 DEF Phase
<1> HIDE DEF v
<1>3. /\ Keeps(api[r], o) => Keeps(api[r], v)
      /\ Renames(api[r], o) => Renames(api[r], v)
      /\ Commits(api[r], o) => Commits(api[r], v)
      /\ Retries(api[r], o) => Retries(api[r], v)
      /\ Vanishes(api[r], o) => Vanishes(api[r], v)
  BY <1>1, <1>2 DEF Keeps, Renames, Commits, Retries, Vanishes
<1>4. Advances(api[r], o) => Advances(api[r], v)
  BY <1>2, Zenon DEF Advances
<1>5. Moves(api[r], v)
  BY <1>1, <1>2, <1>3, <1>4, Zenon DEF Moves
<1>6. Blank(v)
  BY <1>1 DEF Blank
<1> QED
  BY <1>5, <1>6 DEF v

LEMMA EnvironmentMoves ==
  ASSUME TypeOK, Locking, \A q \in Requests : Blank(api[q]), Environment
  PROVE  \/ UNCHANGED api
         \/ \E r \in Requests, b \in Object : /\ api' = [api EXCEPT ![r] = b]
                                            /\ Moves(api[r], b) /\ Blank(b)
<1> DEFINE Goal == \E r \in Requests, b \in Object : /\ api' = [api EXCEPT ![r] = b]
                                                   /\ Moves(api[r], b) /\ Blank(b)
<1>1. api \in [Requests -> Object] /\ \A q \in Requests : api[q].resourceVersion + 1 \in Nat
  BY DEF TypeOK, Object
<1>2. \A q \in Requests : api[q].deleting => api[q].exists /\ api[q].finalizer
  BY DEF Locking, DeletionsHeld
<1>3. ASSUME NEW r \in Requests, NEW o, o.exists = api[r].exists,
             o.status = api[r].status, o.named = api[r].named
      PROVE  Moves(api[r], o)
  BY <1>3 DEF Moves, Keeps, Phase
<1>4. ASSUME NEW r \in Requests, NEW o \in Object, o.exists,
             o.resourceVersion = api[r].resourceVersion,
             o.deleting => o.finalizer, Moves(api[r], o), Store(r, o)
      PROVE  Goal
  <2>1. Versioned(api[r], o) \in Object
    BY <1>1, <1>4, VersionedType
  <2> QED
    BY <1>4, <2>1, VersionedMoves DEF Store
<1>5. ASSUME NEW r \in Requests, NEW s \in Specs, Create(r, s) PROVE Goal
  <2> DEFINE p == Respecified(api[r], s)
             o == [p EXCEPT !.exists = TRUE]
  <2>1. /\ p \in Object /\ p.status = api[r].status /\ p.deleting = api[r].deleting
        /\ p.resourceVersion = api[r].resourceVersion
        /\ p.named = api[r].named \union {ClusterOf[s]}
    BY <1>1, RespecifiedType, RespecifiedParts
  <2>2. /\ o \in Object /\ o.exists /\ o.status = api[r].status
        /\ o.deleting = api[r].deleting
        /\ o.resourceVersion = api[r].resourceVersion
        /\ o.named = api[r].named \union {ClusterOf[s]}
    <3> HIDE DEF p
    <3> QED
      BY <2>1 DEF Object
  <2>3. ~api[r].exists /\ ~o.deleting /\ api[r].status.state = "" /\ Store(r, o)
    BY <1>2, <1>5, <2>2, NewStatusParts DEF Create, Blank
  <2> HIDE DEF o
  <2>4. Phase(api[r]) = "absent" /\ Phase(o) = "" /\ Keeps(api[r], o)
    BY <2>2, <2>3 DEF Phase, Keeps
  <2>5. Renames(api[r], o)
    BY <2>2 DEF Renames
  <2>6. Moves(api[r], o)
    BY <2>4, <2>5 DEF Moves
  <2> QED
    BY <1>4, <2>2, <2>3, <2>6
<1>6. ASSUME NEW r \in Requests, NEW s \in Specs, Edit(r, s) PROVE Goal
  <2> DEFINE p == Respecified(api[r], s)
             o == [p EXCEPT !.resourceVersion = @ + 1]
  <2>1. /\ p \in Object /\ p.status = api[r].status /\ p.exists = api[r].exists
        /\ p.named = api[r].named \union {ClusterOf[s]}
    BY <1>1, RespecifiedType, RespecifiedParts
  <2>2. /\ o \in Object /\ o.exists = api[r].exists /\ o.status = api[r].status
        /\ o.named = api[r].named \union {ClusterOf[s]}
    <3> HIDE DEF p
    <3> QED
      BY <2>1 DEF Object
  <2>3. api' = [api EXCEPT ![r] = o] /\ api[r].exists
    BY <1>6 DEF Edit
  <2> HIDE DEF o
  <2>4. Phase(api[r]) # "absent" /\ Phase(o) = Phase(api[r]) /\ Keeps(api[r], o)
    BY <1>1, <2>2, <2>3 DEF Phase, Keeps, Object, Status, States
  <2>5. Renames(api[r], o)
    BY <2>2 DEF Renames
  <2>6. Moves(api[r], o) /\ Blank(o)
    BY <2>2, <2>3, <2>4, <2>5 DEF Moves, Blank
  <2> QED
    BY <2>2, <2>3, <2>6
<1>7. ASSUME NEW r \in Requests, Delete(r) PROVE Goal
  <2> DEFINE o == [api[r] EXCEPT !.deleting = TRUE]
  <2>1. /\ o \in Object /\ o.exists /\ o.status = api[r].status /\ o.deleting
        /\ o.named = api[r].named
        /\ o.finalizer = api[r].finalizer /\ api[r].exists /\ ~api[r].deleting
        /\ o.resourceVersion = api[r].resourceVersion
    BY <1>1, <1>7 DEF Delete, Object
  <2>2. CASE o.finalizer
    <3>1. Moves(api[r], o)
      BY <1>3, <2>1
    <3> QED
      BY <1>4, <1>7, <2>1, <2>2, <3>1 DEF Delete
  <2>3. CASE ~o.finalizer
    <3> DEFINE b == Absent(api[r].resourceVersion + 1)
    <3>1. Versioned(api[r], o) = b
      BY <2>1, <2>3 DEF Versioned
    <3>2. ~b.exists /\ b.status.retryCount = 0 /\ b.status.gitCommitSHA = NoCommit
          /\ b.status = NewStatus /\ b.named = {}
      BY DEF Absent, NewStatus
    <3>3. Phase(api[r]) # "absent"
      BY <1>1, <2>1 DEF Phase, Object, Status, States
    <3>4. b \in Object
      BY <1>1, AbsentType DEF Object
    <3>5. Moves(api[r], b) /\ Blank(b)
      BY <3>2, <3>3 DEF Moves, Vanishes, Phase, Blank
    <3> QED
      BY <1>7, <3>1, <3>4, <3>5 DEF Delete, Store
  <2> QED
    BY <2>2, <2>3
<1>8. ASSUME NEW r \in Requests, Approve(r) PROVE Goal
  <2> DEFINE o == [api[r] EXCEPT !.status.state = "approved"]
  <2> DEFINE status == [api[r].status EXCEPT !.state = "approved"]
  <2>1. api[r].exists /\ api[r].status.state \in {"", "pending"}
    BY <1>8, Zenon DEF Approve
  <2>2. "approved" \in States
    BY Zenon DEF States
  <2>3. /\ api[r] \in Object /\ api[r].status \in Status
        /\ o = [api[r] EXCEPT !.status = status]
    BY <1>1 DEF Object
  <2>4. /\ status \in Status /\ status.state = "approved"
        /\ status.retryCount = api[r].status.retryCount
        /\ status.gitCommitSHA = api[r].status.gitCommitSHA
    BY <2>2, <2>3 DEF Status
  <2> HIDE DEF status
  <2>5. /\ o \in Object /\ o.exists = api[r].exists /\ o.status = status
        /\ o.deleting = api[r].deleting /\ o.finalizer = api[r].finalizer
        /\ o.resourceVersion = api[r].resourceVersion /\ o.named = api[r].named
    BY <2>3, <2>4 DEF Object
  <2>6. /\ o \in Object /\ o.exists /\ api[r].exists /\ o.status.state = "approved"
        /\ o.deleting = api[r].deleting /\ o.finalizer = api[r].finalizer
        /\ o.resourceVersion = api[r].resourceVersion /\ o.named = api[r].named
        /\ Keeps(api[r], o) /\ api[r].status.state \in {"", "pending"}
    BY <2>1, <2>4, <2>5, Zenon DEF Keeps
  <2>7. Moves(api[r], o)
    BY <2>6 DEF Moves, Advances, Phase
  <2> QED
    BY <1>2, <1>4, <1>8, <2>6, <2>7 DEF Approve
<1>9. ASSUME NEW r \in Requests, NEW o \in Object, HiveReports(r), Store(r, o), o.exists,
             o.status.state \in {"complete", "failed"}, Keeps(api[r], o),
             o.deleting = api[r].deleting, o.finalizer = api[r].finalizer,
             o.resourceVersion = api[r].resourceVersion, o.named = api[r].named
      PROVE  Goal
  <2>1. Moves(api[r], o)
    BY <1>9 DEF HiveReports, Moves, Advances, Phase
  <2> QED
    BY <1>2, <1>4, <1>9, <2>1
<1>10. ASSUME NEW r \in Requests, HiveReports(r) PROVE Goal
  <2> DEFINE x == [api[r] EXCEPT !.status.state = "complete"]
             y == [api[r] EXCEPT !.status.state = "failed", !.status.error = TRUE]
  <2>1. api[r] \in Object /\ api[r].exists
    BY <1>1, <1>10 DEF HiveReports
  <2>2. /\ x \in Object /\ x.exists /\ x.status.state = "complete" /\ Keeps(api[r], x)
        /\ x.deleting = api[r].deleting /\ x.finalizer = api[r].finalizer
        /\ x.resourceVersion = api[r].resourceVersion /\ x.named = api[r].named
    BY <2>1 DEF Object, Status, States, Keeps
  <2>3. y \in Object
    BY <2>1 DEF Object, Status, States
  <2>4. /\ y.exists /\ y.status.state = "failed" /\ Keeps(api[r], y)
        /\ y.deleting = api[r].deleting /\ y.finalizer = api[r].finalizer
        /\ y.resourceVersion = api[r].resourceVersion /\ y.named = api[r].named
    BY <2>1 DEF Object, Status, Keeps
  <2> QED
    BY <1>9, <1>10, <2>2, <2>3, <2>4 DEF HiveReports
<1>11. CASE OthersPush /\ UNCHANGED <<storeVars, cacheVars, workVars, workerVars>>
  BY <1>11 DEF storeVars
<1>12. ASSUME NEW c \in Clusters, DeleteNamespace(c) PROVE UNCHANGED api
  BY <1>12 DEF DeleteNamespace
<1> QED
  BY <1>5, <1>6, <1>7, <1>8, <1>10, <1>11, <1>12 DEF Environment

---------------------------------------------------------------------------
(* Unmixed is inductive.                                                   *)

LEMMA CallStepNumbers == ASSUME GitTypeOK, Numbered, CallStep PROVE Numbered'
<1> USE DEF GitTypeOK, Calls, Commit, Step, cloneVars, remoteVars, Numbered
<1>1. CASE Pull \/ PullDiverged \/ PullFails
  BY <1>1 DEF Pull, PullDiverged, PullFails
<1>2. CASE CommitFiles
  <2>1. /\ call.commit.seq = commits + 1 /\ commits' = commits + 1 /\ commits \in Nat
        /\ ahead' = ahead \union {call.commit} /\ UNCHANGED published /\ call'.at = "Push"
    BY <1>2 DEF CommitFiles
  <2>2. \A m \in published \union ahead : m.seq \in Nat
    OBVIOUS
  <2>3. call.commit \notin published
    BY <2>1
  <2> QED
    BY <2>1, <2>2, <2>3
<1>3. CASE CommitEmpty \/ StageFails
  BY <1>3 DEF CommitEmpty, StageFails
<1>4. CASE Push \/ PushAckLost
  BY <1>4 DEF Push, PushAckLost
<1>5. CASE PushRejected \/ PushFails
  BY <1>5 DEF PushRejected, PushFails
<1> QED
  BY <1>1, <1>2, <1>3, <1>4, <1>5 DEF CallStep

LEMMA NextNumbers == ASSUME TypeOK, Numbered, [Next]_vars PROVE Numbered'
<1>1. CASE UNCHANGED <<published, ahead, commits, call>>
  BY <1>1 DEF Numbered
<1>2. CASE NamespaceReady
  BY <1>2 DEF NamespaceReady, CommitCluster, remoteVars, cloneVars, Numbered
<1>3. CASE GitStep
  BY <1>3, CallStepNumbers DEF GitStep, TypeOK
<1>4. CASE GitReturns
  BY <1>4 DEF GitReturns, Return, NoCall, remoteVars, cloneVars, Numbered
<1>5. CASE Restart
  BY <1>5 DEF Restart, Reclone, NoCall, remoteVars, Numbered
<1> QED
  BY <1>1, <1>2, <1>3, <1>4, <1>5
     DEF vars, gitVars, remoteVars, cloneVars, Next, Reconcile, ReconcileNothing,
         ReconcileWaiting, ReconcileDeletion, ReconcileFinalizer, ReconcileNew,
         ReconcileApproved, ReconcileGitCommitted, ReconcileFailed, Take, WorkerStep,
         WriteConflict, WriteFails, WriteAckLost, RequeueAfterWrite, BackOffAfterWrite,
         DeletionHandled, StartProcessing, EnsureNamespace, EnsureNamespaceFails, Watch,
         WatchNamespaces, TimerFires, Environment, Create, Edit, Delete, Approve,
         HiveReports, DeleteNamespace, Store, OthersPush

\* A commit is being made or recorded because the last status write before Git
\* has just succeeded, or because it was already.
LEMMA NextCandidate ==
  ASSUME TypeOK, [Next]_vars, pc' \in {"CommitCluster", "GitCommitted"}
  PROVE  \/ NamespaceReady
         \/ /\ pc \in {"CommitCluster", "GitCommitted"} /\ Candidate' = Candidate
            /\ UNCHANGED api \/ Environment
<1>1. CASE UNCHANGED <<pc, obj, call>>
  <2>1. UNCHANGED api \/ Environment \/ (pc \in Writes /\ pc' = "idle") \/ NamespaceReady
    BY <1>1
       DEF vars, Next, Reconcile, ReconcileNothing, ReconcileWaiting, ReconcileDeletion,
           ReconcileFinalizer, ReconcileNew, ReconcileApproved, ReconcileGitCommitted,
           ReconcileFailed, Take, WorkerStep, WriteConflict, WriteFails, WriteAckLost,
           RequeueAfterWrite, BackOffAfterWrite, DeletionHandled, StartProcessing,
           EnsureNamespace, EnsureNamespaceFails, GitStep, GitReturns,
           Watch, WatchNamespaces, TimerFires, Restart, storeVars,
           ReturnAfter, ReturnDone, Done, Write, Writes, Continue
  <2> QED
    BY <1>1, <2>1 DEF Candidate
<1>2. CASE GitStep
  <2>1. call'.commit = call.commit /\ pc = "CommitCluster" /\ UNCHANGED <<pc, obj, api>>
    BY <1>2, CallStepKeeps DEF GitStep, TypeOK, workerVars, storeVars
  <2> QED
    BY <2>1 DEF Candidate
<1>3. CASE GitReturns
  <2>1. /\ pc = "CommitCluster" /\ pc' = "GitCommitted" /\ UNCHANGED api
        /\ obj' = [WithState("git-committed") EXCEPT
                     !.status.gitCommitSHA = call.commit,
                     !.status.conditions = @ \union {"GitCommitted"}]
    BY <1>3 DEF GitReturns, Continue, storeVars
  <2>2. obj'.status.gitCommitSHA = call.commit
    BY <2>1 DEF WithState, TypeOK, Object, Status
  <2> QED
    BY <2>1, <2>2 DEF Candidate
<1>4. CASE WorkerStep /\ ~NamespaceReady /\ ~GitStep /\ ~GitReturns
  BY <1>4 DEF WorkerStep, WriteConflict, WriteFails, WriteAckLost,
       RequeueAfterWrite, BackOffAfterWrite, DeletionHandled, StartProcessing,
       EnsureNamespace, EnsureNamespaceFails, ReturnAfter, ReturnDone, Done, Continue
<1>5. CASE Restart
  BY <1>5 DEF Restart, Done
<1>6. ASSUME NEW r \in Requests, Reconcile(r), ~UNCHANGED <<pc, obj>> PROVE FALSE
  BY <1>6 DEF Reconcile, ReconcileNothing, ReconcileWaiting, ReconcileDeletion,
       ReconcileFinalizer, ReconcileNew, ReconcileApproved, ReconcileGitCommitted,
       ReconcileFailed, Begin, workerVars
<1>7. CASE Environment
  <2>1. UNCHANGED <<pc, obj, call>>
    BY <1>7, EnvironmentStores
       DEF workerVars, Environment, Create, Edit, Delete, Approve, HiveReports,
           DeleteNamespace, Store, OthersPush, gitVars
  <2> QED
    BY <1>1, <2>1
<1> QED
  BY <1>1, <1>2, <1>3, <1>4, <1>5, <1>6, <1>7
     DEF Next, vars, Watch, WatchNamespaces, TimerFires, workerVars, gitVars, Reconcile,
         ReconcileNothing, ReconcileWaiting, ReconcileDeletion, ReconcileFinalizer,
         ReconcileNew, ReconcileApproved, ReconcileGitCommitted, ReconcileFailed, Take

LEMMA NextUnrecorded ==
  ASSUME TypeOK, TypeOK', Locking, Truth, Truth', Numbered, Unrecorded, [Next]_vars
  PROVE  Unrecorded'
<1> SUFFICES ASSUME pc' \in {"CommitCluster", "GitCommitted"}, NEW q \in Requests
             PROVE  api'[q].status.gitCommitSHA # Candidate'
  BY DEF Unrecorded
<1>1. CASE NamespaceReady
  <2>1. /\ pc = "NamespaceReady" /\ Current /\ api' = [api EXCEPT ![req] = Updated]
        /\ pc' = "CommitCluster" /\ UNCHANGED <<published, commits>>
        /\ call'.commit.seq = commits + 1
    BY <1>1 DEF NamespaceReady, Write, Continue, CommitCluster, remoteVars
  <2>2. api'[q].status.gitCommitSHA = api[q].status.gitCommitSHA
    <3>1. Updated.status.gitCommitSHA = api[req].status.gitCommitSHA
      BY <2>1, StatusWritten DEF Wanted, Writes
    <3> QED
      BY <2>1, <3>1 DEF TypeOK
  <2>3. call'.commit # NoCommit
    BY <2>1, CommitAssumption DEF Truth, WorkHolds, Publishing, TypeOK, GitTypeOK
  <2>4. api[q].status.gitCommitSHA # NoCommit => api[q].status.gitCommitSHA.seq <= commits
    BY DEF Truth, StatusesHold, IsTrue, TrueWith, Numbered
  <2>5. commits \in Nat
    BY DEF TypeOK, GitTypeOK
  <2> QED
    BY <2>1, <2>2, <2>3, <2>4, <2>5 DEF Candidate
<1>2. CASE /\ pc \in {"CommitCluster", "GitCommitted"} /\ Candidate' = Candidate
           /\ UNCHANGED api \/ Environment
  <2>1. api[q].status.gitCommitSHA # Candidate
    BY <1>2 DEF Unrecorded
  <2>2. Candidate # NoCommit
    <3>1. CASE pc = "CommitCluster"
      BY <3>1, CommitAssumption
         DEF Candidate, Truth, WorkHolds, Publishing, TypeOK, GitTypeOK
    <3>2. CASE pc = "GitCommitted"
      BY <3>2 DEF Candidate, Truth, StatusesHold, IsTrue, TrueWith,
                  Locking, WorkLocked, Proposed
    <3> QED
      BY <1>2, <3>1, <3>2
  <2>3. api'[q].status.gitCommitSHA \in {api[q].status.gitCommitSHA, NoCommit}
    BY <1>2, EnvironmentElsewhere, NewStatusParts DEF Elsewhere
  <2> QED
    BY <1>2, <2>1, <2>2, <2>3
<1> QED
  BY <1>1, <1>2, NextCandidate

LEMMA NextMoves ==
  ASSUME TypeOK, Locking, Truth, Unmixed, [Next]_vars
  PROVE  \/ UNCHANGED api
         \/ \E r \in Requests, b \in Object :
              /\ api' = [api EXCEPT ![r] = b]
              /\ Moves(api[r], b) /\ Blank(b)
<1>1. CASE Environment
  BY <1>1, EnvironmentMoves DEF Unmixed
<1>2. CASE pc \in Writes /\ Current /\ api' = [api EXCEPT ![req] = Updated]
  <2>1. req \in Requests /\ Updated \in Object
    BY <1>2, UpdatedType DEF TypeOK, Writes
  <2> QED
    BY <1>2, <2>1, WriteMoves DEF Unmixed
<1> QED
  BY <1>1, <1>2, NextStores

LEMMA NextUnmixed ==
  ASSUME TypeOK, TypeOK', Locking, Truth, Truth', Unmixed, [Next]_vars
  PROVE  Unmixed'
<1>1. Numbered' /\ Unrecorded'
  BY NextNumbers, NextUnrecorded DEF Unmixed
<1>2. \A q \in Requests : Blank(api'[q])
  <2>1. CASE UNCHANGED api
    BY <2>1 DEF Unmixed
  <2>2. CASE \E r \in Requests, b \in Object : /\ api' = [api EXCEPT ![r] = b]
                                               /\ Moves(api[r], b) /\ Blank(b)
    BY <2>2 DEF Unmixed, TypeOK
  <2> QED
    BY <2>1, <2>2, NextMoves
<1> QED
  BY <1>1, <1>2 DEF Unmixed, Blank

LEMMA InitUnmixed == ASSUME Init PROVE Unmixed
BY DEF Init, Idle, GitInit, NoCall, Absent, Unmixed, Numbered, Unrecorded, Blank

\* Commits have numbers of their own, and a commit in the making is recorded
\* nowhere.
THEOREM UnmixedHolds == Spec => []Unmixed
<1>1. Init => Unmixed
  BY InitUnmixed
<1>2. TypeOK /\ TypeOK' /\ Locking /\ Truth /\ Truth' /\ Unmixed /\ [Next]_vars => Unmixed'
  BY NextUnmixed
<1> QED
  BY <1>1, <1>2, TypeCorrect, LockingHolds, TruthHolds, PTL DEF Spec

---------------------------------------------------------------------------
(* The steps of the lifecycle.                                             *)

\* What is published, and when: by a push of the running call.
LEMMA NextPublished ==
  ASSUME [Next]_vars, published' # published
  PROVE  /\ pc = "CommitCluster" /\ call.at = "Push" /\ UNCHANGED api
         /\ published' = published \union ahead
<1>1. GitStep
  BY DEF vars, gitVars, remoteVars, Next, Reconcile, ReconcileNothing, ReconcileWaiting,
         ReconcileDeletion, ReconcileFinalizer, ReconcileNew, ReconcileApproved,
         ReconcileGitCommitted, ReconcileFailed, Take, WorkerStep, WriteConflict, WriteFails,
         WriteAckLost, RequeueAfterWrite, BackOffAfterWrite, DeletionHandled, StartProcessing,
         EnsureNamespace, EnsureNamespaceFails, NamespaceReady, GitReturns, Watch,
         WatchNamespaces, TimerFires, Restart, Reclone, Environment, Create, Edit, Delete,
         Approve, HiveReports, DeleteNamespace, Store, OthersPush
<1> QED
  BY <1>1 DEF GitStep, storeVars, CallStep, Pull, PullDiverged, PullFails, CommitFiles,
         CommitEmpty, StageFails, Push, PushRejected, PushFails, PushAckLost, Step, remoteVars

LEMMA PublishedStep ==
  ASSUME TypeOK, Truth, Unmixed, [Next]_vars, published' # published
  PROVE  LifecycleStep
<1>1. /\ pc = "CommitCluster" /\ call.at = "Push" /\ UNCHANGED api
      /\ published' = published \union ahead /\ req \in Requests
  BY NextPublished DEF TypeOK
<1>2. /\ call.commit \in ahead /\ call.commit.cluster \in api[req].named
      /\ api[req].exists /\ api[req].status.state = "approved"
  BY <1>1 DEF Truth, GitInv, PushIsPrepared, WorkHolds, Publishing, InProgress
<1>3. call.commit \in published' \ published
  BY <1>1, <1>2 DEF Unmixed, Numbered
<1>4. /\ phaseOf[req] = "approved" /\ namedOf[req] = api[req].named
      /\ UNCHANGED <<phaseOf, retriesOf, shaOf, namedOf>>
  BY <1>1, <1>2 DEF phaseOf, retriesOf, shaOf, namedOf
<1>5. Lifecycle!Publishes(req)
  BY <1>1, <1>2, <1>3, <1>4 DEF Lifecycle!Publishes
<1> QED
  BY <1>1, <1>5 DEF LifecycleStep, Lifecycle!LifecycleNext

LEMMA NextLifecycle ==
  ASSUME TypeOK, Locking, Truth, Unmixed, [Next]_vars
  PROVE  LifecycleStep
<1>1. CASE published' # published
  BY <1>1, PublishedStep
<1>2. CASE UNCHANGED published /\ UNCHANGED api
  BY <1>2 DEF LifecycleStep, Lifecycle!lifecycleVars, phaseOf, retriesOf, shaOf, namedOf
<1>3. CASE /\ UNCHANGED published
           /\ \E r \in Requests, b \in Object : /\ api' = [api EXCEPT ![r] = b]
                                                /\ Moves(api[r], b) /\ Blank(b)
  BY <1>3, MovesStep
<1> QED
  BY <1>1, <1>2, <1>3, NextMoves

\* The operator implements the lifecycle, for any number of requests and
\* clusters and any number of failures, restarts and retries: what clients see
\* moves along its arrows only, although the reconciler acts on stale copies.
THEOREM LifecycleImplemented == Spec => ImplementsLifecycle
<1>1. Init => Lifecycle!LifecycleInit
  <2> SUFFICES ASSUME Init PROVE Lifecycle!LifecycleInit
    OBVIOUS
  <2>1. \A r \in Requests : /\ ~api[r].exists /\ api[r].status.retryCount = 0
                           /\ api[r].status.gitCommitSHA = NoCommit /\ api[r].named = {}
    BY DEF Init, Absent, NewStatus
  <2>2. phaseOf = [r \in Requests |-> "absent"]
    BY <2>1 DEF phaseOf
  <2>3. retriesOf = [r \in Requests |-> 0]
    BY <2>1 DEF retriesOf
  <2>4. shaOf = [r \in Requests |-> NoCommit]
    BY <2>1 DEF shaOf
  <2>5. namedOf = [r \in Requests |-> {}]
    BY <2>1 DEF namedOf
  <2> QED
    BY <2>2, <2>3, <2>4, <2>5 DEF Init, GitInit, Lifecycle!LifecycleInit
<1>2. TypeOK /\ Locking /\ Truth /\ Unmixed /\ [Next]_vars =>
        [Lifecycle!LifecycleNext]_Lifecycle!lifecycleVars
  BY NextLifecycle DEF LifecycleStep
<1> QED
  BY <1>1, <1>2, TypeCorrect, LockingHolds, TruthHolds, UnmixedHolds, PTL
     DEF Spec, ImplementsLifecycle, Lifecycle!LifecycleSpec
---------------------------------------------------------------------------
(* Who moves a request along which arrow.                                  *)

\* The arrow from state a to state b is one of arrows, if it is one.
Arrow(a, b, arrows) ==
  a.exists /\ b.exists /\ b.status.state # a.status.state =>
    <<a.status.state, b.status.state>> \in arrows

LEMMA WriteArrow ==
  ASSUME TypeOK, Locking, pc \in Writes, Current
  PROVE  Arrow(api[req], Updated, ControllerArrows)
<1>1. Proposed(pc, obj)
  BY DEF Locking, WorkLocked, Writes
<1>2. CASE pc \in {"AddFinalizer", "RemoveFinalizer"}
  BY <1>2, FinalizerWritten DEF Arrow, Absent
<1>3. CASE pc \notin {"AddFinalizer", "RemoveFinalizer"}
  <2>1. Decided(pc, api[req]) /\ Updated.status = obj.status
    BY <1>3, StatusWritten
  <2>2. CASE pc = "InitState"
    <3>1. api[req].status.state = "" /\ Updated.status.state = "pending"
      BY <1>1, <2>1, <2>2, Zenon DEF Decided, Proposed
    <3> QED
      BY <3>1, Zenon DEF Arrow, ControllerArrows
  <2>3. CASE pc = "Retry"
    <3>1. api[req].status.state = "failed" /\ Updated.status.state = "approved"
      BY <1>1, <2>1, <2>3, Zenon DEF Decided, Proposed
    <3> QED
      BY <3>1, Zenon DEF Arrow, ControllerArrows
  <2>4. CASE pc = "ArgoCD"
    <3>1. api[req].status.state = "git-committed" /\ Updated.status.state = "provisioning"
      BY <1>1, <2>1, <2>4, Zenon DEF Decided, Proposed
    <3> QED
      BY <3>1, Zenon DEF Arrow, ControllerArrows
  <2>5. CASE pc = "GitCommitted"
    <3>1. api[req].status.state = "approved" /\ Updated.status.state = "git-committed"
      BY <1>1, <2>1, <2>5, Zenon DEF Decided, Proposed, Approving
    <3> QED
      BY <3>1, Zenon DEF Arrow, ControllerArrows
  <2>6. CASE pc = "ErrorState"
    <3>1. api[req].status.state = "approved" /\ Updated.status.state = "failed"
      BY <1>1, <2>1, <2>6, Zenon DEF Decided, Proposed, Approving
    <3> QED
      BY <3>1, Zenon DEF Arrow, ControllerArrows
  <2>7. CASE pc \in {"Started", "NamespaceReady"}
    <3>1. api[req].status.state = "approved" /\ Updated.status.state = "approved"
      BY <1>1, <2>1, <2>7, Zenon DEF Decided, Proposed, Approving
    <3> QED
      BY <3>1, Zenon DEF Arrow
  <2> QED
    BY <1>3, <2>2, <2>3, <2>4, <2>5, <2>6, <2>7 DEF Writes
<1> QED
  BY <1>2, <1>3

LEMMA WorkerArrows ==
  ASSUME TypeOK, Locking, WorkerStep
  PROVE  \A q \in Requests : Arrow(api[q], api'[q], ControllerArrows)
<1>1. \/ UNCHANGED api
      \/ pc \in Writes /\ Current /\ api' = [api EXCEPT ![req] = Updated]
  BY DEF WorkerStep, WriteConflict, WriteFails, WriteAckLost, RequeueAfterWrite,
         BackOffAfterWrite, DeletionHandled, StartProcessing, EnsureNamespace,
         EnsureNamespaceFails, NamespaceReady, GitStep, GitReturns, Write, Writes, storeVars
<1>2. CASE UNCHANGED api
  BY <1>2 DEF Arrow
<1>3. CASE pc \in Writes /\ Current /\ api' = [api EXCEPT ![req] = Updated]
  <2>1. \A q \in Requests : api'[q] = IF q = req THEN Updated ELSE api[q]
    BY <1>3 DEF TypeOK
  <2> QED
    BY <1>3, <2>1, WriteArrow DEF Arrow
<1> QED
  BY <1>1, <1>2, <1>3

LEMMA EnvironmentArrows ==
  ASSUME TypeOK, Environment
  PROVE  \A q \in Requests : Arrow(api[q], api'[q], OthersArrows)
<1> DEFINE Goal == \A q \in Requests : Arrow(api[q], api'[q], OthersArrows)
<1>1. api \in [Requests -> Object]
  BY DEF TypeOK
<1>2. {"approved", "complete", "failed"} \subseteq States
  BY Zenon DEF States
<1>3. ASSUME NEW r \in Requests, NEW o, api' = [api EXCEPT ![r] = o],
             Arrow(api[r], o, OthersArrows)
      PROVE  Goal
  BY <1>1, <1>3 DEF Arrow
<1>4. ASSUME NEW r \in Requests, NEW o \in Object, Store(r, o),
             Arrow(api[r], o, OthersArrows) \/ ~api[r].exists,
             o.exists
      PROVE  Goal
  <2>1. LET v == Versioned(api[r], o) IN v.exists => v.status = o.status
    BY <1>4 DEF Versioned, Absent, Object
  <2> QED
    BY <1>3, <1>4, <2>1 DEF Store, Arrow
<1>5. ASSUME NEW r \in Requests, NEW s \in Specs, Create(r, s) PROVE Goal
  <2> DEFINE p == Respecified(api[r], s)
             o == [p EXCEPT !.exists = TRUE]
  <2>1. p \in Object
    BY <1>1, RespecifiedType
  <2>2. o \in Object /\ o.exists
    <3> HIDE DEF p
    <3> QED
      BY <2>1 DEF Object
  <2>3. ~api[r].exists /\ Store(r, o)
    BY <1>5 DEF Create
  <2> QED
    BY <1>4, <2>2, <2>3
<1>6. ASSUME NEW r \in Requests, NEW s \in Specs, Edit(r, s) PROVE Goal
  <2> DEFINE p == Respecified(api[r], s)
             o == [p EXCEPT !.resourceVersion = @ + 1]
  <2>1. p \in Object /\ p.status = api[r].status
    BY <1>1, RespecifiedType, RespecifiedParts
  <2>2. o.status = api[r].status
    <3> HIDE DEF p
    <3> QED
      BY <2>1 DEF Object
  <2> QED
    BY <1>3, <1>6, <2>2 DEF Edit, Arrow
<1>7. ASSUME NEW r \in Requests, Delete(r) PROVE Goal
  <2> DEFINE o == [api[r] EXCEPT !.deleting = TRUE]
  <2>1. o \in Object /\ o.exists /\ o.status = api[r].status
    BY <1>1, <1>7 DEF Delete, Object
  <2> QED
    BY <1>4, <1>7, <2>1 DEF Delete, Arrow
<1>8. ASSUME NEW r \in Requests, Approve(r) PROVE Goal
  <2> DEFINE o == [api[r] EXCEPT !.status.state = "approved"]
  <2>1. api[r].exists /\ api[r].status.state \in {"", "pending"} /\ Store(r, o)
    BY <1>8, Zenon DEF Approve
  <2>2. api[r].exists /\ Store(r, o)
    BY <2>1, Zenon
  <2>3. o \in Object /\ o.exists /\ o.status.state = "approved"
    BY <1>1, <1>2, <2>2 DEF Object, Status
  <2>4. <<api[r].status.state, "approved">> \in OthersArrows
    BY <2>1, Zenon DEF OthersArrows
  <2>5. Arrow(api[r], o, OthersArrows)
    BY <2>3, <2>4, Zenon DEF Arrow
  <2> QED
    BY <1>4, <2>2, <2>3, <2>5
<1>9. ASSUME NEW r \in Requests, HiveReports(r) PROVE Goal
  <2> DEFINE x == [api[r] EXCEPT !.status.state = "complete"]
             y == [api[r] EXCEPT !.status.state = "failed", !.status.error = TRUE]
  <2>1. /\ api[r].exists /\ api[r].status.state = "provisioning"
        /\ Store(r, x) \/ Store(r, y)
    BY <1>9 DEF HiveReports
  <2>2. x \in Object /\ x.exists /\ x.status.state = "complete"
    BY <1>1, <1>2, <2>1 DEF Object, Status
  <2>3. y \in Object /\ y.exists /\ y.status.state = "failed"
    BY <1>1, <1>2, <2>1 DEF Object, Status
  <2>4. /\ <<"provisioning", "complete">> \in OthersArrows
        /\ <<"provisioning", "failed">> \in OthersArrows
    BY Zenon DEF OthersArrows
  <2>5. Arrow(api[r], x, OthersArrows) /\ Arrow(api[r], y, OthersArrows)
    BY <2>1, <2>2, <2>3, <2>4, Zenon DEF Arrow
  <2> QED
    BY <1>4, <2>1, <2>2, <2>3, <2>5
<1>10. CASE OthersPush /\ UNCHANGED <<storeVars, cacheVars, workVars, workerVars>>
  BY <1>10 DEF storeVars, Arrow
<1>11. ASSUME NEW c \in Clusters, DeleteNamespace(c) PROVE Goal
  BY <1>11 DEF DeleteNamespace, Arrow
<1> QED
  BY <1>5, <1>6, <1>7, <1>8, <1>9, <1>10, <1>11 DEF Environment

LEMMA OthersStore ==
  ASSUME [Next]_vars, ~WorkerStep
  PROVE  UNCHANGED api \/ Environment
BY DEF vars, Next, Reconcile, ReconcileNothing, ReconcileWaiting, ReconcileDeletion,
       ReconcileFinalizer, ReconcileNew, ReconcileApproved, ReconcileGitCommitted,
       ReconcileFailed, Take, Watch, WatchNamespaces, TimerFires, Restart, storeVars

\* Reconciler and others keep to their own arrows, however stale the copies
\* they act on: what the model of the database sync takes for granted.
THEOREM ArrowsHold == Spec => ArrowsFollowed
<1>1. ASSUME TypeOK, Locking, [Next]_vars
      PROVE  \A q \in Requests :
               Arrow(api[q], api'[q], IF WorkerStep THEN ControllerArrows ELSE OthersArrows)
  <2>1. CASE WorkerStep
    BY <1>1, <2>1, WorkerArrows
  <2>2. CASE ~WorkerStep /\ UNCHANGED api
    BY <2>2 DEF Arrow
  <2>3. CASE ~WorkerStep /\ Environment
    BY <1>1, <2>3, EnvironmentArrows
  <2> QED
    BY <1>1, <2>1, <2>2, <2>3, OthersStore
<1>2. TypeOK /\ Locking /\ [Next]_vars =>
        [\A r \in Requests :
           api[r].exists /\ api'[r].exists /\ api'[r].status.state # api[r].status.state =>
             <<api[r].status.state, api'[r].status.state>> \in
               IF WorkerStep THEN ControllerArrows ELSE OthersArrows]_vars
  BY <1>1 DEF Arrow
<1> QED
  BY <1>2, TypeCorrect, LockingHolds, PTL DEF Spec, ArrowsFollowed
---------------------------------------------------------------------------
(* Under the controller, too, a push undoes nobody's work.                 *)

LEMMA NextSpends == ASSUME TypeOK, [Next]_vars PROVE Spending
<1>1. GitTypeOK
  BY DEF TypeOK
<1>2. CASE UNCHANGED budget
  BY <1>1, <1>2, UnchangedSpends
<1>3. CASE GitStep
  BY <1>1, <1>3, CallStepSpends DEF GitStep
<1>4. ASSUME NEW event \in Events, Spend(event) PROVE Spending
  BY <1>1, <1>4, SpendSpends
<1>5. CASE WorkerStep /\ ~GitStep
  BY <1>2, <1>4, <1>5
     DEF Events, WorkerStep, WriteConflict, WriteFails, WriteAckLost, RequeueAfterWrite,
         BackOffAfterWrite, DeletionHandled, StartProcessing, EnsureNamespace,
         EnsureNamespaceFails, NamespaceReady, GitReturns, Write
<1>6. CASE Environment
  BY <1>2, <1>4, <1>6
     DEF Events, Environment, Create, Edit, Delete, Approve, HiveReports,
         DeleteNamespace, OthersPush
<1> QED
  BY <1>2, <1>3, <1>4, <1>5, <1>6
     DEF Events, vars, Next, Reconcile, ReconcileNothing, ReconcileWaiting,
         ReconcileDeletion, ReconcileFinalizer, ReconcileNew, ReconcileApproved,
         ReconcileGitCommitted, ReconcileFailed, Take, Watch, WatchNamespaces, TimerFires,
         Restart

LEMMA NextFollows ==
  ASSUME TypeOK, Following, [Next]_vars
  PROVE  Following' /\ (Undamaged => PushKeepsOut)
<1>1. GitTypeOK /\ Spending
  BY NextSpends DEF TypeOK
<1>2. CASE GitStep
  BY <1>1, <1>2, CallStepFollows, PushFollows DEF GitStep
<1>3. CASE ~GitStep
  <2>1. \/ UNCHANGED <<remoteVars, cloneVars>>
        \/ OthersPush
        \/ Reclone
    BY <1>3
       DEF vars, gitVars, remoteVars, cloneVars, Next, Reconcile, ReconcileNothing,
           ReconcileWaiting, ReconcileDeletion, ReconcileFinalizer, ReconcileNew,
           ReconcileApproved, ReconcileGitCommitted, ReconcileFailed, Take, WorkerStep,
           WriteConflict, WriteFails, WriteAckLost, RequeueAfterWrite, BackOffAfterWrite,
           DeletionHandled, StartProcessing, EnsureNamespace, EnsureNamespaceFails,
           NamespaceReady, GitReturns, Watch, WatchNamespaces, TimerFires, Restart,
           Environment, Create, Edit, Delete, Approve, HiveReports, DeleteNamespace, Store
  <2>2. UNCHANGED published
    BY <2>1 DEF remoteVars, OthersPush, Reclone
  <2> QED
    BY <1>1, <2>1, <2>2, OthersFollow DEF PushKeepsOut
<1> QED
  BY <1>2, <1>3

\* With the calls that the reconciler makes, its restarts in the middle of them
\* and others who push: a push changes the directories of the clusters whose
\* commits it carries and no others, until staging has failed once.
THEOREM ControllerPushUndoes == Spec => PushUndoesNothing
<1>1. Init => Following
  BY InitFollows DEF Init
<1>2. TypeOK /\ Following /\ [Next]_vars => Following'
  BY NextFollows
<1>3. TypeOK /\ Following /\ [Next]_vars =>
        [budget["diskFault"] = Budget["diskFault"] => PushKeepsOut]_<<gitVars, budget>>
  BY NextFollows DEF Undamaged
<1> QED
  BY <1>1, <1>2, <1>3, TypeCorrect, PTL DEF Spec, PushUndoesNothing

\* A failing disk is the only way out of a push's own clusters: without one the
\* commit message is true of every push, however often calls are cut off.
THEOREM SoundDiskKeepsScope ==
  ASSUME Budget["diskFault"] = 0
  PROVE  Spec => PushStaysInItsClusters
<1>1. Init => Following
  BY InitFollows DEF Init
<1>2. TypeOK /\ Following /\ [Next]_vars => Following'
  BY NextFollows
<1>3. TypeOK /\ Following => Undamaged
  BY DEF TypeOK, GitTypeOK, Following, Undamaged, Events
<1>4. TypeOK /\ Following /\ [Next]_vars => [PushKeepsOut]_<<gitVars, budget>>
  BY <1>3, NextFollows
<1> QED
  BY <1>1, <1>2, <1>4, TypeCorrect, PTL DEF Spec, PushStaysInItsClusters
=============================================================================
