------------------- MODULE ClusterRequestControllerProofs -------------------
(***************************************************************************)
(* Proofs about ClusterRequestController, for any requests, clusters,      *)
(* specs, renderings, number of retries and budget.                        *)
(***************************************************************************)
EXTENDS ClusterRequestController, GitClientProofs

USE ControllerAssumption

---------------------------------------------------------------------------
(* The pieces that actions are made of.                                    *)

LEMMA AbsentType == ASSUME NEW rv \in Nat PROVE Absent(rv) \in Object
BY DEF Absent, Object, Status, NewStatus, States

LEMMA ScheduleType ==
  ASSUME timers \in [Requests -> Nat], NEW r, NEW delay \in Nat, Schedule(r, delay)
  PROVE  timers' \in [Requests -> Nat]
BY DEF Schedule

LEMMA DelayTypes == RateLimited \in Nat /\ requeueAfterSuccess \in Nat
                    /\ requeueAfterError \in Nat /\ NoTimer \in Nat
BY DEF RateLimited, requeueAfterSuccess, requeueAfterError, NoTimer

LEMMA VersionedType ==
  ASSUME NEW old \in Object, NEW new \in Object
  PROVE  Versioned(old, new) \in Object
<1>1. old.resourceVersion + 1 \in Nat
  BY DEF Object
<1>2. Absent(old.resourceVersion + 1) \in Object
  BY <1>1, AbsentType
<1>3. [new EXCEPT !.resourceVersion = old.resourceVersion + 1] \in Object
  BY <1>1 DEF Object
<1> QED
  BY <1>2, <1>3 DEF Versioned

LEMMA UpdatedType ==
  ASSUME TypeOK, req \in Requests
  PROVE  Updated \in Object
<1>1. api[req] \in Object /\ obj \in Object
  BY DEF TypeOK
<1>2. [api[req] EXCEPT !.finalizer = obj.finalizer] \in Object
  BY <1>1 DEF Object
<1>3. [api[req] EXCEPT !.status = obj.status] \in Object
  BY <1>1 DEF Object
<1> QED
  BY <1>1, <1>2, <1>3, VersionedType DEF Updated

\* The types of the variables that are the controller's own.
WorkerTypeOK ==
  /\ queue \in SUBSET Requests
  /\ timers \in [Requests -> Nat]
  /\ pc \in Writes \union {"idle", "EnsureNamespace", "CommitCluster"}
  /\ req \in Requests \union {NoRequest}
  /\ pc # "idle" => req \in Requests
  /\ obj \in Object

StoreTypeOK ==
  /\ api \in [Requests -> Object]
  /\ cache \in [Requests -> Object]
  /\ namespaces \in SUBSET Clusters
  /\ gone \in SUBSET Clusters
  /\ nsCache \in SUBSET Clusters

LEMMA TypeParts == TypeOK <=> GitTypeOK /\ StoreTypeOK /\ WorkerTypeOK
BY DEF TypeOK, StoreTypeOK, WorkerTypeOK

LEMMA DoneType ==
  ASSUME TypeOK, Done, UNCHANGED queue, timers' \in [Requests -> Nat]
  PROVE  WorkerTypeOK'
<1>1. Absent(0) \in Object
  BY AbsentType
<1> QED
  BY <1>1 DEF Done, TypeOK, WorkerTypeOK

LEMMA ReturnAfterType ==
  ASSUME TypeOK, NEW delay \in Nat, ReturnAfter(delay), UNCHANGED queue
  PROVE  WorkerTypeOK'
<1>1. timers' \in [Requests -> Nat]
  BY ScheduleType DEF ReturnAfter, TypeOK
<1> QED
  BY <1>1, DoneType DEF ReturnAfter

LEMMA ContinueType ==
  ASSUME TypeOK, req \in Requests, NEW o \in Object, UNCHANGED queue,
         NEW step \in Writes \union {"EnsureNamespace", "CommitCluster"}, Continue(step, o)
  PROVE  WorkerTypeOK'
BY DEF Continue, TypeOK, WorkerTypeOK

LEMMA BeginType ==
  ASSUME TypeOK, NEW r \in Requests, NEW o \in Object, Take(r), UNCHANGED timers,
         NEW step \in Writes \union {"EnsureNamespace"}, Begin(r, step, o)
  PROVE  TypeOK'
<1>1. GitTypeOK'
  BY UnchangedGitType DEF Take, TypeOK, GitTypeOK
<1>2. StoreTypeOK'
  BY DEF Take, storeVars, nsVars, cacheVars, TypeOK, StoreTypeOK
<1>3. WorkerTypeOK'
  BY DEF Begin, Take, TypeOK, WorkerTypeOK
<1> QED
  BY <1>1, <1>2, <1>3 DEF TypeOK, StoreTypeOK, WorkerTypeOK

LEMMA WriteType ==
  ASSUME TypeOK, req \in Requests, api' = [api EXCEPT ![req] = Updated],
         UNCHANGED <<nsVars, cacheVars>>
  PROVE  StoreTypeOK'
BY UpdatedType DEF TypeOK, StoreTypeOK, nsVars, cacheVars

LEMMA UnchangedStoreType ==
  ASSUME TypeOK, UNCHANGED <<storeVars, cacheVars>>
  PROVE  StoreTypeOK'
BY DEF TypeOK, StoreTypeOK, storeVars, nsVars, cacheVars

LEMMA UnchangedWorkerType ==
  ASSUME TypeOK, UNCHANGED <<workVars, workerVars>>
  PROVE  WorkerTypeOK'
BY DEF TypeOK, WorkerTypeOK, workVars, workerVars

LEMMA BudgetType ==
  ASSUME TypeOK, NEW event \in Events, Spend(event)
  PROVE  budget' \in [Events -> Nat]
BY SpendType DEF TypeOK, GitTypeOK

LEMMA AllTypes ==
  ASSUME GitTypeOK', StoreTypeOK', WorkerTypeOK'
  PROVE  TypeOK'
BY DEF TypeOK, StoreTypeOK, WorkerTypeOK

---------------------------------------------------------------------------
(* TypeOK is inductive: one lemma for each group of actions.               *)

LEMMA FailedTypes ==
  ASSUME NEW c \in ConditionTypes, obj \in Object
  PROVE  Failed(c) \in Object
BY DEF Failed, Object, Status, States

LEMMA ReconcileType ==
  ASSUME TypeOK, NEW r \in Requests, Reconcile(r)
  PROVE  TypeOK'
<1>1. cache[r] \in Object
  BY DEF TypeOK
<1>2. CASE ReconcileNothing(r)
  <2>1. GitTypeOK'
    BY <1>2, UnchangedGitType DEF ReconcileNothing, Take, TypeOK, GitTypeOK
  <2>2. StoreTypeOK'
    BY <1>2, UnchangedStoreType DEF ReconcileNothing, Take
  <2>3. WorkerTypeOK'
    BY <1>2 DEF ReconcileNothing, Take, TypeOK, WorkerTypeOK, workerVars
  <2> QED
    BY <2>1, <2>2, <2>3, AllTypes
<1>3. CASE ReconcileWaiting(r)
  <2>1. GitTypeOK'
    BY <1>3, UnchangedGitType DEF ReconcileWaiting, Take, TypeOK, GitTypeOK
  <2>2. StoreTypeOK'
    BY <1>3, UnchangedStoreType DEF ReconcileWaiting, Take
  <2>3. timers' \in [Requests -> Nat]
    BY <1>3, ScheduleType, DelayTypes DEF ReconcileWaiting, TypeOK
  <2>4. WorkerTypeOK'
    BY <1>3, <2>3 DEF ReconcileWaiting, Take, TypeOK, WorkerTypeOK, workerVars
  <2> QED
    BY <2>1, <2>2, <2>4, AllTypes
<1>4. CASE ReconcileDeletion(r)
  <2>1. [cache[r] EXCEPT !.finalizer = FALSE] \in Object
    BY <1>1 DEF Object
  <2> QED
    BY <1>4, <2>1, BeginType DEF ReconcileDeletion, Writes
<1>5. CASE ReconcileFinalizer(r)
  <2>1. [cache[r] EXCEPT !.finalizer = TRUE] \in Object
    BY <1>1 DEF Object
  <2> QED
    BY <1>5, <2>1, BeginType DEF ReconcileFinalizer, Writes
<1>6. CASE ReconcileNew(r)
  <2>1. [cache[r] EXCEPT !.status.state = "pending"] \in Object
    BY <1>1 DEF Object, Status, States
  <2> QED
    BY <1>6, <2>1, BeginType DEF ReconcileNew, Writes
<1>7. CASE ReconcileApproved(r)
  <2>1. [cache[r] EXCEPT !.status.started = TRUE] \in Object
    BY <1>1 DEF Object, Status
  <2> QED
    BY <1>7, <2>1, BeginType DEF ReconcileApproved, Writes
<1>8. CASE ReconcileGitCommitted(r)
  <2>1. [cache[r] EXCEPT !.status.state = "provisioning",
         !.status.conditions = @ \union {"ArgocdAppCreated"}] \in Object
    BY <1>1 DEF Object, Status, States, ConditionTypes
  <2> QED
    BY <1>8, <2>1, BeginType DEF ReconcileGitCommitted, Writes
<1>9. CASE ReconcileFailed(r)
  <2>1. [cache[r] EXCEPT !.status.state = "approved",
         !.status.retryCount = @ + 1] \in Object
    <3> DEFINE st == cache[r].status
    <3>1. st \in Status /\ st.retryCount + 1 \in Nat
      BY <1>1 DEF Object, Status
    <3>2. [st EXCEPT !.state = "approved", !.retryCount = st.retryCount + 1] \in Status
      BY <3>1 DEF Status, States
    <3> QED
      BY <1>1, <3>2 DEF Object
  <2> QED
    BY <1>9, <2>1, BeginType DEF ReconcileFailed, Writes
<1> QED
  BY <1>2, <1>3, <1>4, <1>5, <1>6, <1>7, <1>8, <1>9 DEF Reconcile

LEMMA WriteEndsType ==
  ASSUME TypeOK,
         WriteConflict \/ WriteFails \/ WriteAckLost
           \/ RequeueAfterWrite \/ BackOffAfterWrite \/ DeletionHandled
  PROVE  TypeOK'
<1>1. req \in Requests
  BY DEF TypeOK, Writes, WriteConflict, WriteFails, WriteAckLost,
         RequeueAfterWrite, BackOffAfterWrite, DeletionHandled, Write
<1>2. budget' \in [Events -> Nat]
  BY BudgetType DEF TypeOK, GitTypeOK, Events, WriteConflict, WriteFails, WriteAckLost,
         RequeueAfterWrite, BackOffAfterWrite, DeletionHandled, Write
<1>3. GitTypeOK'
  BY <1>2, UnchangedGitType DEF TypeOK, WriteConflict, WriteFails, WriteAckLost,
         RequeueAfterWrite, BackOffAfterWrite, DeletionHandled
<1>4. StoreTypeOK'
  BY <1>1, WriteType, UnchangedStoreType DEF WriteConflict, WriteFails, WriteAckLost,
         RequeueAfterWrite, BackOffAfterWrite, DeletionHandled, Write, cacheVars
<1>5. WorkerTypeOK'
  <2>1. CASE DeletionHandled
    <3>1. timers' \in [Requests -> Nat]
      BY <2>1 DEF DeletionHandled, ReturnDone, TypeOK
    <3> QED
      BY <2>1, <3>1, DoneType DEF DeletionHandled, ReturnDone, Write
  <2>2. CASE ~DeletionHandled
    BY <2>2, ReturnAfterType, DelayTypes DEF WriteConflict, WriteFails, WriteAckLost,
         RequeueAfterWrite, BackOffAfterWrite, Write
  <2> QED
    BY <2>1, <2>2
<1> QED
  BY <1>3, <1>4, <1>5, AllTypes

LEMMA HandleApprovedType ==
  ASSUME TypeOK,
         StartProcessing \/ EnsureNamespace \/ EnsureNamespaceFails
           \/ NamespaceReady \/ GitStep \/ GitReturns
  PROVE  TypeOK'
<1>1. req \in Requests /\ obj \in Object /\ ClusterOf[obj.spec] \in Clusters
  BY DEF TypeOK, StartProcessing, EnsureNamespace, EnsureNamespaceFails,
         NamespaceReady, GitStep, GitReturns, Write, Object
<1>2. Updated \in Object
  BY <1>1, UpdatedType
<1>3. [obj EXCEPT !.resourceVersion = Updated.resourceVersion] \in Object
  BY <1>1, <1>2 DEF Object
<1>4. Failed("NamespaceCreated") \in Object /\ Failed("GitCommitted") \in Object
  BY <1>1, FailedTypes DEF ConditionTypes
<1>5. CASE StartProcessing
  <2>1. GitTypeOK'
    BY <1>5, UnchangedGitType DEF StartProcessing, Write, TypeOK, GitTypeOK
  <2>2. StoreTypeOK'
    BY <1>1, <1>5, WriteType DEF StartProcessing, Write
  <2>3. WorkerTypeOK'
    BY <1>1, <1>3, <1>5, ContinueType DEF StartProcessing, Write
  <2> QED
    BY <2>1, <2>2, <2>3, AllTypes
<1>6. CASE EnsureNamespace
  <2>1. GitTypeOK'
    BY <1>6, UnchangedGitType DEF EnsureNamespace, TypeOK, GitTypeOK
  <2>2. StoreTypeOK'
    BY <1>1, <1>6 DEF EnsureNamespace, NamespaceEnsured, TypeOK, StoreTypeOK, cacheVars
  <2>3. [obj EXCEPT !.status.conditions = @ \union {"NamespaceCreated"}] \in Object
    BY <1>1 DEF Object, Status, ConditionTypes
  <2>4. WorkerTypeOK'
    BY <1>1, <1>4, <1>6, <2>3, ContinueType DEF EnsureNamespace, Writes
  <2> QED
    BY <2>1, <2>2, <2>4, AllTypes
<1>7. CASE EnsureNamespaceFails
  <2>1. budget' \in [Events -> Nat]
    BY <1>7, BudgetType DEF EnsureNamespaceFails, TypeOK, GitTypeOK, Events
  <2>2. GitTypeOK'
    BY <1>7, <2>1, UnchangedGitType DEF EnsureNamespaceFails, TypeOK
  <2>3. namespaces' \in SUBSET Clusters
    BY <1>1, <1>7 DEF EnsureNamespaceFails, NamespaceEnsured, TypeOK
  <2>4. StoreTypeOK'
    BY <1>7, <2>3 DEF EnsureNamespaceFails, TypeOK, StoreTypeOK, cacheVars
  <2>5. WorkerTypeOK'
    BY <1>1, <1>4, <1>7, ContinueType DEF EnsureNamespaceFails, Writes
  <2> QED
    BY <2>2, <2>4, <2>5, AllTypes
<1>8. CASE NamespaceReady
  <2> DEFINE o == [obj EXCEPT !.resourceVersion = Updated.resourceVersion]
  <2>1. budget' \in [Events -> Nat]
    BY <1>8 DEF NamespaceReady, Write, TypeOK, GitTypeOK
  <2>2. StoreTypeOK'
    BY <1>1, <1>8, WriteType DEF NamespaceReady, Write
  <2>3. CASE Render[o.spec] = NoFiles
    <3>1. [Failed("GitCommitted") EXCEPT !.resourceVersion = o.resourceVersion] \in Object
      BY <1>3, <1>4 DEF Object
    <3>2. WorkerTypeOK'
      BY <1>1, <1>8, <2>3, <3>1, ContinueType DEF NamespaceReady, Write, Writes
    <3>3. GitTypeOK'
      BY <1>8, <2>1, <2>3, UnchangedGitType
         DEF NamespaceReady, TypeOK, gitVars, remoteVars, cloneVars
    <3> QED
      BY <2>2, <3>2, <3>3, AllTypes
  <2>4. CASE Render[o.spec] # NoFiles
    <3>1. Render[o.spec] \in Contents /\ ClusterOf[o.spec] \in Clusters
      BY <1>3, <2>4 DEF Object
    <3>2. WorkerTypeOK'
      BY <1>1, <1>3, <1>8, <2>4, ContinueType DEF NamespaceReady, Write
    <3>3. GitTypeOK'
      BY <1>1, <1>8, <2>1, <2>4, <3>1, CommitClusterType DEF NamespaceReady, TypeOK
    <3> QED
      BY <2>2, <3>2, <3>3, AllTypes
  <2> QED
    BY <2>3, <2>4
<1>9. CASE GitStep
  <2>1. GitTypeOK'
    BY <1>9, CallStepType DEF GitStep, TypeOK
  <2>2. StoreTypeOK'
    BY <1>9, UnchangedStoreType DEF GitStep
  <2>3. WorkerTypeOK'
    BY <1>9, UnchangedWorkerType DEF GitStep
  <2> QED
    BY <2>1, <2>2, <2>3, AllTypes
<1>10. CASE GitReturns
  <2>1. GitTypeOK'
    BY <1>10, ReturnType DEF GitReturns, TypeOK
  <2>2. StoreTypeOK'
    BY <1>10, UnchangedStoreType DEF GitReturns
  <2>3. [WithState("git-committed") EXCEPT
           !.status.gitCommitSHA = call.commit,
           !.status.conditions = @ \union {"GitCommitted"}] \in Object
    <3>1. call.commit \in Commit \union {NoCommit}
      BY DEF TypeOK, GitTypeOK, Calls
    <3> QED
      BY <1>1, <3>1 DEF WithState, Object, Status, States, ConditionTypes
  <2>4. WorkerTypeOK'
    BY <1>1, <1>4, <1>10, <2>3, ContinueType DEF GitReturns, Writes
  <2> QED
    BY <2>1, <2>2, <2>4, AllTypes
<1> QED
  BY <1>5, <1>6, <1>7, <1>8, <1>9, <1>10

LEMMA WorkerStepType == ASSUME TypeOK, WorkerStep PROVE TypeOK'
BY WriteEndsType, HandleApprovedType DEF WorkerStep

LEMMA ProcessType ==
  ASSUME TypeOK,
         WatchNamespaces \/ Restart \/ \E r \in Requests : Watch(r) \/ TimerFires(r)
  PROVE  TypeOK'
<1>1. budget' \in [Events -> Nat]
  BY BudgetType DEF WatchNamespaces, Restart, Watch, TimerFires, TypeOK, GitTypeOK, Events
<1>2. CASE WatchNamespaces
  <2>1. GitTypeOK'
    BY <1>1, <1>2, UnchangedGitType DEF WatchNamespaces, TypeOK
  <2>2. StoreTypeOK' /\ WorkerTypeOK'
    BY <1>2 DEF WatchNamespaces, TypeOK, StoreTypeOK, WorkerTypeOK,
                storeVars, nsVars, workVars, workerVars
  <2> QED
    BY <2>1, <2>2, AllTypes
<1>3. CASE Restart
  <2>1. GitTypeOK'
    BY <1>1, <1>3, RecloneType DEF Restart, TypeOK
  <2>2. Absent(0) \in Object
    BY AbsentType
  <2>3. StoreTypeOK' /\ WorkerTypeOK'
    BY <1>3, <2>2, DelayTypes DEF Restart, TypeOK, StoreTypeOK, WorkerTypeOK, storeVars, nsVars, Done
  <2> QED
    BY <2>1, <2>3, AllTypes
<1>4. ASSUME NEW r \in Requests, Watch(r) PROVE TypeOK'
  <2>1. GitTypeOK'
    BY <1>1, <1>4, UnchangedGitType DEF Watch, TypeOK
  <2>2. StoreTypeOK' /\ WorkerTypeOK'
    BY <1>4 DEF Watch, TypeOK, StoreTypeOK, WorkerTypeOK, storeVars, nsVars, workerVars
  <2> QED
    BY <2>1, <2>2, AllTypes
<1>5. ASSUME NEW r \in Requests, TimerFires(r) PROVE TypeOK'
  <2>1. GitTypeOK'
    BY <1>1, <1>5, UnchangedGitType DEF TimerFires, TypeOK
  <2>2. StoreTypeOK' /\ WorkerTypeOK'
    BY <1>5, DelayTypes DEF TimerFires, TypeOK, StoreTypeOK, WorkerTypeOK,
                            storeVars, nsVars, cacheVars, workerVars
  <2> QED
    BY <2>1, <2>2, AllTypes
<1> QED
  BY <1>2, <1>3, <1>4, <1>5

LEMMA StoreType ==
  ASSUME TypeOK, NEW r \in Requests, NEW o \in Object, Store(r, o),
         budget' \in [Events -> Nat]
  PROVE  TypeOK'
<1>1. GitTypeOK'
  BY UnchangedGitType DEF Store, TypeOK
<1>2. Versioned(api[r], o) \in Object
  BY VersionedType DEF TypeOK
<1>3. StoreTypeOK'
  BY <1>2 DEF Store, TypeOK, StoreTypeOK, nsVars, cacheVars
<1>4. WorkerTypeOK'
  BY UnchangedWorkerType DEF Store
<1> QED
  BY <1>1, <1>3, <1>4, AllTypes

LEMMA RespecifiedType ==
  ASSUME NEW o \in Object, NEW s \in Specs
  PROVE  Respecified(o, s) \in Object
<1>1. o.named \union {ClusterOf[s]} \in SUBSET Clusters
  BY DEF Object
<1> QED
  BY <1>1 DEF Respecified, Object

LEMMA RespecifiedParts ==
  ASSUME NEW o \in Object, NEW s \in Specs
  PROVE  LET p == Respecified(o, s) IN
         /\ p.spec = s /\ p.named = o.named \union {ClusterOf[s]}
         /\ p.exists = o.exists /\ p.resourceVersion = o.resourceVersion
         /\ p.deleting = o.deleting /\ p.finalizer = o.finalizer /\ p.status = o.status
BY DEF Respecified, Object

LEMMA EnvironmentType == ASSUME TypeOK, Environment PROVE TypeOK'
<1>1. ASSUME NEW r \in Requests, NEW s \in Specs, Create(r, s) PROVE TypeOK'
  <2>1. Respecified(api[r], s) \in Object
    BY RespecifiedType DEF TypeOK
  <2>2. [Respecified(api[r], s) EXCEPT !.exists = TRUE] \in Object
    BY <2>1 DEF Object
  <2> QED
    BY <1>1, <2>2, StoreType, BudgetType DEF Create, Events
<1>2. ASSUME NEW r \in Requests, NEW s \in Specs, Edit(r, s) PROVE TypeOK'
  <2> DEFINE o == Respecified(api[r], s)
  <2>1. o \in Object
    BY RespecifiedType DEF TypeOK
  <2>2. [o EXCEPT !.resourceVersion = @ + 1] \in Object
    BY <2>1 DEF Object
  <2>3. GitTypeOK'
    BY <1>2, BudgetType, UnchangedGitType DEF Edit, TypeOK, Events
  <2>4. StoreTypeOK'
    BY <1>2, <2>2 DEF Edit, TypeOK, StoreTypeOK, nsVars, cacheVars
  <2>5. WorkerTypeOK'
    BY <1>2, UnchangedWorkerType DEF Edit
  <2> QED
    BY <2>3, <2>4, <2>5, AllTypes
<1>3. ASSUME NEW r \in Requests, Delete(r) PROVE TypeOK'
  <2>1. [api[r] EXCEPT !.deleting = TRUE] \in Object
    BY DEF TypeOK, Object
  <2> QED
    BY <1>3, <2>1, StoreType, BudgetType DEF Delete, Events
<1>4. ASSUME NEW r \in Requests, Approve(r) PROVE TypeOK'
  <2>1. [api[r] EXCEPT !.status.state = "approved"] \in Object
    BY DEF TypeOK, Object, Status, States
  <2>2. budget' \in [Events -> Nat]
    BY <1>4 DEF Approve, TypeOK, GitTypeOK
  <2> QED
    BY <1>4, <2>1, <2>2, StoreType DEF Approve
<1>5. ASSUME NEW r \in Requests, HiveReports(r) PROVE TypeOK'
  <2>1. [api[r] EXCEPT !.status.state = "complete"] \in Object
    BY DEF TypeOK, Object, Status, States
  <2>2. [api[r] EXCEPT !.status.state = "failed", !.status.error = TRUE] \in Object
    BY DEF TypeOK, Object, Status, States
  <2> QED
    BY <1>5, <2>1, <2>2, StoreType, BudgetType DEF HiveReports, Events
<1>6. CASE OthersPush /\ UNCHANGED <<storeVars, cacheVars, workVars, workerVars>>
  <2>1. GitTypeOK'
    BY <1>6, OthersPushType DEF TypeOK
  <2> QED
    BY <1>6, <2>1, UnchangedStoreType, UnchangedWorkerType, AllTypes
<1>7. ASSUME NEW c \in Clusters, DeleteNamespace(c) PROVE TypeOK'
  <2>1. GitTypeOK'
    BY <1>7, BudgetType, UnchangedGitType DEF DeleteNamespace, TypeOK, Events
  <2>2. StoreTypeOK'
    BY <1>7 DEF DeleteNamespace, TypeOK, StoreTypeOK, cacheVars
  <2>3. WorkerTypeOK'
    BY <1>7, UnchangedWorkerType DEF DeleteNamespace
  <2> QED
    BY <2>1, <2>2, <2>3, AllTypes
<1> QED
  BY <1>1, <1>2, <1>3, <1>4, <1>5, <1>6, <1>7 DEF Environment

LEMMA StutterType == ASSUME TypeOK, UNCHANGED vars PROVE TypeOK'
<1>1. GitTypeOK'
  BY UnchangedGitType DEF vars, TypeOK, GitTypeOK
<1>2. StoreTypeOK' /\ WorkerTypeOK'
  BY DEF vars, TypeOK, StoreTypeOK, WorkerTypeOK
<1> QED
  BY <1>1, <1>2, AllTypes

LEMMA InitType == ASSUME Init PROVE TypeOK
<1>1. GitTypeOK
  BY GitInitType DEF Init
<1>2. Absent(0) \in Object
  BY AbsentType
<1> QED
  BY <1>1, <1>2, DelayTypes DEF Init, Idle, TypeOK

LEMMA NextType == ASSUME TypeOK, [Next]_vars PROVE TypeOK'
BY ReconcileType, WorkerStepType, ProcessType, EnvironmentType, StutterType DEF Next

\* Every state of the controller is well typed, for any constants.
THEOREM TypeCorrect == Spec => []TypeOK
<1>1. Init => TypeOK
  BY InitType
<1>2. TypeOK /\ [Next]_vars => TypeOK'
  BY NextType
<1> QED
  BY <1>1, <1>2, PTL DEF Spec
=============================================================================
