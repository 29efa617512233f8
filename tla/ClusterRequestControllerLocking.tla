---------------------- MODULE ClusterRequestControllerLocking ----------------------
(***************************************************************************)
(* Optimistic locking, proved: what the reconciler decides from a stale    *)
(* copy is written only while the stored object is the one it decided on.  *)
(* Hence an approval is never lost, and no request is forgotten.           *)
(***************************************************************************)
EXTENDS ClusterRequestControllerProofs

USE ControllerAssumption

---------------------------------------------------------------------------
(* Optimistic locking.  A copy with the current resourceVersion is the     *)
(* current object; hence, when the API server takes a write, the object    *)
(* is still what the reconciler decided upon.                              *)

Approving == {"Started", "EnsureNamespace", "NamespaceReady", "CommitCluster",
              "GitCommitted", "ErrorState"}

\* A finalizer holds the object of every deletion in progress.
DeletionsHeld == \A r \in Requests : api[r].deleting => api[r].exists /\ api[r].finalizer

CacheLocked ==
  \A r \in Requests :
    /\ cache[r].resourceVersion <= api[r].resourceVersion
    /\ cache[r].resourceVersion = api[r].resourceVersion => cache[r] = api[r]

\* What the reconciler relies on when it calls step for the stored object a.
Decided(step, a) ==
  /\ a.exists
  /\ step = "AddFinalizer" => ~a.deleting /\ ~a.finalizer
  /\ step = "RemoveFinalizer" => a.deleting
  /\ step \notin {"AddFinalizer", "RemoveFinalizer"} => ~a.deleting /\ a.finalizer
  /\ step = "InitState" => a.status.state = ""
  /\ step = "Retry" => a.status.state = "failed" /\ a.status.retryCount < MaxRetries
  /\ step = "ArgoCD" => a.status.state = "git-committed"
  /\ step \in Approving => a.status.state = "approved"

\* What it wants to write, compared to the stored object.
Wanted(step, o, a) ==
  /\ o.spec = a.spec /\ o.named = a.named
  /\ o.status.retryCount = IF step = "Retry" THEN a.status.retryCount + 1
                                             ELSE a.status.retryCount
  /\ step # "GitCommitted" => o.status.gitCommitSHA = a.status.gitCommitSHA

\* The state and the finalizer it wants to write, whatever is stored by now.
Proposed(step, o) ==
  /\ step = "AddFinalizer" => o.finalizer
  /\ step = "RemoveFinalizer" => ~o.finalizer
  /\ step = "InitState" => o.status.state = "pending"
  /\ step = "Retry" => o.status.state = "approved"
  /\ step = "ArgoCD" => o.status.state = "provisioning"
  /\ step = "GitCommitted" => o.status.state = "git-committed"
  /\ step = "ErrorState" => o.status.state = "failed"
  /\ step \in {"Started", "EnsureNamespace", "NamespaceReady", "CommitCluster"} =>
       o.status.state = "approved"

WorkLocked ==
  pc # "idle" =>
    /\ obj.resourceVersion <= api[req].resourceVersion
    /\ obj.resourceVersion = api[req].resourceVersion =>
         Decided(pc, api[req]) /\ Wanted(pc, obj, api[req])
    /\ Proposed(pc, obj)

Locking == DeletionsHeld /\ CacheLocked /\ WorkLocked
---------------------------------------------------------------------------
(* What the API server stores.                                             *)

LEMMA VersionedStep ==
  ASSUME NEW old \in Object, NEW new \in Object, new.resourceVersion = old.resourceVersion
  PROVE  LET v == Versioned(old, new) IN
         /\ v = old \/ v.resourceVersion = old.resourceVersion + 1
         /\ v = old \/ (v.deleting => v.exists = new.exists /\ v.finalizer)
<1>1. old.resourceVersion \in Nat
  BY DEF Object
<1> QED
  BY <1>1 DEF Versioned, Absent, Object

\* A write of the status at the current version stores the status that the
\* reconciler proposes, for the object that it decided on.
LEMMA StatusWritten ==
  ASSUME TypeOK, Locking, pc \in Writes \ {"AddFinalizer", "RemoveFinalizer"}, Current
  PROVE  /\ Decided(pc, api[req]) /\ Wanted(pc, obj, api[req])
         /\ Updated.exists /\ ~Updated.deleting /\ Updated.finalizer
         /\ Updated.spec = api[req].spec /\ Updated.named = api[req].named
         /\ Updated.status = obj.status
         /\ Updated = api[req] \/ Updated.resourceVersion = api[req].resourceVersion + 1
<1>1. req \in Requests /\ api[req] \in Object /\ obj \in Object
  BY DEF TypeOK, Writes
<1>2. Decided(pc, api[req]) /\ Wanted(pc, obj, api[req])
  BY <1>1 DEF Locking, WorkLocked, Current, Writes
<1>3. api[req].exists /\ ~api[req].deleting /\ api[req].finalizer
  BY <1>2 DEF Decided
<1> DEFINE new == [api[req] EXCEPT !.status = obj.status]
<1>4. /\ new.exists /\ ~new.deleting /\ new.finalizer
      /\ new.spec = api[req].spec /\ new.named = api[req].named /\ new.status = obj.status
  BY <1>1, <1>3 DEF Object
<1>5. Updated = Versioned(api[req], new)
  BY DEF Updated
<1>6. CASE new = api[req]
  BY <1>2, <1>4, <1>5, <1>6 DEF Versioned
<1>7. CASE new # api[req]
  <2>1. Updated = [new EXCEPT !.resourceVersion = api[req].resourceVersion + 1]
    BY <1>4, <1>5, <1>7 DEF Versioned
  <2>2. new \in Object
    BY <1>1 DEF Object
  <2> QED
    BY <1>2, <1>4, <2>1, <2>2 DEF Object
<1> QED
  BY <1>6, <1>7

\* Adding the finalizer leaves the status alone; removing it lets the object go.
LEMMA FinalizerWritten ==
  ASSUME TypeOK, Locking, pc \in {"AddFinalizer", "RemoveFinalizer"}, Current
  PROVE  /\ Decided(pc, api[req])
         /\ Updated = api[req] \/ Updated.resourceVersion = api[req].resourceVersion + 1
         /\ ~Updated.deleting
         /\ pc = "AddFinalizer" => /\ Updated.exists /\ Updated.finalizer
                                   /\ Updated.status = api[req].status
                                   /\ Updated.spec = api[req].spec
                                   /\ Updated.named = api[req].named
         /\ pc = "RemoveFinalizer" => Updated = Absent(api[req].resourceVersion + 1)
<1>1. req \in Requests /\ api[req] \in Object /\ obj \in Object
  BY DEF TypeOK
<1>2. Decided(pc, api[req]) /\ Proposed(pc, obj)
  BY <1>1 DEF Locking, WorkLocked, Current
<1> DEFINE new == [api[req] EXCEPT !.finalizer = obj.finalizer]
<1>3. Updated = Versioned(api[req], new)
  BY DEF Updated
<1>4. new \in Object
  BY <1>1 DEF Object
<1>5. CASE pc = "AddFinalizer"
  <2>1. ~api[req].deleting /\ ~api[req].finalizer /\ obj.finalizer /\ api[req].exists
    BY <1>2, <1>5 DEF Decided, Proposed
  <2>2. /\ new # api[req] /\ new.exists /\ ~new.deleting /\ new.finalizer
        /\ new.status = api[req].status
        /\ new.spec = api[req].spec /\ new.named = api[req].named
    BY <1>1, <2>1 DEF Object
  <2>3. Updated = [new EXCEPT !.resourceVersion = api[req].resourceVersion + 1]
    BY <1>3, <2>2 DEF Versioned
  <2> QED
    BY <1>2, <1>4, <1>5, <2>2, <2>3 DEF Object
<1>6. CASE pc = "RemoveFinalizer"
  <2>1. api[req].deleting /\ api[req].finalizer /\ ~obj.finalizer
    BY <1>1, <1>2, <1>6 DEF Decided, Proposed, Locking, DeletionsHeld
  <2>2. new # api[req] /\ new.deleting /\ ~new.finalizer
    BY <1>1, <2>1 DEF Object
  <2>3. Updated = Absent(api[req].resourceVersion + 1)
    BY <1>3, <2>2 DEF Versioned
  <2> QED
    BY <1>2, <1>6, <2>3 DEF Absent
<1> QED
  BY <1>5, <1>6

---------------------------------------------------------------------------
(* Locking is inductive.                                                   *)

\* The stored object is unchanged or has the next version.
LEMMA StoreLocks ==
  ASSUME TypeOK, Locking, NEW r \in Requests, NEW o \in Object,
         api' = [api EXCEPT ![r] = o], UNCHANGED cache,
         o = api[r] \/ o.resourceVersion = api[r].resourceVersion + 1,
         o = api[r] \/ (o.deleting => o.exists /\ o.finalizer)
  PROVE  /\ DeletionsHeld' /\ CacheLocked'
         /\ UNCHANGED workerVars => WorkLocked'
<1>1. api \in [Requests -> Object] /\ cache \in [Requests -> Object]
  BY DEF TypeOK
<1>2. \A q \in Requests : api[q].resourceVersion \in Nat /\ cache[q].resourceVersion \in Nat
  BY <1>1 DEF Object
<1>3. \A q \in Requests : api'[q] = IF q = r THEN o ELSE api[q]
  BY <1>1
<1>4. DeletionsHeld'
  BY <1>3 DEF Locking, DeletionsHeld
<1>5. CacheLocked'
  <2> SUFFICES ASSUME NEW q \in Requests
               PROVE  /\ cache[q].resourceVersion <= api'[q].resourceVersion
                      /\ cache[q].resourceVersion = api'[q].resourceVersion => cache[q] = api'[q]
    BY DEF CacheLocked
  <2> QED
    BY <1>2, <1>3 DEF Locking, CacheLocked
<1>6. ASSUME UNCHANGED workerVars PROVE WorkLocked'
  <2> SUFFICES ASSUME pc # "idle"
               PROVE  /\ obj.resourceVersion <= api'[req].resourceVersion
                      /\ obj.resourceVersion = api'[req].resourceVersion =>
                           Decided(pc, api'[req]) /\ Wanted(pc, obj, api'[req])
                      /\ Proposed(pc, obj)
    BY <1>6 DEF WorkLocked, workerVars
  <2>1. req \in Requests /\ obj.resourceVersion \in Nat
    BY DEF TypeOK, Object
  <2>2. /\ obj.resourceVersion <= api[req].resourceVersion
        /\ obj.resourceVersion = api[req].resourceVersion =>
             Decided(pc, api[req]) /\ Wanted(pc, obj, api[req])
        /\ Proposed(pc, obj)
    BY DEF Locking, WorkLocked
  <2>3. CASE api'[req] = api[req]
    BY <2>2, <2>3
  <2>4. CASE api'[req] # api[req]
    <3>1. api'[req].resourceVersion = api[req].resourceVersion + 1
      BY <1>3, <2>1, <2>4
    <3> QED
      BY <1>2, <2>1, <2>2, <3>1
  <2> QED
    BY <2>3, <2>4
<1> QED
  BY <1>4, <1>5, <1>6

LEMMA DoneLocks == ASSUME DeletionsHeld', CacheLocked', Done PROVE Locking'
BY DEF Locking, WorkLocked, Done

\* A reconciliation starts from the cached object.
LEMMA BeginLocks ==
  ASSUME TypeOK, Locking, NEW r \in Requests, NEW step, NEW o,
         Take(r), Begin(r, step, o),
         o.resourceVersion = cache[r].resourceVersion,
         Proposed(step, o), Decided(step, cache[r]), Wanted(step, o, cache[r])
  PROVE  Locking'
<1>1. DeletionsHeld' /\ CacheLocked'
  BY DEF Take, storeVars, cacheVars, Locking, DeletionsHeld, CacheLocked
<1>2. WorkLocked'
  <2>1. o.resourceVersion <= api[r].resourceVersion
    BY DEF Locking, CacheLocked
  <2>2. o.resourceVersion = api[r].resourceVersion => cache[r] = api[r]
    BY DEF Locking, CacheLocked
  <2> QED
    BY <2>1, <2>2 DEF Take, storeVars, Begin, WorkLocked
<1> QED
  BY <1>1, <1>2 DEF Locking

\* A reconciliation goes on with a copy of the same version.
LEMMA ContinueLocks ==
  ASSUME TypeOK, Locking, pc # "idle", NEW step, NEW o,
         Continue(step, o), UNCHANGED <<api, cache>>,
         o.resourceVersion = obj.resourceVersion, Proposed(step, o),
         Decided(pc, api[req]) /\ Wanted(pc, obj, api[req]) =>
           Decided(step, api[req]) /\ Wanted(step, o, api[req])
  PROVE  Locking'
<1>1. DeletionsHeld' /\ CacheLocked'
  BY DEF Locking, DeletionsHeld, CacheLocked
<1>2. WorkLocked'
  BY DEF Locking, WorkLocked, Continue
<1> QED
  BY <1>1, <1>2 DEF Locking

LEMMA ReconcileLocks ==
  ASSUME TypeOK, Locking, NEW r \in Requests, Reconcile(r)
  PROVE  Locking'
<1>1. cache[r] \in Object
  BY DEF TypeOK
<1>2. CASE ReconcileNothing(r) \/ ReconcileWaiting(r)
  BY <1>2 DEF ReconcileNothing, ReconcileWaiting, Take, storeVars, cacheVars, workerVars,
              Locking, DeletionsHeld, CacheLocked, WorkLocked
<1>3. CASE ReconcileDeletion(r)
  <2> DEFINE o == [cache[r] EXCEPT !.finalizer = FALSE]
  <2>1. /\ Proposed("RemoveFinalizer", o) /\ Decided("RemoveFinalizer", cache[r])
        /\ Wanted("RemoveFinalizer", o, cache[r])
        /\ o.resourceVersion = cache[r].resourceVersion
    BY <1>1, <1>3 DEF ReconcileDeletion, Proposed, Decided, Wanted, Object, Approving
  <2> QED
    BY <1>3, <2>1, BeginLocks DEF ReconcileDeletion
<1>4. CASE ReconcileFinalizer(r)
  <2> DEFINE o == [cache[r] EXCEPT !.finalizer = TRUE]
  <2>1. /\ Proposed("AddFinalizer", o) /\ Decided("AddFinalizer", cache[r])
        /\ Wanted("AddFinalizer", o, cache[r])
        /\ o.resourceVersion = cache[r].resourceVersion
    BY <1>1, <1>4 DEF ReconcileFinalizer, Proposed, Decided, Wanted, Object, Approving
  <2> QED
    BY <1>4, <2>1, BeginLocks DEF ReconcileFinalizer
<1>5. CASE ReconcileNew(r)
  <2> DEFINE o == [cache[r] EXCEPT !.status.state = "pending"]
  <2>1. /\ Proposed("InitState", o) /\ Decided("InitState", cache[r])
        /\ Wanted("InitState", o, cache[r])
        /\ o.resourceVersion = cache[r].resourceVersion
    BY <1>1, <1>5 DEF ReconcileNew, Live, Proposed, Decided, Wanted, Object, Status, Approving
  <2> QED
    BY <1>5, <2>1, BeginLocks DEF ReconcileNew
<1>6. CASE ReconcileApproved(r)
  <2> DEFINE o == [cache[r] EXCEPT !.status.started = TRUE]
             step == IF cache[r].status.started THEN "EnsureNamespace" ELSE "Started"
  <2>1. /\ Proposed(step, o) /\ Decided(step, cache[r]) /\ Wanted(step, o, cache[r])
        /\ o.resourceVersion = cache[r].resourceVersion
    BY <1>1, <1>6 DEF ReconcileApproved, Live, Proposed, Decided, Wanted, Object, Status, Approving
  <2> QED
    BY <1>6, <2>1, BeginLocks DEF ReconcileApproved
<1>7. CASE ReconcileGitCommitted(r)
  <2> DEFINE o == [cache[r] EXCEPT !.status.state = "provisioning",
                    !.status.conditions = @ \union {"ArgocdAppCreated"}]
  <2>1. /\ Proposed("ArgoCD", o) /\ Decided("ArgoCD", cache[r]) /\ Wanted("ArgoCD", o, cache[r])
        /\ o.resourceVersion = cache[r].resourceVersion
    BY <1>1, <1>7 DEF ReconcileGitCommitted, Live, Proposed, Decided, Wanted, Object, Status, Approving
  <2> QED
    BY <1>7, <2>1, BeginLocks DEF ReconcileGitCommitted
<1>8. CASE ReconcileFailed(r)
  <2> DEFINE o == [cache[r] EXCEPT !.status.state = "approved", !.status.retryCount = @ + 1]
  <2>1. /\ Proposed("Retry", o) /\ Decided("Retry", cache[r]) /\ Wanted("Retry", o, cache[r])
        /\ o.resourceVersion = cache[r].resourceVersion
    BY <1>1, <1>8 DEF ReconcileFailed, Live, Proposed, Decided, Wanted, Object, Status, Approving
  <2> QED
    BY <1>8, <2>1, BeginLocks DEF ReconcileFailed
<1> QED
  BY <1>2, <1>3, <1>4, <1>5, <1>6, <1>7, <1>8 DEF Reconcile

\* Whatever is written, the store and the cache stay locked.
LEMMA WriteLocks ==
  ASSUME TypeOK, Locking, pc \in Writes, Current,
         api' = [api EXCEPT ![req] = Updated], UNCHANGED cache
  PROVE  DeletionsHeld' /\ CacheLocked'
<1>1. req \in Requests /\ Updated \in Object
  BY UpdatedType DEF TypeOK, Writes
<1>2. /\ Updated = api[req] \/ Updated.resourceVersion = api[req].resourceVersion + 1
      /\ ~Updated.deleting
  BY StatusWritten, FinalizerWritten
<1> QED
  BY <1>1, <1>2, StoreLocks

LEMMA WriteEndsLocks ==
  ASSUME TypeOK, Locking,
         WriteConflict \/ WriteFails \/ WriteAckLost
           \/ RequeueAfterWrite \/ BackOffAfterWrite \/ DeletionHandled
  PROVE  Locking'
<1>1. Done
  BY DEF WriteConflict, WriteFails, WriteAckLost, RequeueAfterWrite, BackOffAfterWrite,
         DeletionHandled, ReturnAfter, ReturnDone
<1>2. CASE WriteConflict \/ WriteFails
  <2>1. DeletionsHeld' /\ CacheLocked'
    BY <1>2 DEF WriteConflict, WriteFails, storeVars, cacheVars,
                Locking, DeletionsHeld, CacheLocked
  <2> QED
    BY <1>1, <2>1, DoneLocks
<1>3. CASE WriteAckLost \/ RequeueAfterWrite \/ BackOffAfterWrite \/ DeletionHandled
  <2>1. /\ pc \in Writes /\ Current /\ UNCHANGED cache
        /\ api' = [api EXCEPT ![req] = Updated]
    BY <1>3 DEF WriteAckLost, RequeueAfterWrite, BackOffAfterWrite, DeletionHandled,
                Write, Writes, cacheVars
  <2>2. DeletionsHeld' /\ CacheLocked'
    BY <2>1, WriteLocks
  <2> QED
    BY <1>1, <2>2, DoneLocks
<1> QED
  BY <1>2, <1>3

\* Between two writes of handleApproved the reconciler only changes its copy.
LEMMA HandleApprovedLocks ==
  ASSUME TypeOK, Locking,
         StartProcessing \/ EnsureNamespace \/ EnsureNamespaceFails
           \/ NamespaceReady \/ GitStep \/ GitReturns
  PROVE  Locking'
<1>1. req \in Requests /\ obj \in Object /\ api[req] \in Object /\ api \in [Requests -> Object]
  BY DEF TypeOK, StartProcessing, EnsureNamespace, EnsureNamespaceFails,
         NamespaceReady, GitStep, GitReturns, Write
<1>2. ASSUME NEW condition PROVE
        LET o == Failed(condition) IN
        /\ o.resourceVersion = obj.resourceVersion /\ Proposed("ErrorState", o)
        /\ o.spec = obj.spec /\ o.named = obj.named
        /\ o.status.retryCount = obj.status.retryCount
        /\ o.status.gitCommitSHA = obj.status.gitCommitSHA
  BY <1>1 DEF Failed, Proposed, Object, Status
<1>3. CASE StartProcessing \/ NamespaceReady
  <2> DEFINE o == [obj EXCEPT !.resourceVersion = Updated.resourceVersion]
             f == [Failed("GitCommitted") EXCEPT !.resourceVersion = o.resourceVersion]
  <2>1. /\ pc \in {"Started", "NamespaceReady"} /\ pc \in Writes /\ Current /\ UNCHANGED cache
        /\ api' = [api EXCEPT ![req] = Updated]
    BY <1>3 DEF StartProcessing, NamespaceReady, Write, Writes, cacheVars
  <2>2. DeletionsHeld' /\ CacheLocked'
    BY <2>1, WriteLocks
  <2>3. /\ Decided(pc, api[req]) /\ Wanted(pc, obj, api[req])
        /\ Updated.exists /\ ~Updated.deleting /\ Updated.finalizer
        /\ Updated.spec = api[req].spec /\ Updated.named = api[req].named
        /\ Updated.status = obj.status
    BY <2>1, StatusWritten
  <2>4. Proposed(pc, obj)
    BY <2>1 DEF Locking, WorkLocked, Writes
  <2>5. api'[req] = Updated /\ Updated \in Object
    BY <1>1, <2>1, UpdatedType
  <2>6. /\ o.resourceVersion = Updated.resourceVersion
        /\ o.spec = obj.spec /\ o.named = obj.named /\ o.status = obj.status
        /\ o.status.state = "approved"
    BY <1>1, <2>1, <2>4 DEF Object, Proposed
  <2>7. /\ f.resourceVersion = Updated.resourceVersion
        /\ f.spec = obj.spec /\ f.named = obj.named
        /\ f.status.retryCount = obj.status.retryCount
        /\ f.status.gitCommitSHA = obj.status.gitCommitSHA
        /\ f.status.state = "failed"
    BY <1>1, <1>2, <2>6 DEF Failed, Object, Status
  <2>8. ASSUME NEW step \in {"EnsureNamespace", "CommitCluster"}
        PROVE  Decided(step, Updated) /\ Wanted(step, o, Updated) /\ Proposed(step, o)
    BY <2>1, <2>3, <2>6 DEF Decided, Wanted, Proposed, Approving
  <2>9. Decided("ErrorState", Updated) /\ Wanted("ErrorState", f, Updated) /\ Proposed("ErrorState", f)
    BY <2>1, <2>3, <2>6, <2>7 DEF Decided, Wanted, Proposed, Approving
  <2>10. Updated.resourceVersion <= Updated.resourceVersion
    BY <2>5 DEF Object
  <2>11. \/ pc' \in {"EnsureNamespace", "CommitCluster"} /\ obj' = o /\ req' = req
         \/ pc' = "ErrorState" /\ obj' = f /\ req' = req
    BY <1>3 DEF StartProcessing, NamespaceReady, Continue
  <2>12. WorkLocked'
    BY <2>5, <2>6, <2>7, <2>8, <2>9, <2>10, <2>11 DEF WorkLocked
  <2> QED
    BY <2>2, <2>12 DEF Locking
<1>4. CASE EnsureNamespace \/ EnsureNamespaceFails
  <2> DEFINE o == [obj EXCEPT !.status.conditions = @ \union {"NamespaceCreated"}]
  <2>1. /\ pc = "EnsureNamespace" /\ UNCHANGED <<api, cache>>
        /\ \/ Continue("ErrorState", Failed("NamespaceCreated"))
           \/ Continue("NamespaceReady", o)
    BY <1>4 DEF EnsureNamespace, EnsureNamespaceFails, cacheVars
  <2>2. Proposed(pc, obj)
    BY <2>1 DEF Locking, WorkLocked
  <2>3. /\ o.resourceVersion = obj.resourceVersion /\ Proposed("NamespaceReady", o)
        /\ o.spec = obj.spec /\ o.named = obj.named
        /\ o.status.retryCount = obj.status.retryCount
        /\ o.status.gitCommitSHA = obj.status.gitCommitSHA
    BY <1>1, <2>1, <2>2 DEF Proposed, Object, Status
  <2>4. CASE Continue("ErrorState", Failed("NamespaceCreated"))
    BY <1>2, <2>1, <2>4, ContinueLocks DEF Decided, Wanted, Approving
  <2>5. CASE Continue("NamespaceReady", o)
    BY <2>1, <2>3, <2>5, ContinueLocks DEF Decided, Wanted, Approving
  <2> QED
    BY <2>1, <2>4, <2>5
<1>5. CASE GitStep
  BY <1>5 DEF GitStep, storeVars, cacheVars, workerVars,
              Locking, DeletionsHeld, CacheLocked, WorkLocked
<1>6. CASE GitReturns
  <2> DEFINE o == [WithState("git-committed") EXCEPT
                     !.status.gitCommitSHA = call.commit,
                     !.status.conditions = @ \union {"GitCommitted"}]
  <2>1. /\ pc = "CommitCluster" /\ UNCHANGED <<api, cache>>
        /\ \/ Continue("ErrorState", Failed("GitCommitted"))
           \/ Continue("GitCommitted", o)
    BY <1>6 DEF GitReturns, storeVars, cacheVars
  <2>2. /\ o.resourceVersion = obj.resourceVersion /\ Proposed("GitCommitted", o)
        /\ o.spec = obj.spec /\ o.named = obj.named
        /\ o.status.retryCount = obj.status.retryCount
    BY <1>1 DEF WithState, Proposed, Object, Status
  <2>3. CASE Continue("ErrorState", Failed("GitCommitted"))
    BY <1>2, <2>1, <2>3, ContinueLocks DEF Decided, Wanted, Approving
  <2>4. CASE Continue("GitCommitted", o)
    BY <2>1, <2>2, <2>4, ContinueLocks DEF Decided, Wanted, Approving
  <2> QED
    BY <2>1, <2>3, <2>4
<1> QED
  BY <1>3, <1>4, <1>5, <1>6

LEMMA ProcessLocks ==
  ASSUME TypeOK, Locking,
         WatchNamespaces \/ Restart \/ \E r \in Requests : Watch(r) \/ TimerFires(r)
  PROVE  Locking'
<1>1. api \in [Requests -> Object] /\ cache \in [Requests -> Object]
  BY DEF TypeOK
<1>2. \A r \in Requests : api[r].resourceVersion <= api[r].resourceVersion
  BY <1>1 DEF Object
<1>3. CASE WatchNamespaces \/ \E r \in Requests : TimerFires(r)
  BY <1>3 DEF WatchNamespaces, TimerFires, storeVars, cacheVars, workerVars,
              Locking, DeletionsHeld, CacheLocked, WorkLocked
<1>4. CASE Restart
  <2>1. DeletionsHeld' /\ CacheLocked'
    BY <1>2, <1>4 DEF Restart, storeVars, Locking, DeletionsHeld, CacheLocked
  <2> QED
    BY <1>4, <2>1, DoneLocks DEF Restart
<1>5. ASSUME NEW r \in Requests, Watch(r) PROVE Locking'
  <2>1. /\ api' = api /\ UNCHANGED <<pc, req, obj>>
        /\ \A q \in Requests : cache'[q] = IF q = r THEN api[q] ELSE cache[q]
    BY <1>1, <1>5 DEF Watch, storeVars, workerVars
  <2>2. CacheLocked'
    BY <1>2, <2>1 DEF Locking, CacheLocked
  <2>3. DeletionsHeld' /\ WorkLocked'
    BY <2>1 DEF Locking, DeletionsHeld, WorkLocked
  <2> QED
    BY <2>2, <2>3 DEF Locking
<1> QED
  BY <1>3, <1>4, <1>5

\* Users, Buffalo and Hive store one object with the next version, if they
\* change anything, and an object that goes away is not being deleted any more.
LEMMA EnvironmentStores ==
  ASSUME TypeOK, Locking, Environment
  PROVE  /\ UNCHANGED <<cacheVars, workVars, workerVars>>
         /\ \/ UNCHANGED api
            \/ \E r \in Requests, o \in Object :
                 /\ api' = [api EXCEPT ![r] = o]
                 /\ o = api[r] \/ o.resourceVersion = api[r].resourceVersion + 1
                 /\ o = api[r] \/ (o.deleting => o.exists /\ o.finalizer)
<1> DEFINE P == /\ UNCHANGED <<cacheVars, workVars, workerVars>>
                /\ \E r \in Requests, o \in Object :
                     /\ api' = [api EXCEPT ![r] = o]
                     /\ o = api[r] \/ o.resourceVersion = api[r].resourceVersion + 1
                     /\ o = api[r] \/ (o.deleting => o.exists /\ o.finalizer)
<1>1. \A r \in Requests : api[r] \in Object /\ api[r].resourceVersion + 1 \in Nat
  BY DEF TypeOK, Object
<1>2. ASSUME NEW r \in Requests, NEW o \in Object, Store(r, o),
             o.resourceVersion = api[r].resourceVersion, o.deleting => o.exists
      PROVE  P
  <2>1. Versioned(api[r], o) \in Object
    BY <1>1, VersionedType
  <2>2. /\ \/ Versioned(api[r], o) = api[r]
           \/ Versioned(api[r], o).resourceVersion = api[r].resourceVersion + 1
        /\ \/ Versioned(api[r], o) = api[r]
           \/ Versioned(api[r], o).deleting =>
                Versioned(api[r], o).exists /\ Versioned(api[r], o).finalizer
    BY <1>1, <1>2 DEF Versioned, Absent, Object
  <2>3. api' = [api EXCEPT ![r] = Versioned(api[r], o)]
    BY <1>2 DEF Store
  <2>4. UNCHANGED <<cacheVars, workVars, workerVars>>
    BY <1>2 DEF Store
  <2> QED
    BY <2>1, <2>2, <2>3, <2>4
<1>3. ASSUME NEW r \in Requests, NEW s \in Specs, Create(r, s) PROVE P
  <2> DEFINE p == Respecified(api[r], s)
             o == [p EXCEPT !.exists = TRUE]
  <2>1. p \in Object /\ p.resourceVersion = api[r].resourceVersion
    BY <1>1, RespecifiedType, RespecifiedParts
  <2>2. o \in Object /\ o.resourceVersion = api[r].resourceVersion /\ o.exists
    <3> HIDE DEF p
    <3> QED
      BY <2>1 DEF Object
  <2>3. Store(r, o)
    BY <1>3 DEF Create
  <2> QED
    BY <1>2, <2>2, <2>3
<1>4. ASSUME NEW r \in Requests, NEW s \in Specs, Edit(r, s) PROVE P
  <2> DEFINE p == Respecified(api[r], s)
             o == [p EXCEPT !.resourceVersion = @ + 1]
  <2> p \in Object /\ api[r].resourceVersion + 1 \in Nat
    BY <1>1, RespecifiedType
  <2>1. /\ o \in Object /\ o.resourceVersion = api[r].resourceVersion + 1
        /\ o.deleting = api[r].deleting /\ o.exists = api[r].exists
        /\ o.finalizer = api[r].finalizer
    <3> api[r] \in Object
      BY <1>1
    <3>1. /\ p.resourceVersion = api[r].resourceVersion /\ p.deleting = api[r].deleting
          /\ p.exists = api[r].exists /\ p.finalizer = api[r].finalizer
      BY RespecifiedParts
    <3> HIDE DEF p
    <3> QED
      BY <3>1 DEF Object
  <2>2. api' = [api EXCEPT ![r] = o] /\ UNCHANGED <<cacheVars, workVars, workerVars>>
    BY <1>4 DEF Edit
  <2>3. o.deleting => o.exists /\ o.finalizer
    BY <2>1 DEF Locking, DeletionsHeld
  <2> QED
    BY <2>1, <2>2, <2>3
<1>5. ASSUME NEW r \in Requests, Delete(r) PROVE P
  <2>1. [api[r] EXCEPT !.deleting = TRUE] \in Object
    BY <1>1 DEF Object
  <2> QED
    BY <1>1, <1>2, <1>5, <2>1 DEF Delete, Object
<1>6. ASSUME NEW r \in Requests, Approve(r) PROVE P
  <2>1. [api[r] EXCEPT !.status.state = "approved"] \in Object
    BY DEF TypeOK, Object, Status, States
  <2> QED
    BY <1>1, <1>2, <1>6, <2>1 DEF Approve, Object, Locking, DeletionsHeld
<1>7. ASSUME NEW r \in Requests, HiveReports(r) PROVE P
  <2>1. /\ [api[r] EXCEPT !.status.state = "complete"] \in Object
        /\ [api[r] EXCEPT !.status.state = "failed", !.status.error = TRUE] \in Object
    BY DEF TypeOK, Object, Status, States
  <2> QED
    BY <1>1, <1>2, <1>7, <2>1 DEF HiveReports, Object, Locking, DeletionsHeld
<1>8. CASE OthersPush /\ UNCHANGED <<storeVars, cacheVars, workVars, workerVars>>
  BY <1>8 DEF storeVars
<1>9. ASSUME NEW c \in Clusters, DeleteNamespace(c)
      PROVE  UNCHANGED <<api, cacheVars, workVars, workerVars>>
  BY <1>9 DEF DeleteNamespace
<1> QED
  BY <1>3, <1>4, <1>5, <1>6, <1>7, <1>8, <1>9 DEF Environment

LEMMA EnvironmentLocks == ASSUME TypeOK, Locking, Environment PROVE Locking'
<1>1. UNCHANGED <<cacheVars, workVars, workerVars>>
  BY EnvironmentStores
<1>2. CASE UNCHANGED api
  BY <1>1, <1>2 DEF cacheVars, workerVars, Locking, DeletionsHeld, CacheLocked, WorkLocked
<1>3. CASE \E r \in Requests, o \in Object :
             /\ api' = [api EXCEPT ![r] = o]
             /\ o = api[r] \/ o.resourceVersion = api[r].resourceVersion + 1
             /\ o = api[r] \/ (o.deleting => o.exists /\ o.finalizer)
  BY <1>1, <1>3, StoreLocks DEF cacheVars, Locking
<1> QED
  BY <1>2, <1>3, EnvironmentStores

LEMMA NextLocks == ASSUME TypeOK, Locking, [Next]_vars PROVE Locking'
<1>1. CASE UNCHANGED vars
  BY <1>1 DEF vars, Locking, DeletionsHeld, CacheLocked, WorkLocked
<1>2. CASE Next
  BY <1>2, ReconcileLocks, WriteEndsLocks, HandleApprovedLocks, ProcessLocks, EnvironmentLocks
     DEF Next, WorkerStep
<1> QED
  BY <1>1, <1>2

LEMMA InitLocks == ASSUME Init PROVE Locking
BY DEF Init, Idle, Absent, Locking, DeletionsHeld, CacheLocked, WorkLocked

\* A copy with the current version is the current object, and what the
\* reconciler is about to write was decided on that object.
THEOREM LockingHolds == Spec => []Locking
<1>1. Init => TypeOK /\ Locking
  BY InitType, InitLocks
<1>2. TypeOK /\ Locking /\ [Next]_vars => (TypeOK /\ Locking)'
  BY NextType, NextLocks
<1> QED
  BY <1>1, <1>2, PTL DEF Spec

---------------------------------------------------------------------------
(* An approval is never lost.                                              *)

\* How a step may treat an approved request, object by object.
Kept(a, b) ==
  a.exists /\ a.status.state = "approved" =>
    \/ ~b.exists
    \/ b.status.state \in {"approved", "git-committed", "failed"}

\* A write of the reconciler keeps an approval: it was decided on this object.
LEMMA WriteKeeps ==
  ASSUME TypeOK, Locking, pc \in Writes, Current
  PROVE  Kept(api[req], Updated)
<1>1. Proposed(pc, obj)
  BY DEF Locking, WorkLocked, Writes
<1>2. CASE pc \in {"AddFinalizer", "RemoveFinalizer"}
  <2>1. ~Updated.exists \/ Updated.status = api[req].status
    BY <1>2, FinalizerWritten DEF Absent
  <2> QED
    BY <2>1 DEF Kept
<1>3. CASE pc \notin {"AddFinalizer", "RemoveFinalizer"}
  <2>1. Decided(pc, api[req]) /\ Updated.status = obj.status
    BY <1>3, StatusWritten
  <2>2. api[req].status.state = "approved" => pc \in {"Started", "NamespaceReady",
                                                      "GitCommitted", "ErrorState"}
    BY <1>3, <2>1 DEF Decided, Writes
  <2> QED
    BY <1>1, <2>1, <2>2 DEF Kept, Proposed
<1> QED
  BY <1>2, <1>3

LEMMA EnvironmentKeeps ==
  ASSUME TypeOK, Environment
  PROVE  \A q \in Requests : Kept(api[q], api'[q])
<1>1. api \in [Requests -> Object]
  BY DEF TypeOK
<1>2. ASSUME NEW r \in Requests, NEW o, Store(r, o), Kept(api[r], Versioned(api[r], o))
      PROVE  \A q \in Requests : Kept(api[q], api'[q])
  BY <1>1, <1>2 DEF Store, Kept
<1>3. ASSUME NEW r \in Requests, NEW o \in Object, o.status = api[r].status
      PROVE  Kept(api[r], Versioned(api[r], o))
  BY <1>3 DEF Kept, Versioned, Absent, Object
<1>4. ASSUME NEW r \in Requests, NEW s \in Specs, Create(r, s)
      PROVE  \A q \in Requests : Kept(api[q], api'[q])
  BY <1>2, <1>4 DEF Create, Kept
<1>5. ASSUME NEW r \in Requests, NEW s \in Specs, Edit(r, s)
      PROVE  \A q \in Requests : Kept(api[q], api'[q])
  <2> DEFINE o == [Respecified(api[r], s) EXCEPT !.resourceVersion = @ + 1]
  <2>1. o.status = api[r].status
    BY <1>1, RespecifiedType, RespecifiedParts DEF Object
  <2> QED
    BY <1>1, <1>5, <2>1 DEF Edit, Kept
<1>6. ASSUME NEW r \in Requests, Delete(r)
      PROVE  \A q \in Requests : Kept(api[q], api'[q])
  <2> DEFINE o == [api[r] EXCEPT !.deleting = TRUE]
  <2>1. o \in Object /\ o.status = api[r].status
    BY <1>1 DEF Object
  <2> QED
    BY <1>2, <1>3, <1>6, <2>1 DEF Delete
<1>7. ASSUME NEW r \in Requests, Approve(r) \/ HiveReports(r)
      PROVE  \A q \in Requests : Kept(api[q], api'[q])
  BY <1>2, <1>7 DEF Approve, HiveReports, Kept
<1> QED
  BY <1>4, <1>5, <1>6, <1>7 DEF Environment, DeleteNamespace, storeVars, Kept

LEMMA NextKeeps ==
  ASSUME TypeOK, Locking, [Next]_vars
  PROVE  \A q \in Requests : Kept(api[q], api'[q])
<1>1. CASE UNCHANGED api
  BY <1>1 DEF Kept
<1>2. CASE Environment
  BY <1>2, EnvironmentKeeps
<1>3. CASE pc \in Writes /\ Current /\ api' = [api EXCEPT ![req] = Updated]
  <2>1. api \in [Requests -> Object] /\ req \in Requests
    BY <1>3 DEF TypeOK, Writes
  <2> QED
    BY <1>3, <2>1, WriteKeeps DEF Kept
<1> QED
  BY <1>1, <1>2, <1>3
     DEF vars, Next, Reconcile, ReconcileNothing, ReconcileWaiting, ReconcileDeletion,
         ReconcileFinalizer, ReconcileNew, ReconcileApproved, ReconcileGitCommitted,
         ReconcileFailed, Take, WorkerStep, WriteConflict, WriteFails, WriteAckLost,
         RequeueAfterWrite, BackOffAfterWrite, DeletionHandled, StartProcessing,
         EnsureNamespace, EnsureNamespaceFails, NamespaceReady, GitStep, GitReturns,
         Write, Writes, Watch, WatchNamespaces, TimerFires, Restart, storeVars

\* No step of the operator or of anybody else takes back an approval, however
\* stale the copy the reconciler works on (lines 125-133 and 162-169).
THEOREM ApprovalKept == Spec => ApprovalIsKept
<1>1. TypeOK /\ Locking /\ [Next]_vars =>
        [\A r \in Requests :
           api[r].exists /\ api[r].status.state = "approved" =>
             \/ ~api'[r].exists
             \/ api'[r].status.state \in {"approved", "git-committed", "failed"}]_vars
  BY NextKeeps DEF Kept
<1> QED
  BY <1>1, TypeCorrect, LockingHolds, PTL DEF Spec, ApprovalIsKept

---------------------------------------------------------------------------
(* No request is forgotten.                                                *)

\* The reconciler that is idle works on no request.
Resting == pc = "idle" => req = NoRequest

LEMMA NextRests == ASSUME Resting, [Next]_vars PROVE Resting'
BY DEF Resting, vars, Next, Reconcile, ReconcileNothing, ReconcileWaiting, ReconcileDeletion,
       ReconcileFinalizer, ReconcileNew, ReconcileApproved, ReconcileGitCommitted,
       ReconcileFailed, Take, Begin, WorkerStep, WriteConflict, WriteFails, WriteAckLost,
       RequeueAfterWrite, BackOffAfterWrite, DeletionHandled, ReturnAfter, ReturnDone, Done,
       StartProcessing, EnsureNamespace, EnsureNamespaceFails, NamespaceReady, GitStep,
       GitReturns, Continue, Watch, WatchNamespaces, TimerFires, Restart, Environment,
       Store, Create, Edit, Delete, Approve, HiveReports, DeleteNamespace, workerVars

LEMMA Unforgotten ==
  ASSUME NoLostWakeup, UNCHANGED <<api, cache, timers, req>>, queue \subseteq queue'
  PROVE  NoLostWakeup'
BY DEF NoLostWakeup, Actionable

\* A stored object that changes is ahead of the cache, and an event is on its way.
LEMMA StoreWakes ==
  ASSUME TypeOK, Locking, NoLostWakeup, NEW r \in Requests, NEW o \in Object,
         api' = [api EXCEPT ![r] = o],
         o = api[r] \/ o.resourceVersion = api[r].resourceVersion + 1,
         UNCHANGED <<cache, queue, timers, req>>
  PROVE  NoLostWakeup'
<1>1. /\ api \in [Requests -> Object]
      /\ \A q \in Requests : api[q].resourceVersion \in Nat /\ cache[q].resourceVersion \in Nat
  BY DEF TypeOK, Object
<1>2. o # api[r] => cache[r] # o
  BY <1>1 DEF Locking, CacheLocked
<1>3. \A q \in Requests : api'[q] = IF q = r THEN o ELSE api[q]
  BY <1>1
<1>4. CASE o = api[r]
  BY <1>3, <1>4 DEF NoLostWakeup, Actionable
<1>5. CASE o # api[r]
  BY <1>2, <1>3, <1>5 DEF NoLostWakeup, Actionable
<1> QED
  BY <1>4, <1>5

\* A reconciliation that ends with a timer keeps its request.
LEMMA ReturnWakes ==
  ASSUME TypeOK, NoLostWakeup, NEW delay \in Nat, delay < NoTimer, ReturnAfter(delay),
         UNCHANGED <<cache, queue>>,
         \A q \in Requests \ {req} : api'[q] = api[q]
  PROVE  NoLostWakeup'
<1>1. timers \in [Requests -> Nat] /\ NoTimer \in Nat
  BY DEF TypeOK, NoTimer
<1>2. \A q \in Requests : timers'[q] = IF q = req /\ delay < timers[q] THEN delay ELSE timers[q]
  BY <1>1 DEF ReturnAfter, Schedule
<1>3. ASSUME NEW q \in Requests, q = req PROVE timers'[q] # NoTimer
  <2> timers[q] \in Nat
    BY <1>1
  <2> QED
    BY <1>1, <1>2, <1>3
<1>4. ASSUME NEW q \in Requests, q # req, Actionable(api'[q])
      PROVE  q \in queue \/ timers'[q] # NoTimer \/ cache[q] # api'[q]
  BY <1>2, <1>4 DEF NoLostWakeup, Actionable
<1> QED
  BY <1>3, <1>4 DEF NoLostWakeup, Actionable

LEMMA NothingActionable ==
  ASSUME NEW o \in Object, o.deleting => o.exists /\ o.finalizer, NothingToDo(o)
  PROVE  ~Actionable(o)
<1>1. o.status.retryCount \in Nat /\ MaxRetries \in Nat
  BY DEF Object, Status
<1>2. CASE ~o.exists
  BY <1>2 DEF Actionable
<1>3. CASE o.exists
  <2>1. ~o.deleting /\ o.finalizer /\ o.status.state \in {"complete", "failed"}
    BY <1>3 DEF NothingToDo, Live
  <2>2. o.status.state = "failed" => o.status.retryCount >= MaxRetries
    BY <1>3, <2>1 DEF NothingToDo, Live
  <2>3. o.status.state = "failed" => ~(o.status.retryCount < MaxRetries)
    BY <1>1, <2>2
  <2> QED
    BY <2>1, <2>3 DEF Actionable
<1> QED
  BY <1>2, <1>3

\* Reconcile does nothing only if there is nothing to do, or an event is coming.
LEMMA ReconcileWakes ==
  ASSUME TypeOK, Locking, Resting, NoLostWakeup, NEW r \in Requests, Reconcile(r)
  PROVE  NoLostWakeup'
<1>1. /\ pc = "idle" /\ queue' = queue \ {r} /\ UNCHANGED <<api, cache>>
  BY DEF Reconcile, ReconcileNothing, ReconcileWaiting, ReconcileDeletion,
         ReconcileFinalizer, ReconcileNew, ReconcileApproved, ReconcileGitCommitted,
         ReconcileFailed, Take, storeVars, cacheVars
<1>2. timers \in [Requests -> Nat]
  BY DEF TypeOK
<1>3. req = NoRequest /\ NoRequest \notin Requests
  BY <1>1 DEF Resting
<1>4. ASSUME NEW q \in Requests, q # r, Actionable(api'[q]), timers'[q] = timers[q]
      PROVE  q \in queue' \/ timers'[q] # NoTimer \/ cache'[q] # api'[q]
  BY <1>1, <1>3, <1>4 DEF NoLostWakeup, Actionable
<1>5. CASE ReconcileNothing(r)
  <2>1. timers' = timers /\ NothingToDo(cache[r])
    BY <1>5 DEF ReconcileNothing
  <2>2. /\ cache[r] \in Object /\ cache[r].status.retryCount \in Nat
        /\ api[r].deleting => api[r].exists /\ api[r].finalizer
    BY DEF TypeOK, Object, Status, Locking, DeletionsHeld
  <2>3. cache[r] = api[r] => ~Actionable(api[r])
    BY <2>1, <2>2, NothingActionable
  <2> QED
    BY <1>1, <1>4, <2>1, <2>3 DEF NoLostWakeup, Actionable
<1>6. CASE ReconcileWaiting(r)
  <2>1. Schedule(r, requeueAfterSuccess)
    BY <1>6 DEF ReconcileWaiting
  <2>2. \A q \in Requests :
          timers'[q] = IF q = r /\ 30 < timers[q] THEN 30 ELSE timers[q]
    BY <1>2, <2>1 DEF Schedule, requeueAfterSuccess
  <2>3. timers'[r] # NoTimer
    <3> timers[r] \in Nat
      BY <1>2
    <3> QED
      BY <2>2 DEF NoTimer
  <2> QED
    BY <1>1, <1>4, <2>2, <2>3 DEF NoLostWakeup, Actionable
<1>7. CASE req' = r /\ UNCHANGED timers
  BY <1>1, <1>4, <1>7 DEF NoLostWakeup, Actionable
<1> QED
  BY <1>5, <1>6, <1>7 DEF Reconcile, ReconcileDeletion, ReconcileFinalizer, ReconcileNew,
     ReconcileApproved, ReconcileGitCommitted, ReconcileFailed, Begin

\* Every way a reconciliation ends, after a write or without one.
LEMMA WriteEndsWakes ==
  ASSUME TypeOK, Locking, NoLostWakeup,
         WriteConflict \/ WriteFails \/ WriteAckLost
           \/ RequeueAfterWrite \/ BackOffAfterWrite \/ DeletionHandled
  PROVE  NoLostWakeup'
<1>1. /\ req \in Requests /\ api \in [Requests -> Object] /\ UNCHANGED <<cache, queue>>
      /\ api' = api \/ api' = [api EXCEPT ![req] = Updated]
  BY DEF TypeOK, Writes, WriteConflict, WriteFails, WriteAckLost, RequeueAfterWrite,
         BackOffAfterWrite, DeletionHandled, Write, storeVars, cacheVars
<1>2. \A q \in Requests \ {req} : api'[q] = api[q]
  BY <1>1
<1>3. CASE DeletionHandled
  <2>1. /\ pc = "RemoveFinalizer" /\ Current /\ Done /\ UNCHANGED timers
        /\ api' = [api EXCEPT ![req] = Updated]
    BY <1>3 DEF DeletionHandled, Write, ReturnDone
  <2>2. Updated = Absent(api[req].resourceVersion + 1)
    BY <2>1, FinalizerWritten
  <2>3. ~Actionable(api'[req])
    BY <1>1, <2>1, <2>2 DEF Absent, Actionable
  <2>4. \A q \in Requests \ {req} :
          Actionable(api'[q]) => q \in queue \/ timers[q] # NoTimer \/ cache[q] # api'[q]
    BY <1>2 DEF NoLostWakeup, Actionable
  <2> QED
    BY <1>1, <2>1, <2>3, <2>4 DEF NoLostWakeup, Actionable
<1>4. CASE ~DeletionHandled
  <2>1. ReturnAfter(RateLimited) \/ ReturnAfter(requeueAfterError)
    BY <1>4 DEF WriteConflict, WriteFails, WriteAckLost, RequeueAfterWrite, BackOffAfterWrite
  <2>2. /\ RateLimited \in Nat /\ RateLimited < NoTimer
        /\ requeueAfterError \in Nat /\ requeueAfterError < NoTimer
    BY DEF RateLimited, requeueAfterError, NoTimer
  <2> QED
    BY <1>1, <1>2, <2>1, <2>2, ReturnWakes
<1> QED
  BY <1>3, <1>4

LEMMA HandleApprovedWakes ==
  ASSUME TypeOK, Locking, NoLostWakeup,
         StartProcessing \/ EnsureNamespace \/ EnsureNamespaceFails
           \/ NamespaceReady \/ GitStep \/ GitReturns
  PROVE  NoLostWakeup'
<1>1. UNCHANGED <<cache, queue, timers, req>>
  BY DEF StartProcessing, EnsureNamespace, EnsureNamespaceFails, NamespaceReady, GitStep,
         GitReturns, Continue, Write, cacheVars, workVars, workerVars
<1>2. CASE StartProcessing \/ NamespaceReady
  <2>1. /\ pc \in Writes \ {"AddFinalizer", "RemoveFinalizer"} /\ Current
        /\ api' = [api EXCEPT ![req] = Updated]
    BY <1>2 DEF StartProcessing, NamespaceReady, Write, Writes
  <2>2. req \in Requests /\ Updated \in Object
    BY <2>1, UpdatedType DEF TypeOK, Writes
  <2> QED
    BY <1>1, <2>1, <2>2, StatusWritten, StoreWakes
<1>3. CASE ~(StartProcessing \/ NamespaceReady)
  BY <1>1, <1>3, Unforgotten DEF EnsureNamespace, EnsureNamespaceFails, GitStep, GitReturns,
     storeVars
<1> QED
  BY <1>2, <1>3

LEMMA ProcessWakes ==
  ASSUME TypeOK, NoLostWakeup,
         WatchNamespaces \/ Restart \/ \E r \in Requests : Watch(r) \/ TimerFires(r)
  PROVE  NoLostWakeup'
<1>1. CASE WatchNamespaces
  BY <1>1, Unforgotten DEF WatchNamespaces, storeVars, workVars, workerVars
<1>2. CASE Restart
  BY <1>2 DEF Restart, storeVars, NoLostWakeup, Actionable
<1>3. ASSUME NEW r \in Requests, Watch(r) PROVE NoLostWakeup'
  <2>1. \A q \in Requests : q # r => cache'[q] = cache[q]
    BY <1>3 DEF Watch, TypeOK
  <2> QED
    BY <1>3, <2>1 DEF Watch, storeVars, workerVars, NoLostWakeup, Actionable
<1>4. ASSUME NEW r \in Requests, TimerFires(r) PROVE NoLostWakeup'
  <2>1. \A q \in Requests : q # r => timers'[q] = timers[q]
    BY <1>4 DEF TimerFires, TypeOK
  <2> QED
    BY <1>4, <2>1 DEF TimerFires, storeVars, cacheVars, workerVars, NoLostWakeup, Actionable
<1> QED
  BY <1>1, <1>2, <1>3, <1>4

LEMMA EnvironmentWakes ==
  ASSUME TypeOK, Locking, NoLostWakeup, Environment PROVE NoLostWakeup'
<1>1. UNCHANGED <<cache, queue, timers, req>>
  BY EnvironmentStores DEF cacheVars, workVars, workerVars
<1>2. CASE UNCHANGED api
  BY <1>1, <1>2, Unforgotten
<1>3. CASE ~UNCHANGED api
  <2>1. PICK r \in Requests, o \in Object :
          /\ api' = [api EXCEPT ![r] = o]
          /\ o = api[r] \/ o.resourceVersion = api[r].resourceVersion + 1
    BY <1>3, EnvironmentStores
  <2> QED
    BY <1>1, <2>1, StoreWakes
<1> QED
  BY <1>2, <1>3

LEMMA NextWakes ==
  ASSUME TypeOK, Locking, Resting, NoLostWakeup, [Next]_vars PROVE NoLostWakeup'
<1>1. CASE UNCHANGED vars
  BY <1>1, Unforgotten DEF vars
<1>2. CASE Next
  BY <1>2, ReconcileWakes, WriteEndsWakes, HandleApprovedWakes, ProcessWakes, EnvironmentWakes
     DEF Next, WorkerStep
<1> QED
  BY <1>1, <1>2

\* A request with work to do is being reconciled, queued, on a timer, or an
\* event is on its way: after every return of Reconcile and every failure.
THEOREM NothingForgotten == Spec => []NoLostWakeup
<1>1. Init => Resting /\ NoLostWakeup
  <2>1. ASSUME Init PROVE \A r \in Requests : ~api[r].exists
    BY <2>1 DEF Init, Absent
  <2> QED
    BY <2>1 DEF Init, Idle, Resting, NoLostWakeup, Actionable
<1>2. TypeOK /\ Locking /\ Resting /\ NoLostWakeup /\ [Next]_vars => (Resting /\ NoLostWakeup)'
  BY NextRests, NextWakes
<1> QED
  BY <1>1, <1>2, TypeCorrect, LockingHolds, PTL DEF Spec
=============================================================================
