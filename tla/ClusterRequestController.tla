---------------------- MODULE ClusterRequestController ----------------------
(***************************************************************************)
(* internal/controller/clusterrequest_controller.go: the reconciler that   *)
(* takes a ClusterRequest through its states and commits the cluster's     *)
(* configuration to Git with GitClient.                                    *)
(*                                                                         *)
(* One reconciler runs at a time (SetupWithManager leaves the default of   *)
(* one worker).  It reads objects from the informer cache, which lags      *)
(* behind the API server, and writes to the API server, which refuses an   *)
(* object whose resourceVersion is not the current one.  Each call of the  *)
(* API server and each step of CommitCluster is an action: between them    *)
(* users, the Buffalo application, Hive, the caches and the timers act,    *)
(* calls fail, replies get lost, and the process restarts.                 *)
(***************************************************************************)
EXTENDS GitClient, StateArrows

CONSTANTS
  Requests,    \* names of ClusterRequests
  Specs,       \* values of spec, as far as they differ
  ClusterOf,   \* spec.clusterName of each spec
  Render,      \* the files mapper and templates make of a spec, or NoFiles
  MaxRetries,  \* 3 in the code; smaller in the larger instances
  NoRequest    \* the worker is idle

States ==
  {"", "pending", "approved", "git-committed", "provisioning", "complete", "failed"}
ConditionTypes == {"NamespaceCreated", "GitCommitted", "ArgocdAppCreated"}

\* Delays, in seconds: AddRateLimited, requeueAfterSuccess and
\* requeueAfterError.  NoTimer is longer than all of them.
RateLimited == 0
requeueAfterSuccess == 30
requeueAfterError == 60
NoTimer == 1000

ASSUME ControllerAssumption ==
  /\ NoRequest \notin Requests
  /\ ClusterOf \in [Specs -> Clusters]
  /\ Render \in [Specs -> Contents \union {NoFiles}]
  /\ Specs # {}
  /\ MaxRetries \in Nat

\* conditions holds the condition types whose status is True; error stands
\* for errorMessage, processingCompletedAt and Ready=False, set together.
Status == [state : States, retryCount : Nat, gitCommitSHA : Commit \union {NoCommit},
           started : BOOLEAN, error : BOOLEAN, conditions : SUBSET ConditionTypes]

\* An object that does not exist keeps the resourceVersion of its deletion.
\* named is a history for the properties: the clusters its spec has named.
Object == [exists : BOOLEAN, resourceVersion : Nat, spec : Specs, named : SUBSET Clusters,
           deleting : BOOLEAN, finalizer : BOOLEAN, status : Status]

NewStatus == [state |-> "", retryCount |-> 0, gitCommitSHA |-> NoCommit,
              started |-> FALSE, error |-> FALSE, conditions |-> {}]

Absent(rv) == [exists |-> FALSE, resourceVersion |-> rv, spec |-> CHOOSE s \in Specs : TRUE,
               named |-> {}, deleting |-> FALSE, finalizer |-> FALSE, status |-> NewStatus]

VARIABLES
  api,         \* the ClusterRequests stored by the API server
  cache,       \* the ClusterRequests in the informer cache
  namespaces,  \* clusters whose namespace exists
  gone,        \* a history: clusters whose namespace somebody has deleted
  nsCache,     \* the same, in the informer cache
  queue,       \* requests in the work queue
  timers,      \* for each request, the delay after which it is queued again
  pc,          \* the call the reconciler is about to make
  req,         \* the request being reconciled
  obj          \* its copy of the object, with the changes not yet written

nsVars     == <<namespaces, gone>>
storeVars  == <<api, nsVars>>
cacheVars  == <<cache, nsCache>>
workVars   == <<queue, timers>>
workerVars == <<pc, req, obj>>
vars == <<api, cache, namespaces, gone, nsCache, queue, timers, pc, req, obj, gitVars, budget>>

Writes == {"AddFinalizer", "RemoveFinalizer", "InitState", "Retry", "Started",
           "NamespaceReady", "GitCommitted", "ArgoCD", "ErrorState"}

TypeOK ==
  /\ GitTypeOK
  /\ api \in [Requests -> Object]
  /\ cache \in [Requests -> Object]
  /\ namespaces \in SUBSET Clusters
  /\ gone \in SUBSET Clusters
  /\ nsCache \in SUBSET Clusters
  /\ queue \in SUBSET Requests
  /\ timers \in [Requests -> Nat]
  /\ pc \in Writes \union {"idle", "EnsureNamespace", "CommitCluster"}
  /\ req \in Requests \union {NoRequest}
  /\ pc # "idle" => req \in Requests
  /\ obj \in Object

Idle == pc = "idle" /\ req = NoRequest /\ obj = Absent(0)

Init ==
  /\ GitInit
  /\ api = [r \in Requests |-> Absent(0)]
  /\ cache = api
  /\ namespaces = {}
  /\ gone = {}
  /\ nsCache = {}
  /\ queue = {}
  /\ timers = [r \in Requests |-> NoTimer]
  /\ Idle

---------------------------------------------------------------------------
(* How a reconciliation starts, ends and writes.                           *)

\* The delaying queue keeps the earlier of two deadlines for an item.
Schedule(r, delay) == timers' = [timers EXCEPT ![r] = IF delay < @ THEN delay ELSE @]

\* Reconcile has read o and its next call is step.
Begin(r, step, o) == pc' = step /\ req' = r /\ obj' = o

Done == pc' = "idle" /\ req' = NoRequest /\ obj' = Absent(0)

\* Reconcile returns Requeue, RequeueAfter or an error.
ReturnAfter(delay) == Done /\ Schedule(req, delay)

\* Reconcile returns an empty Result.
ReturnDone == Done /\ UNCHANGED timers

\* Reconcile goes on to step, with o as its copy.
Continue(step, o) == pc' = step /\ obj' = o /\ UNCHANGED <<req, timers>>

\* What the API server stores for Update and for Status().Update: each takes
\* its own half of the object.  Nothing changes, the version included, when
\* the result is what is stored; an object being deleted disappears with its
\* last finalizer.
Versioned(old, new) ==
  IF new = old THEN old
  ELSE IF new.deleting /\ ~new.finalizer THEN Absent(old.resourceVersion + 1)
  ELSE [new EXCEPT !.resourceVersion = old.resourceVersion + 1]

Updated ==
  Versioned(api[req], IF pc \in {"AddFinalizer", "RemoveFinalizer"}
                      THEN [api[req] EXCEPT !.finalizer = obj.finalizer]
                      ELSE [api[req] EXCEPT !.status = obj.status])

\* Mutant of Current: no optimistic locking.
CurrentUnchecked == api[req].exists

\* The API server takes a write of an object at its current version only.
Current == api[req].exists /\ obj.resourceVersion = api[req].resourceVersion

Write(step) ==
  /\ pc = step
  /\ Current
  /\ api' = [api EXCEPT ![req] = Updated]
  /\ UNCHANGED <<nsVars, cacheVars, queue, budget>>

\* Every failed write makes Reconcile return the error.
WriteConflict ==
  /\ pc \in Writes
  /\ ~Current
  /\ ReturnAfter(RateLimited)
  /\ UNCHANGED <<storeVars, cacheVars, queue, gitVars, budget>>

\* Mutant of WriteFails: the error is logged and swallowed.
WriteFailsUnnoticed ==
  /\ pc \in Writes
  /\ Spend("fault")
  /\ ReturnDone
  /\ UNCHANGED <<storeVars, cacheVars, queue, gitVars>>

WriteFails ==
  /\ pc \in Writes
  /\ Spend("fault")
  /\ ReturnAfter(RateLimited)
  /\ UNCHANGED <<storeVars, cacheVars, queue, gitVars>>

\* The object is written and the reply is lost.
WriteAckLost ==
  /\ pc \in Writes
  /\ Current
  /\ Spend("fault")
  /\ api' = [api EXCEPT ![req] = Updated]
  /\ ReturnAfter(RateLimited)
  /\ UNCHANGED <<nsVars, cacheVars, queue, gitVars>>

---------------------------------------------------------------------------
(* Reconcile: what the cached object makes it do first.                    *)

Take(r) ==
  /\ pc = "idle"
  /\ r \in queue
  /\ queue' = queue \ {r}
  /\ UNCHANGED <<storeVars, cacheVars, gitVars, budget>>

\* Mutant of Live: the work begins before the finalizer is there.
LiveUnheld(o) == o.exists /\ ~o.deleting

Live(o) == o.exists /\ ~o.deleting /\ o.finalizer

\* Not found, or being deleted and waiting for other finalizers, or complete,
\* or failed for the last time: nothing to do.
NothingToDo(o) ==
  \/ ~o.exists
  \/ o.deleting /\ ~o.finalizer
  \/ Live(o) /\ o.status.state = "complete"
  \/ Live(o) /\ o.status.state = "failed" /\ o.status.retryCount >= MaxRetries

ReconcileNothing(r) ==
  /\ Take(r)
  /\ NothingToDo(cache[r])
  /\ UNCHANGED <<timers, workerVars>>

\* Pending waits for Buffalo and provisioning for Hive: look again later.
ReconcileWaiting(r) ==
  /\ Take(r)
  /\ Live(cache[r])
  /\ cache[r].status.state \in {"pending", "provisioning"}
  /\ Schedule(r, requeueAfterSuccess)
  /\ UNCHANGED workerVars

\* Mutant of ReconcileDeletion: failed requests return before it.
ReconcileDeletionLate(r) ==
  /\ Take(r)
  /\ cache[r].exists /\ cache[r].deleting /\ cache[r].finalizer
  /\ cache[r].status.state # "failed"
  /\ Begin(r, "RemoveFinalizer", [cache[r] EXCEPT !.finalizer = FALSE])
  /\ UNCHANGED timers

ReconcileDeletion(r) ==
  /\ Take(r)
  /\ cache[r].exists /\ cache[r].deleting /\ cache[r].finalizer
  /\ Begin(r, "RemoveFinalizer", [cache[r] EXCEPT !.finalizer = FALSE])
  /\ UNCHANGED timers

ReconcileFinalizer(r) ==
  /\ Take(r)
  /\ cache[r].exists /\ ~cache[r].deleting /\ ~cache[r].finalizer
  /\ Begin(r, "AddFinalizer", [cache[r] EXCEPT !.finalizer = TRUE])
  /\ UNCHANGED timers

\* Mutant of ReconcileNew: a state that is not in the enumeration of the CRD.
ReconcileNewUnknown(r) ==
  /\ Take(r)
  /\ Live(cache[r]) /\ cache[r].status.state = ""
  /\ Begin(r, "InitState", [cache[r] EXCEPT !.status.state = "Pending"])
  /\ UNCHANGED timers

ReconcileNew(r) ==
  /\ Take(r)
  /\ Live(cache[r]) /\ cache[r].status.state = ""
  /\ Begin(r, "InitState", [cache[r] EXCEPT !.status.state = "pending"])
  /\ UNCHANGED timers

ReconcileApproved(r) ==
  /\ Take(r)
  /\ Live(cache[r]) /\ cache[r].status.state = "approved"
  /\ Begin(r, IF cache[r].status.started THEN "EnsureNamespace" ELSE "Started",
           [cache[r] EXCEPT !.status.started = TRUE])
  /\ UNCHANGED timers

ReconcileGitCommitted(r) ==
  /\ Take(r)
  /\ Live(cache[r]) /\ cache[r].status.state = "git-committed"
  /\ Begin(r, "ArgoCD", [cache[r] EXCEPT !.status.state = "provisioning",
                         !.status.conditions = @ \union {"ArgocdAppCreated"}])
  /\ UNCHANGED timers

\* Mutant of ReconcileFailed: retries are counted and not limited.
ReconcileFailedAlways(r) ==
  /\ Take(r)
  /\ Live(cache[r]) /\ cache[r].status.state = "failed"
  /\ Begin(r, "Retry", [cache[r] EXCEPT !.status.state = "approved",
                        !.status.retryCount = @ + 1])
  /\ UNCHANGED timers

ReconcileFailed(r) ==
  /\ Take(r)
  /\ Live(cache[r]) /\ cache[r].status.state = "failed"
  /\ cache[r].status.retryCount < MaxRetries
  /\ Begin(r, "Retry", [cache[r] EXCEPT !.status.state = "approved",
                        !.status.retryCount = @ + 1])
  /\ UNCHANGED timers

Reconcile(r) ==
  \/ ReconcileNothing(r) \/ ReconcileWaiting(r) \/ ReconcileDeletion(r)
  \/ ReconcileFinalizer(r) \/ ReconcileNew(r) \/ ReconcileApproved(r)
  \/ ReconcileGitCommitted(r) \/ ReconcileFailed(r)

---------------------------------------------------------------------------
(* The writes that end a reconciliation.                                   *)

RequeueAfterWrite ==
  /\ \E step \in {"AddFinalizer", "InitState", "GitCommitted", "ArgoCD"} : Write(step)
  /\ ReturnAfter(RateLimited)
  /\ UNCHANGED gitVars

BackOffAfterWrite ==
  /\ \E step \in {"Retry", "ErrorState"} : Write(step)
  /\ ReturnAfter(requeueAfterError)
  /\ UNCHANGED gitVars

DeletionHandled ==
  /\ Write("RemoveFinalizer")
  /\ ReturnDone
  /\ UNCHANGED gitVars

---------------------------------------------------------------------------
(* handleApproved                                                          *)

WithState(s) == [obj EXCEPT !.status.state = s]

\* setErrorState, with the condition that names the failed step removed.
Failed(condition) ==
  [obj EXCEPT !.status.state = "failed", !.status.error = TRUE,
              !.status.conditions = @ \ {condition}]

StartProcessing ==
  /\ Write("Started")
  /\ Continue("EnsureNamespace", [obj EXCEPT !.resourceVersion = Updated.resourceVersion])
  /\ UNCHANGED gitVars

\* Mutant of NamespaceEnsured: nothing is created when the cache has no namespace.
NamespaceAssumed(c) == UNCHANGED namespaces

\* createClusterNamespace: a namespace that the cache has is left alone, be it
\* gone by now; one that it does not have is created.
NamespaceEnsured(c) ==
  \/ c \in nsCache /\ UNCHANGED namespaces
  \/ c \notin nsCache \union namespaces /\ namespaces' = namespaces \union {c}

\* ensureNamespaceAndSecrets succeeds: all secrets are copied, or skipped since
\* their sources are missing, which a namespace that is gone does not disturb.
EnsureNamespace ==
  /\ pc = "EnsureNamespace"
  /\ NamespaceEnsured(ClusterOf[obj.spec])
  /\ Continue("NamespaceReady", [obj EXCEPT !.status.conditions = @ \union {"NamespaceCreated"}])
  /\ UNCHANGED <<api, gone, cacheVars, queue, gitVars, budget>>

\* It fails, and no call need fail for that: the cache does not have the
\* namespace yet (AlreadyExists), or still has it (no copy can be created).  Or
\* a copy is refused, since the caches of the secrets lag or somebody changed
\* one: at any attempt, where Budget lets it happen at all.  Or a call fails,
\* with its effect or without.
EnsureNamespaceFails ==
  /\ pc = "EnsureNamespace"
  /\ LET c == ClusterOf[obj.spec] IN
     \/ (c \in nsCache) # (c \in namespaces) /\ UNCHANGED <<namespaces, budget>>
     \/ NamespaceEnsured(c) /\ Budget["secrets"] > 0 /\ UNCHANGED budget
     \/ (UNCHANGED namespaces \/ NamespaceEnsured(c)) /\ Spend("fault")
  /\ Continue("ErrorState", Failed("NamespaceCreated"))
  /\ UNCHANGED <<api, gone, cacheVars, queue, gitVars>>

\* The status write is the last check of the version before Git; mapping and
\* templates follow it without another call.
NamespaceReady ==
  /\ Write("NamespaceReady")
  /\ LET o == [obj EXCEPT !.resourceVersion = Updated.resourceVersion] IN
     IF Render[o.spec] = NoFiles
     THEN /\ Continue("ErrorState", [Failed("GitCommitted") EXCEPT
                                       !.resourceVersion = o.resourceVersion])
          /\ UNCHANGED call
     ELSE /\ Continue("CommitCluster", o)
          /\ CommitCluster(ClusterOf[o.spec], Render[o.spec])
  /\ UNCHANGED <<remoteVars, cloneVars, commits>>

GitStep ==
  /\ pc = "CommitCluster"
  /\ CallStep
  /\ UNCHANGED <<storeVars, cacheVars, workVars, workerVars>>

GitReturns ==
  /\ pc = "CommitCluster"
  /\ IF call.at = "ok"
     THEN Continue("GitCommitted", [WithState("git-committed") EXCEPT
                     !.status.gitCommitSHA = call.commit,
                     !.status.conditions = @ \union {"GitCommitted"}])
     ELSE Continue("ErrorState", Failed("GitCommitted"))
  /\ Return
  /\ UNCHANGED <<storeVars, cacheVars, queue, remoteVars, cloneVars, commits, budget>>

WorkerStep ==
  \/ WriteConflict \/ WriteFails \/ WriteAckLost
  \/ RequeueAfterWrite \/ BackOffAfterWrite \/ DeletionHandled
  \/ StartProcessing \/ EnsureNamespace \/ EnsureNamespaceFails
  \/ NamespaceReady \/ GitStep \/ GitReturns

---------------------------------------------------------------------------
(* The process: caches, timers, restarts.                                  *)

\* A watch event updates the cache and queues the request.
Watch(r) ==
  /\ cache[r] # api[r]
  /\ cache' = [cache EXCEPT ![r] = api[r]]
  /\ queue' = queue \union {r}
  /\ UNCHANGED <<storeVars, nsCache, timers, workerVars, gitVars, budget>>

WatchNamespaces ==
  /\ nsCache # namespaces
  /\ nsCache' = namespaces
  /\ UNCHANGED <<storeVars, cache, workVars, workerVars, gitVars, budget>>

TimerFires(r) ==
  /\ timers[r] # NoTimer
  /\ timers' = [timers EXCEPT ![r] = NoTimer]
  /\ queue' = queue \union {r}
  /\ UNCHANGED <<storeVars, cacheVars, workerVars, gitVars, budget>>

\* The process dies between any two steps.  The new one lists what exists and
\* clones the repository; work queue, timers and the old clone are gone.
Restart ==
  /\ Spend("restart")
  /\ cache' = api
  /\ nsCache' = namespaces
  /\ queue' = {r \in Requests : api[r].exists}
  /\ timers' = [r \in Requests |-> NoTimer]
  /\ Done
  /\ Reclone
  /\ UNCHANGED storeVars

---------------------------------------------------------------------------
(* Users, Buffalo and Hive change objects through the API server.          *)

Store(r, o) ==
  /\ api' = [api EXCEPT ![r] = Versioned(@, o)]
  /\ UNCHANGED <<cacheVars, nsVars, workVars, workerVars, gitVars>>

\* Nothing keeps spec.clusterName as it is: there is no rule of the CRD against
\* a change, and no webhook.
Respecified(o, s) == [o EXCEPT !.spec = s, !.named = @ \union {ClusterOf[s]}]

Create(r, s) ==
  /\ ~api[r].exists
  /\ Spend("create")
  /\ Store(r, [Respecified(api[r], s) EXCEPT !.exists = TRUE])

\* spec is s afterwards; s is the old spec when labels or annotations change.
Edit(r, s) ==
  /\ api[r].exists
  /\ Spend("edit")
  /\ api' = [api EXCEPT ![r] = [Respecified(api[r], s) EXCEPT !.resourceVersion = @ + 1]]
  /\ UNCHANGED <<cacheVars, nsVars, workVars, workerVars, gitVars>>

Delete(r) ==
  /\ api[r].exists /\ ~api[r].deleting
  /\ Spend("delete")
  /\ Store(r, [api[r] EXCEPT !.deleting = TRUE])

\* A merge patch of the status: it carries no resourceVersion.
Approve(r) ==
  /\ api[r].exists
  /\ api[r].status.state \in {"", "pending"}
  /\ Store(r, [api[r] EXCEPT !.status.state = "approved"])
  /\ UNCHANGED budget

\* The watcher of Hive that the design plans reports the end of provisioning.
HiveReports(r) ==
  /\ api[r].exists
  /\ api[r].status.state = "provisioning"
  /\ Spend("hive")
  /\ \/ Store(r, [api[r] EXCEPT !.status.state = "complete"])
     \/ Store(r, [api[r] EXCEPT !.status.state = "failed", !.status.error = TRUE])

DeleteNamespace(c) ==
  /\ c \in namespaces
  /\ Spend("nsDelete")
  /\ namespaces' = namespaces \ {c}
  /\ gone' = gone \union {c}
  /\ UNCHANGED <<api, cacheVars, workVars, workerVars, gitVars>>

Environment ==
  \/ \E r \in Requests, s \in Specs : Create(r, s) \/ Edit(r, s)
  \/ \E r \in Requests : Delete(r) \/ Approve(r) \/ HiveReports(r)
  \/ \E c \in Clusters : DeleteNamespace(c)
  \/ OthersPush /\ UNCHANGED <<storeVars, cacheVars, workVars, workerVars>>

Next ==
  \/ \E r \in Requests : Reconcile(r) \/ Watch(r) \/ TimerFires(r)
  \/ WorkerStep
  \/ WatchNamespaces
  \/ Restart
  \/ Environment

Spec == Init /\ [][Next]_vars

\* The process runs: each step of the worker, each event and each timer comes
\* eventually.  The work queue is first-in first-out, so that a request that
\* is queued again and again is taken: strong fairness.  Nothing obliges users,
\* Buffalo, Hive or failures to act.
Fairness ==
  /\ WF_vars(WorkerStep)
  /\ WF_vars(WatchNamespaces)
  /\ \A r \in Requests :
       WF_vars(Watch(r)) /\ WF_vars(TimerFires(r)) /\ SF_vars(Reconcile(r))

FairSpec == Spec /\ Fairness

---------------------------------------------------------------------------
(* Properties                                                              *)

\* What clients see of the requests.
phaseOf   == [r \in Requests |-> IF api[r].exists THEN api[r].status.state ELSE "absent"]
retriesOf == [r \in Requests |-> api[r].status.retryCount]
shaOf     == [r \in Requests |-> api[r].status.gitCommitSHA]
namedOf   == [r \in Requests |-> api[r].named]

Lifecycle == INSTANCE ClusterRequestLifecycle WITH
  phase <- phaseOf, retries <- retriesOf, sha <- shaOf, named <- namedOf

\* The state machine of the design holds for what clients see, although the
\* operator acts on cached copies, is interrupted anywhere and repeats itself:
\* no stale write takes a request back, and no retry or recorded commit is
\* made up (Reconcile, handleApproved).
ImplementsLifecycle == Lifecycle!LifecycleSpec

\* What the status says is so: a recorded commit is on the remote branch and is
\* for a cluster that the request has named, and a request past Git has its
\* commit and the namespace of the cluster that was committed, unless somebody
\* has deleted that namespace (the order of the steps of handleApproved, and its
\* early returns).  Names can be edited: which one counts is CommitMatchesSpec's.
StatusHolds(o) ==
  /\ o.status.gitCommitSHA # NoCommit => /\ o.status.gitCommitSHA \in published
                                         /\ o.status.gitCommitSHA.cluster \in o.named
  /\ o.status.state \in {"git-committed", "provisioning", "complete"} =>
       /\ o.status.gitCommitSHA # NoCommit
       /\ {"NamespaceCreated", "GitCommitted"} \subseteq o.status.conditions
       /\ o.status.gitCommitSHA.cluster \in namespaces \union gone

StatusIsTrue == \A r \in Requests : StatusHolds(api[r])

\* An approval is never lost: an approved request stays approved until it is
\* committed, fails or disappears.  In particular the write of pending that
\* starts from an old copy does not undo it (lines 125-133).
ApprovalIsKept ==
  [][\A r \in Requests :
       api[r].exists /\ api[r].status.state = "approved" =>
         \/ ~api'[r].exists
         \/ api'[r].status.state \in {"approved", "git-committed", "failed"}]_vars

\* A request becomes git-committed with the cluster and the files of the spec it
\* has at that moment, although its name and the rest of it may have been edited
\* since the reconciler read it and while the commit was pushed.
CommitMatchesSpec ==
  [][\A r \in Requests :
       api[r].status.state # "git-committed" /\ api'[r].status.state = "git-committed" =>
         LET commit == api'[r].status.gitCommitSHA
             spec   == api'[r].spec
         IN  commit.cluster = ClusterOf[spec] /\ commit.files = Render[spec]]_vars

\* The commit of the running call is published only while its request exists
\* and holds the finalizer: a deletion waits for the push.
PublishHoldsFinalizer ==
  [][call.commit \in published' \ published =>
       req \in Requests /\ api[req].exists /\ api[req].finalizer]_vars

\* Each side moves requests along its own arrows only, although the operator
\* writes what it decided on an older copy: the reconciler never reports or
\* approves in place of the others, nor undoes what they did, and they never do
\* its part.  The database sync is modelled against these arrows.
ArrowsFollowed ==
  [][\A r \in Requests :
       api[r].exists /\ api'[r].exists /\ api'[r].status.state # api[r].status.state =>
         <<api[r].status.state, api'[r].status.state>> \in
           IF WorkerStep THEN ControllerArrows ELSE OthersArrows]_vars

\* Work the operator owes to a request.
Actionable(o) ==
  /\ o.exists
  /\ \/ o.deleting
     \/ ~o.finalizer
     \/ o.status.state \in {"", "approved", "git-committed"}
     \/ o.status.state = "failed" /\ o.status.retryCount < MaxRetries

\* No request with work to do is forgotten: it is being reconciled, queued, on
\* a timer, or the event that queues it is on its way.  Whatever Reconcile
\* returns, and after every failure.
NoLostWakeup ==
  \A r \in Requests :
    Actionable(api[r]) =>
      req = r \/ r \in queue \/ timers[r] # NoTimer \/ cache[r] # api[r]

\* An approved request is committed, fails for good, or goes away.
ApprovedSettles ==
  \A r \in Requests :
    api[r].exists /\ api[r].status.state = "approved" ~>
      \/ ~api[r].exists
      \/ api[r].status.state = "git-committed"
      \/ api[r].status.state = "failed" /\ api[r].status.retryCount = MaxRetries

\* A deleted request goes away: the finalizer is removed in the end.
DeletionCompletes ==
  \A r \in Requests : api[r].deleting ~> ~api[r].exists

---------------------------------------------------------------------------
(* What the documents and comments say and the code does not do.           *)

\* "Automatic retry on failures": a failed request with retries left reaches
\* git-committed when nothing else goes wrong.  (CommitCluster refuses to
\* commit files that are already committed, so it does not.)
RetryReachesGit ==
  \A r \in Requests :
    api[r].exists /\ api[r].status.state = "failed" /\ api[r].status.retryCount < MaxRetries ~>
      ~api[r].exists \/ api[r].status.state = "git-committed"

\* "Pull latest changes": a clone that lacks commits of the remote branch and
\* has some of its own gets over it.
CloneCatchesUp == behind /\ ahead # {} ~> ~(behind /\ ahead # {})
=============================================================================
