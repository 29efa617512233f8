# Verification of the OPL cluster operator

TLA+ models of the operator in this repository, checked with TLC and, where
stated, proved with TLAPS. Paths are relative to the repository root.

## 1. The system

The operator turns a `ClusterRequest` (a custom resource that a user or the
database sync creates) into a cluster's configuration in a GitOps repository,
from which ArgoCD and Hive build the cluster.

| component | state | operations | talks to |
|---|---|---|---|
| ClusterRequest controller `internal/controller/clusterrequest_controller.go` | none of its own: everything is in the objects, the informer cache and the work queue | `Reconcile`, one handler per state, `setErrorState`, `handleDeletion` | API server (reads from the cache, writes with optimistic locking), Git client (a blocking call) |
| Git client `internal/git/client.go` | a clone on the container's disk | `Initialize` (clone or pull), `CommitCluster`, `DeleteCluster` (no caller) | the remote repository, which other people push to as well |
| Database sync `internal/controller/dbsync_controller.go` | none; the `labs` table and the objects | poller (`Start`, `syncDatabaseToKubernetes`, `processLab`), status watcher (`Reconcile`); both in the leader, or in every replica without leader election (the default of the flag; the manifest turns it on) | database client, API server |
| Database client `internal/database/client.go`, `queries.go` | a connection pool | connect with retries, select unsynced labs, mark, update the state | PostgreSQL, which Buffalo writes to as well |
| Lab mapper `internal/database/mapper.go` | none (pure) | validate a lab, build the object | |
| Mappers `internal/mappers/*` | none (pure) | node types and counts, region, version | |
| Templates `internal/templates/generator.go` | none (pure) | render the files | |
| API types `api/v1alpha1/clusterrequest_types.go` | the CRD: defaults and validation | | |
| Main `cmd/main.go` | the process | environment, clone, database connection, health checks, set-up of the controllers | everything, and the kubelet's probes |

**How a request moves.** Buffalo or the database sync creates the object and
somebody approves it (`status.state = approved`). The controller adds a
finalizer and `pending`; for `approved` it records the start, ensures the
namespace and secrets, records that, renders the files, calls `CommitCluster`,
and records the commit as `git-committed`; then `provisioning`. `complete` is
reported by a Hive watcher that the design plans. A failure makes the request
`failed`; it goes back to `approved` at most three times.

**What makes it hard.** `Reconcile` decides on a cached object and everything
after that read races with users, Buffalo, Hive, watch events and timers. Each
API call can fail, conflict, or succeed without the operator hearing of it; the
process can stop between any two calls. `CommitCluster` leaves something behind
at each step when it fails: files in the index, a commit in the clone, a push
whose reply is lost. The repository has other writers. The poller works on rows
and objects it read before, against the status watcher, Buffalo, users and, without
leader election, other replicas.

**What would make each component correct.**

- *Git client:* the clone's bookkeeping matches the remote; a returned hash is
  published; a push touches the clusters it is about and undoes nobody's work.
- *Controller:* clients see the state machine of the design and nothing else;
  no approval is undone by a stale write; a status tells the truth about Git
  and the namespace; what is committed is what the spec says; nothing is
  published for an object that is gone; no request is forgotten; approved
  requests settle; deleted ones go away.
- *Database sync:* one object for each lab; a lab is marked when its object
  exists; the state in the table follows the object; invalid labs are failed
  once and do not block others.
- *Secrets:* what a call reports as copied is there; what an interrupted call left
  behind does not make the next one fail.
- *Mappers:* whatever the API server takes gives a complete configuration that
  renders; counts, nodes and version are those asked for; the poller's validation
  is as strict as the API server's.
- *Main:* the operator runs with all it needs or not at all; its retries fit into
  the time the liveness probe leaves; once its environment is right it runs.

The hazards are listed line by line in `PROJECT.json`.

## 2. The modules

| module | models | kind |
|---|---|---|
| `GitClient` | `internal/git/client.go` | component |
| `ClusterRequestController` | `internal/controller/clusterrequest_controller.go`, calling `GitClient` | component, extends `GitClient` |
| `ClusterRequestLifecycle` | what clients of the API may rely on | abstract specification |
| `StateArrows` | how `status.state` moves, and who moves it | shared by the controller and the sync |
| `DatabaseSync` | `internal/controller/dbsync_controller.go`, `internal/database/queries.go` | component |
| `LabSync` | how the sync may change the table and the objects | abstract specification |
| `SecretCopy` | `ensureNamespaceAndSecrets` of the controller, call by call | component |
| `SecretMirror` | how it may change the namespace and its secrets | abstract specification |
| `Mappers` | `internal/mappers/*`, `internal/database/mapper.go`, the markers of `api/v1alpha1/clusterrequest_types.go` | pure operators |
| `ClusterConfig` | a request on its way from a row or a manifest to the templates | component, extends `Mappers` |
| `Startup` | `cmd/main.go`, `internal/database/client.go` and the probe of `config/manager/manager.yaml` | component |
| `MC...` | constants of the instances | model checking |
| `GitClientProofs` | types, bookkeeping, returned hashes, what a push changes | proofs |
| `ClusterRequestControllerProofs` | types | proofs |
| `ClusterRequestControllerLocking` | optimistic locking, approvals, wake-ups | proofs |
| `ClusterRequestControllerGit` | statuses, commits, the finalizer, the refinement, arrows, pushes | proofs |
| `DatabaseSyncProofs` | types, marks, one object for a lab, failed labs, the refinement | proofs |
| `SecretCopyProofs` | types, copies, causes of failures, the refinement | proofs |
| `ClusterConfigProofs`, `StartupProofs` | types and safety of their modules | proofs |

Operators whose comment starts with "Mutant of" are variants of the definition
after them with a plausible bug. No specification uses them; they show that the
properties can fail.

### GitClient

One directory per cluster; what is in it is nothing, a complete rendering, or a
mixture of two (`Torn`). `remote` is the tip of the remote branch, `head` and
`index` the clone. `CommitCluster` only fast-forwards, so the relation of the two
histories is `ahead` (commits not pushed) and `behind`. `call.at` is the step of
the running call: *Initialize* (`Pull`, refused when both sides have moved),
*Commit* (write, stage and commit; `CommitEmpty` is `ErrEmptyCommit`; `StageFails`
leaves the files staged so far in the index), *Push* (rejected, failed, or done
with the reply lost). A restart clones again, since nothing is mounted at
`GIT_LOCAL_PATH` (`config/manager/manager.yaml`).

### ClusterRequestController

`api` is what the API server stores, `cache` the informer's copy, `queue` and
`timers` the work queue, and `pc`, `req`, `obj` the worker: the next call, the
request, and its copy of the object. There is one worker (`SetupWithManager` sets
no concurrency), so there is one call of `CommitCluster` at a time. `Reconcile(r)`
reads the cache and runs to the first call of the API server; each such call is
an action with its outcomes: done (`Write`), refused for an old resourceVersion
(`WriteConflict`), failed (`WriteFails`), done with the reply lost
(`WriteAckLost`). What follows up to the next call belongs to the same action.
Rendering is the function `Render`; `NoFiles` is an error of the templates. The
cache takes the latest version at once (`Watch`): the informer may skip versions
but never goes back. Users, Buffalo and the planned Hive watcher create, edit,
delete, approve and report.

The cluster of a request is that of its spec (`ClusterOf`, of each spec): nothing in
the CRD or the operator keeps `spec.clusterName` from being edited
(`clusterrequest_types.go:33`), and several requests may name one cluster. So there
are two histories for the properties: `named`, in the object, has the clusters its
spec has named since it was created, and `gone` the namespaces that somebody has
deleted.

Namespace and secrets are one step, which `SecretCopy` opens into its calls.
`NamespaceEnsured` decides by the cache, as the code does: a namespace that it has is
left alone, also when it is gone by now; the step then succeeds only if no copy is
made (all sources are missing). `EnsureNamespaceFails` has the failures that need no
failing call: a namespace that the cache lacks (`AlreadyExists`) or still has. Copies
can be refused too, at every attempt, since the caches of the secrets lag or somebody
interferes; the budget only says whether (`secrets`).

`Lifecycle` instantiates `ClusterRequestLifecycle` with the stored objects,
`published` and `named`; nothing of the cache, the queue, the worker or the clone is
visible. A commit is for a cluster that the request has named. That it is the one it
names when the commit is recorded is `CommitMatchesSpec`.

### DatabaseSync

`labs` is the table, `objects` the ClusterRequests of the sync namespace by name,
`informer` a replica's cache. A poller has the batch it read (`todo`) and its next
call (`step`): `Fetch` is `GetUnsyncedLabs`, `Decide` is `processLab` up to its
first call that writes (validation, the look by name, the look by label), then the
status update, the creation and the marking, each with its failures. What
`ValidateLab` looks at is `valid` and `hold`; the query reads no lab on hold. What
else the API server asks of the object made of a row is `accepted`: a row without it
is refused at every poll (`CreateRefused`, which also has the name that is taken), and
stays as it is. A
watcher has a work queue and the statement it is about to make. `Storable` is what
the column `state varchar(12)` holds: `git-committed` has 13 characters, so that
update fails every time. The effect of the controller and of others on an object is
the arrows of its state machine (`StateArrows`); that `ClusterRequestController`, which
models it in full, has these arrows only and each side its own is `ArrowsFollowed`.

`Abstract` instantiates `LabSync` with the table, the objects, and what the replicas
together remember: the rows of their batches, their caches, the labs they have
concluded to fail and the states they have concluded to report. Which replica knows
what, in what order it works, and its queues are not visible. `LabSync` says for each
write what must have been read before, and that it changes nothing else.

### SecretCopy

`at` is the call of the running `ensureNamespaceAndSecrets`, `next` the index of the
secret in hand, `found` and `existing` the source and the copy as read. Gets read
the caches (`nsCache`, `sourceCache`, `copyCache`), which lag; `Accepted` is what the
API server asks of a write: the name is free, the namespace there, the version
current, and the type of a secret unchanged. `CallDone`, `CallRefused` and
`CallFails` (not done, or done with the reply lost) are its answers; the first error
ends the call. `took` is what the call read, a history for the properties, as are
`gone` and `disturbed`. `Mirror` instantiates `SecretMirror` with the stores and with
what the caches and the running call hold: a write puts what was read, and overwrites
only what was read as it is, which is what sending back the version that was read buys
(`existingSecret` is updated, not the new `destSecret`). Which secrets there are, and in what order, is a constant
(the code has three, the instance two: the loop has no other state between two of
them than the index).

### Mappers and ClusterConfig

`Mappers` has the tables and functions with the names of the code. A version string
is a record of what its text is (empty, a number, an image set, a name), its number,
and whether blanks surround it. `WithDefaults` and `Admits` are the defaults and the
validation that the markers put into the CRD. `ClusterConfig` takes one request
through them: `SyncLab` from a row (the status of the row is left to `DatabaseSync`;
`refused` keeps a lab that passed `ValidateLab` and was refused by the API server),
`Create` and `Edit` from a manifest, `Generate` in `handleApproved`. A block with an
empty instance type is treated as one without. That is so for an object that has no
finalizer yet: the operator's update that adds it leaves empty fields out, and the API
server fills in its default. An empty type that is edited in later stays, since only
the status is updated from then on; section 5 says what it does.

### Startup

`phase` follows `main`: configure, clone, connect, wait (`backoff`), run. Time counts
in seconds and passes only while the process waits: for its timer, for a remote or
a database that hangs (`Hanging`), or in the running manager. `Probe` is the kubelet's,
with the numbers of the manifest; `/healthz` is served by the running manager and
pings the database. Every error ends the process (`Exit`), and `Start` begins with an
empty disk. `waits` is the history of the waits, `slow` tells that a call hung.

## 3. The runs

Runs are in `PROJECT.json`; each has a configuration, and a budget says how often
each event of the environment happens. `CHECK_DEADLOCK FALSE` throughout: the
operator is idle when there is nothing to do, and an instance ends when its budget
is spent.

| run | instance | what it shows |
|---|---|---|
| `git` | 2 clusters, 2 renderings, 4 calls, 2 network faults, 1 disk fault, 2 pushes by others, 1 restart | bookkeeping, returned hashes, no push undoes others' work |
| `controller` | 1 request, 2 specs of 2 clusters, 1 retry; any 3 of 1 edit, deletion, report of Hive, deletion of a namespace, fault, restart; secrets refused at any attempt | the lifecycle is implemented; arrows followed; statuses true; no approval lost; commits match specs; finalizer; no lost wake-up |
| `liveness` | 1 request, 2 specs (one does not render), 3 retries, 1 fault of the network, fault of the disk, push by others, restart, deletion | approved requests settle, deleted ones go away |
| `sync` | 2 labs, invalid, refused or neither, 1 name, batches of one, 1 object made by hand, 1 fault, 1 restart | `LabSync` is implemented; marks, failures, liveness of the queue and of the status |
| `sync_edits` | 1 lab, 2 names, 2 edits, 1 hold, 1 deletion, 1 restart | never two objects for a lab |
| `secrets` | 2 secrets, 3 contents of 2 types, 1 change of a source, deletion, fault, restart, repetition | `SecretMirror` is implemented; what is reported as copied is; failures have a cause; repeated calls succeed |
| `mapping` | 2 names, 3 regions, 4 request types, 4 forms of version, blocks with fields left out, at and past their limits | rendering, counts, nodes, version, validation |
| `startup` | the code's 5 attempts and cap of 30 s, probes after 15 s every 20 s, 3 failures; 2 changes of remote and database, 1 of the Deployment, 1 end of the manager | prepared or not running; spaced attempts; probe and retries; comes to run |

*Why these bounds.* The interesting case of each hazard needs one failure, and one
more event that meets what it left behind: a second call after a failed push, a retry
after a leftover commit, a second lab that wants the name, an edit of the cluster's
name between the namespace and the commit. A second failure of the same kind repeats
the first from a state already reached; where retries count (`liveness`) the code's
limit of three is kept, elsewhere one retry reaches every branch. `startup` has the
real numbers, since the property is about their relation. `controller` lets three of
its six kinds of event meet in one behaviour (`ThreeEvents`, a constraint). A request
that is created again after its deletion, or shares its cluster with another, is in no
run; the proofs have both, and any number of events. `mapping` has, for each branch of
the mappers, an input on either side of it. That the bounds hide nothing for the
safety properties listed in section 4 is what the proofs show.

*What two of the liveness properties say.* `LabLeavesQueue`: a lab that stays in the
queue for ever is itself refused by the API server for ever (its request type is no
label value, or its name is taken by hand), or has a batch of such labs before it.
These do wait, and do block the others: nothing takes them out of the query. The run
has both cases. `ObjectIsMirrored`: the state in which an object comes to rest is that
of its row, `failed` included, where requests without retries left stay for ever
(`clusterrequest_controller.go:162`). It is checked without edits of rows: with them
the poller can fail a row over an object that is being provisioned.

### Disagreements between the code and what is said of it

These runs expect a violation, one property each; `PROJECT.json` quotes the source.

| run | what happens |
|---|---|
| `retry` | A retry after a provisioning failure commits files that are committed, gets `ErrEmptyCommit`, and uses up the retries. |
| `diverged` | Somebody pushes between Pull and Push: the clone keeps its commit and refuses every later Pull, for all clusters, until a restart. |
| `git_scope` | Files staged by a failed call go into the next cluster's commit. |
| `sync_mark` | Marking fails after the creation; when the state has moved on the query no longer finds the lab. |

Seen while modelling, without a run of their own:

- *Controller.* An edit during the push makes the next attempt fail with
  `ErrEmptyCommit` although the files are published; `errorMessage` survives a
  successful retry (`CLUSTER_OPERATOR_DESIGN.md:97` says otherwise); the event of the
  failed status write starts the retry before `requeueAfterError`. Of two requests
  with one `clusterName` the later overwrites the files of the earlier. An edit of
  `clusterName` before the commit is recorded makes the attempt start again for the
  new name, and namespace, secrets and files of the old one stay; a later edit changes
  nothing in Git, and the request then names a cluster that nobody builds.
  A namespace that is deleted is made again by a later attempt only.
- *Secrets.* A source that is missing is skipped, and the condition still says
  "secrets copied" (`clusterrequest_controller.go:331`). A source that was created
  again with another type makes every update fail until somebody deletes the copy.
  Secrets rotated after the request succeeded are not copied again.
- *Database sync.* The object of an approved lab is created without a state, becomes
  pending and waits for a second approval (`DATABASE_SYNC_DESIGN.md:268`: "Create CR,
  start provisioning"). The poller validates a lab before it looks for the object, so
  that a row which became invalid before it was marked is failed over the state of an
  object that is being provisioned. Two active replicas read the same labs, since the
  locks of `FOR UPDATE SKIP LOCKED` end with the statement; an object made by hand
  with the lab's name makes every poll fail (`dbsync_controller.go:150` means to allow
  it); `git-committed` does not fit its column. A lab whose request type is no label
  value is refused by the API server at every poll (`DATABASE_SYNC_DESIGN.md:997`:
  "Don't retry invalid data").
- *Mappers.* A block that gives only a count gets the instance type of the CRD's
  default, which then wins over the request type: a GPU request with five workers
  gets no GPU (`INSTANCE_TYPE_SELECTION.md` puts the request type before all but an
  explicit type). `ValidateLab` refuses `xl`, which the CRD has. A blank version
  passes `ValidateLab` and gives a blank image set; "latest" and "4" are passed on as
  they are. The query selects no cloud provider, so that it is always aws.
- *Main.* The cap of 30 s is never reached with 5 attempts (1, 2, 4, 8 s).
  `DATABASE_SYNC_DESIGN.md:967` waits after the last attempt, the code does not. A
  clone that takes longer than the probe allows (15 s and two more periods) is ended
  every time, since `/healthz` is not served yet. An outage of the database for three
  probes ends the operator (`DATABASE_SYNC_DESIGN.md:948`: "Controller logs error but
  continues running").

### Fairness

- The worker goes on (`WF`): its calls return, with whatever result.
- Watches deliver and timers fire (`WF`).
- `Reconcile(r)` is strongly fair: the queue is first-in first-out and the worker
  returns to it, so that a request that is in the queue again and again is taken.
- The poller's ticker fires, its calls return (`WF` on `Poller`), and the controller
  takes an object on from each state but `failed` (`WF` on `Moves` without the arrow from
  `failed` to `approved`). Retries may happen and need not: after the third an object
  rests in `failed`.
- `ensureNamespaceAndSecrets` goes on and is called again after an error (`WF` on
  `Worker` of `SecretCopy`), and the informers deliver (`WF`). The reconciler gives up
  after three attempts; the property says what further attempts would do.
- The kubelet starts the container and probes, `main` goes on, time passes (`WF` on
  `Start`, `Probe`, `Main`, `Tick`).
- Nothing obliges users, Buffalo, Hive or failures to act, and nothing keeps a call
  from failing as often as its budget says.

## 4. The proofs

All theorems are for any sets of requests, clusters, specs, replicas and names, any
rendering, number of retries and budget, from the named assumptions of the component
modules (the constants have their types; the special values differ) and those that the
theorem itself states, which are given below.

*The Git client*

- **`GitTypeCorrect`, `GitSafety`.** `GitInv` adds `PushIsPrepared` to the two
  properties: at *Push* the call's commit is in `ahead` and `head` holds its files.
  Without it a successful push is not known to publish the commit it returns.
- **`PushUndoes`, `ControllerPushUndoes`.** `Following`: until staging has failed once,
  the index is `head`; and unless the remote has moved on (`behind`), where `head` differs
  from the remote an unpushed commit says so. A push is taken only then. The second
  theorem is about the client as the controller calls it; both use the lemmas about the
  client's steps.
- **`SoundDiskKeepsScope`.** Assumes that no write or staging of files fails, and has
  `PushStaysInItsClusters` from the same invariant: what the run `git_scope` shows needs a
  failing disk, and neither faults of the network nor restarts will do.

*The controller*

- **`TypeCorrect`.** By the steps of the worker and those of the environment.
- **`LockingHolds`.** What optimistic locking gives, as an invariant: no copy is
  newer than the object, and a copy with the current resourceVersion *is* the object
  (`CacheLocked`); the worker's copy, at the current version, differs from the object
  only by what the handler has changed (`WorkLocked`); an object being deleted exists
  and has its finalizer (`DeletionsHeld`).
- **`ApprovalKept`.** From `Locking`: a write that goes through was decided on the
  object as it is, and no handler takes approved back.
- **`NothingForgotten`.** A step that takes a request out of the queue returns it to
  the queue or a timer, or has changed the object, whose event is on its way.
  `Resting` (an idle worker has no request) carries it over `Done`.
- **`StatusTrue`, `CommitMatches`, `PublishHolds`.** `Truth` joins `GitInv`, the
  copies of a status in the store, the cache and the worker (`StatusesHold`, with
  `Naming`: the cluster of the stored spec is one that the request has named), and what
  the worker is about to do (`WorkHolds`). That is: the running call is for the cluster
  and files of the spec in hand (`Publishing`), the namespace of that cluster was there
  before it is recorded (`NamespaceDone`), and so are the hash's cluster and files those
  of the spec in hand (`Recorded`). Namespaces can be deleted and the cache lags, so
  that the invariant is about those that have ever been there (`Made`, `CacheMade`),
  which only grow; this is why `StatusIsTrue` excepts what somebody has deleted.
  Clusters can be renamed while the worker is at it; `Locking` makes the spec in hand the
  stored one when the write goes through.
- **`LifecycleImplemented`.** The refinement, step by step. `Moves` says how the object
  of a request may change: it `Keeps` what the lifecycle sees, `Renames` its cluster,
  `Advances`, `Commits`, `Retries` or `Vanishes`; `LifecycleStep` is that at most one
  object does. It needs
  `UnmixedHolds`: no commit has a number above `commits`, pushed and unpushed commits
  differ, and a commit that is being made or about to be recorded is in no status yet;
  without the last, two requests could record one commit.
- **`ArrowsHold`.** A write that goes through was decided on the stored state
  (`Locking`), and each handler that changes a state changes it along one arrow. So the
  arrows that `DatabaseSync` lets the objects take are all that the controller takes.

*The database sync*

- **`SyncTypeCorrect`.** A poller is idle exactly when it has no batch; otherwise the
  lab in hand is one of the batch, since some ID is the least (well-foundedness of
  the natural numbers).
- **`BackedHolds`, `MarkedWasCreated`.** `Backed`: every object, cached copy, poller about
  to mark, and mark is of a lab whose object has been created. The mark alone is not
  inductive: it is set from a cache that was filled earlier.
- **`ObjectPerLab`.** Assumes one replica and no faults. `Sole`: an object of a lab is
  in the poller's cache, unless the lab is marked or about to be marked; so a lab of the
  batch for which the poller finds no object has none. With a lost reply, or with two
  replicas, a lab that is renamed meanwhile can get two objects, hence the assumptions.
- **`ObjectPerLabWithoutEdits`.** Assumes no edits of rows, and nothing else. `Named`: the
  object of a lab has the name that the lab asks for, and so has every batch; two objects
  of a lab would be one. The two theorems together: two objects for a lab take an edit of
  its row, and besides a failed call or a second active replica.
- **`FailedHasNoObject`.** Assumes no edits and no deletions. `Steady`: copies lag behind
  but are not wrong (an object belongs to a valid lab that asks for its name, a cached
  object is still there, a batch has the rows as they are), and a lab about to be failed
  is invalid or has its name taken.
- **`LabSyncImplemented`.** The refinement: each step of a poller, a watcher or an informer
  is a read, a conclusion or one write of `LabSync`, each step of the others a change of
  one row or one object. It needs `Backed` for the mark, and `Prepared`: a poller about to
  create an object has found the lab valid. That the API server accepts it is a condition
  of the call. Nothing else is needed of the caches and
  batches than that they were filled from the stores at some time.

*The others*

- **`ConfigSafety`.** `ConfigInv`: what is stored is what was asked for with defaults,
  and admitted; what is rendered is made from it. The properties follow field by field
  from lemmas about defaults and mapping.
- **`CopySafety`.** `CopyInv` adds to the properties what a call that nothing has disturbed
  knows (`Known`: its reads of the caches told what the API server has, for the namespace
  and for the secrets it has not written yet) and where it stands (`Underway`). Without
  it a refusal is not known to have a cause.
- **`MirrorImplemented`.** The refinement of `SecretMirror`. `Versioned`: a copy in the
  cache or in the call is the stored one or has an older version, so that an update that
  the API server takes replaces what was read.
- **`StartupSafety`.** `Prepared` is what each step of `main` has before it, and
  `BackoffFollows` that `backoff` is the next wait: the list of waits alone is not
  inductive.
- **`ProbeSpares`.** Assumes at most five attempts, and a probe that fails for good more
  than 15 s after the start. The code has five attempts and waits of 1, 2, 4 and 8 s
  between them; the probe of the manifest starts at 15 s and fails the third time at
  55 s. By the number of waits made, the waits of a start are bounded by 0, 1, 3, 7 and
  15 s, whatever the cap; time passes elsewhere only when a call hangs.

Model-checked only: liveness (`ApprovedSettles`, `DeletionCompletes`, `LabLeavesQueue`,
`ObjectIsMirrored`, `CallSucceeds`, `ComesToRun`), which is out of the prover's reach,
and the violations. Every invariant, action property and refinement of a passing run
is a theorem.

## 5. Not modelled

- `DeleteCluster`, `Close` and `GetSupportedVersions` have no caller. Flags, TLS, metrics
  and the readers of numbers and durations from the environment keep no state of
  interest; deepcopy code is generated; of the manifests only the facts named above are
  used.
- The text of the templates. `Renders` says when they can be executed; that they are
  valid YAML and what ArgoCD and Hive make of them is outside.
- An instance type that is edited into an empty string after the finalizer was added. It
  stays empty, and the mapper falls back to the size or the request type and not to the
  CRD's default (`cluster_config.go:72`, `:87`); the count is as given. Fields that are
  copied from the row to the files; the company's name, which stays empty when its row
  cannot be read.
- Namespaces that are being deleted. For the operator they are there or gone, in the
  controller as in `SecretCopy`.
- Two details of `Initialize` (`GitClient.Pull`). A file that was written and not staged,
  because the disk failed between the two, can stop a later fast-forward
  (`ErrUnstagedChanges`, `client.go:100`); the model completes it. No property but `PushUndoesNothing` and
  `PushStaysInItsClusters` is about what a fast-forward leaves in the index, and these
  two, as proved, say nothing after a failure of the disk. And the pull names no branch: it takes
  the remote's HEAD, where the clone and the push take `GIT_BRANCH`; the model has one
  branch, so that it is about repositories where these are the same.
- The ways of the leader election. A replica that loses its lease ends (`ManagerEnds`);
  that two replicas poll at once is modelled in `DatabaseSync`, where the flag's default
  allows it.

## 6. What could follow

1. `SecretCopy` as a refinement of the step `EnsureNamespace` of the controller, which
   takes namespace and secrets as one.
2. The controller and the sync in one module. They share the objects; each has the other
   as the arrows of `StateArrows` now, which `ArrowsHold` justifies on the one side.
