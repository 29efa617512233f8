----------------------------- MODULE GitClient -----------------------------
(***************************************************************************)
(* internal/git/client.go: the operator's clone of the GitOps repository   *)
(* and the call CommitCluster, which pulls, writes and stages a cluster's  *)
(* files, commits them and pushes the branch.                              *)
(*                                                                         *)
(* The repository is abstracted to one directory per cluster.  A directory *)
(* holds no files, a complete rendering (a member of Contents), or a       *)
(* mixture of two renderings (Torn).  The clone and the remote branch are  *)
(* compared by what the clone has not pushed (ahead) and by whether the    *)
(* remote has commits the clone lacks (behind): CommitCluster only ever    *)
(* fast-forwards, so these two say all that Pull and Push depend on.       *)
(*                                                                         *)
(* There is one caller at a time: the controller runs one reconciler.      *)
(* Everything else that happens here (other people's pushes, failures) is  *)
(* bounded by the numbers in `budget'.                                     *)
(***************************************************************************)
EXTENDS Naturals, FiniteSets

CONSTANTS
  Clusters,     \* directories under clusters/ in the repository
  Contents,     \* complete renderings of a cluster's configuration files
  NoFiles,      \* the directory does not exist
  Torn,         \* the directory holds files of two renderings
  NoCommit,     \* the zero value of a commit hash
  Budget        \* how often each event of the environment may happen

Events ==
  {"call", "fault", "diskFault", "othersPush", "restart",
   "create", "edit", "delete", "hive", "nsDelete", "secrets"}

ASSUME GitAssumption ==
  /\ NoFiles \notin Contents /\ Torn \notin Contents /\ NoFiles # Torn
  /\ Budget \in [Events -> Nat]

Tree == [Clusters -> Contents \union {NoFiles, Torn}]

\* A commit carries what its author asked for; seq makes hashes distinct.
Commit == [cluster : Clusters, files : Contents, seq : Nat]

ASSUME CommitAssumption == NoCommit \notin Commit

VARIABLES
  remote,     \* tree at the tip of the remote branch
  published,  \* the operator's commits in the history of the remote branch
  head,       \* tree at HEAD of the clone
  index,      \* tree staged in the clone
  ahead,      \* commits of the clone that are not on the remote branch
  behind,     \* the remote branch has commits the clone does not have
  commits,    \* number of commits the operator has made so far
  call,       \* the call of CommitCluster in progress
  budget      \* what is left of Budget

cloneVars  == <<head, index, ahead, behind>>
remoteVars == <<remote, published>>
gitVars    == <<remote, published, head, index, ahead, behind, commits, call>>

Calls == [at : {"idle", "Initialize", "Commit", "Push", "ok", "error"},
          commit : Commit \union {NoCommit}]

NoCall == [at |-> "idle", commit |-> NoCommit]

GitTypeOK ==
  /\ remote \in Tree
  /\ published \in SUBSET Commit
  /\ head \in Tree
  /\ index \in Tree
  /\ ahead \in SUBSET Commit
  /\ behind \in BOOLEAN
  /\ commits \in Nat
  /\ call \in Calls
  /\ call.at # "idle" => call.commit \in Commit
  /\ budget \in [Events -> Nat]

\* main.go clones the repository before the manager starts.
GitInit ==
  /\ remote = [c \in Clusters |-> NoFiles]
  /\ published = {}
  /\ head = remote
  /\ index = remote
  /\ ahead = {}
  /\ behind = FALSE
  /\ commits = 0
  /\ call = NoCall
  /\ budget = Budget

Spend(event) ==
  /\ budget[event] > 0
  /\ budget' = [budget EXCEPT ![event] = @ - 1]

---------------------------------------------------------------------------
(* The call, step by step.  Step moves it on; Fail returns its error.      *)

Step(from, to) == call.at = from /\ call' = [call EXCEPT !.at = to]

CommitCluster(c, files) ==
  /\ call = NoCall
  /\ call' = [at |-> "Initialize",
              commit |-> [cluster |-> c, files |-> files, seq |-> commits + 1]]

\* Mutant of Pull: a fetch that leaves HEAD where it was.
PullFetchesOnly ==
  /\ Step("Initialize", "Commit")
  /\ ~(behind /\ ahead # {})
  /\ behind' = FALSE
  /\ UNCHANGED <<remoteVars, head, index, ahead, commits, budget>>

\* A fast-forward moves HEAD, index and worktree to the remote branch, which
\* is the remote's HEAD; a clone that is up to date or only ahead is left alone.
\* (A file written and not staged, after a failure of the disk, can stop
\* the fast-forward; this is left out.)
Pull ==
  /\ Step("Initialize", "Commit")
  /\ ~(behind /\ ahead # {})
  /\ behind' = FALSE
  /\ IF behind THEN head' = remote /\ index' = remote
               ELSE UNCHANGED <<head, index>>
  /\ UNCHANGED <<remoteVars, ahead, commits, budget>>

\* ErrNonFastForwardUpdate: the two histories have diverged.
PullDiverged ==
  /\ Step("Initialize", "error")
  /\ behind /\ ahead # {}
  /\ UNCHANGED <<remoteVars, cloneVars, commits, budget>>

PullFails ==
  /\ Step("Initialize", "error")
  /\ Spend("fault")
  /\ UNCHANGED <<remoteVars, cloneVars, commits>>

Staged == [index EXCEPT ![call.commit.cluster] = call.commit.files]

\* All files are written and staged, and the index becomes a commit.
CommitFiles ==
  /\ Step("Commit", "Push")
  /\ Staged # head
  /\ head' = Staged
  /\ index' = Staged
  /\ ahead' = ahead \union {call.commit}
  /\ commits' = commits + 1
  /\ UNCHANGED <<remoteVars, behind, budget>>

\* ErrEmptyCommit: the staged tree is the tree of HEAD.
CommitEmpty ==
  /\ Step("Commit", "error")
  /\ Staged = head
  /\ index' = Staged
  /\ UNCHANGED <<remoteVars, head, ahead, behind, commits, budget>>

\* Writing or staging fails between two files: what was staged stays staged.
StageFails ==
  /\ Step("Commit", "error")
  /\ Staged # index
  /\ Spend("diskFault")
  /\ index' = [index EXCEPT ![call.commit.cluster] = Torn]
  /\ UNCHANGED <<remoteVars, head, ahead, behind, commits>>

\* Mutant of Push: a forced push, whatever the remote has by now.
PushForced ==
  /\ Step("Push", "ok")
  /\ remote' = head
  /\ published' = published \union ahead
  /\ ahead' = {}
  /\ UNCHANGED <<head, index, behind, commits, budget>>

\* The whole branch is pushed, commits of earlier calls included.
Push ==
  /\ Step("Push", "ok")
  /\ ~behind
  /\ remote' = head
  /\ published' = published \union ahead
  /\ ahead' = {}
  /\ UNCHANGED <<head, index, behind, commits, budget>>

\* Mutant of PushRejected: the error of the push is not returned.
PushRejectedUnnoticed ==
  /\ Step("Push", "ok")
  /\ behind
  /\ UNCHANGED <<remoteVars, cloneVars, commits, budget>>

PushRejected ==
  /\ Step("Push", "error")
  /\ behind
  /\ UNCHANGED <<remoteVars, cloneVars, commits, budget>>

PushFails ==
  /\ Step("Push", "error")
  /\ Spend("fault")
  /\ UNCHANGED <<remoteVars, cloneVars, commits>>

\* The remote accepts the push and the connection breaks before it says so.
PushAckLost ==
  /\ Step("Push", "error")
  /\ ~behind
  /\ Spend("fault")
  /\ remote' = head
  /\ published' = published \union ahead
  /\ ahead' = {}
  /\ UNCHANGED <<head, index, behind, commits>>

\* Mutant of Return: only the hash is cleared.
ReturnHalfway ==
  /\ call.at \in {"ok", "error"}
  /\ call' = [call EXCEPT !.commit = NoCommit]

Return ==
  /\ call.at \in {"ok", "error"}
  /\ call' = NoCall

\* Other writers of the repository: a commit elsewhere, or one that removes
\* a cluster's directory.
OthersPush ==
  /\ Spend("othersPush")
  /\ \/ UNCHANGED remote
     \/ \E c \in Clusters : /\ remote[c] # NoFiles
                            /\ remote' = [remote EXCEPT ![c] = NoFiles]
  /\ behind' = TRUE
  /\ UNCHANGED <<published, head, index, ahead, commits, call>>

\* The container restarts with an empty disk, and main.go clones again.
Reclone ==
  /\ head' = remote
  /\ index' = remote
  /\ ahead' = {}
  /\ behind' = FALSE
  /\ call' = NoCall
  /\ UNCHANGED <<remoteVars, commits>>

CallStep ==
  \/ Pull \/ PullDiverged \/ PullFails
  \/ CommitFiles \/ CommitEmpty \/ StageFails
  \/ Push \/ PushRejected \/ PushFails \/ PushAckLost

---------------------------------------------------------------------------
(* The client by itself, called with any files in any order, Budget.call   *)
(* times.                                                                  *)

GitNext ==
  \/ /\ Spend("call")
     /\ \E c \in Clusters, x \in Contents : CommitCluster(c, x)
     /\ UNCHANGED <<remoteVars, cloneVars, commits>>
  \/ CallStep
  \/ Return /\ UNCHANGED <<remoteVars, cloneVars, commits, budget>>
  \/ OthersPush
  \/ Spend("restart") /\ Reclone

GitSpec == GitInit /\ [][GitNext]_<<gitVars, budget>>

---------------------------------------------------------------------------
(* Properties *)

\* A clone with nothing to push and nothing to pull is the remote branch.
\* Every decision of Pull, Commit and Push rests on it: it fails as soon as
\* one of them moves HEAD, the remote or the bookkeeping without the others.
CloneInSync == ~behind /\ ahead = {} => head = remote

\* When CommitCluster returns a hash, that commit is on the remote branch,
\* and its files are there until somebody else pushes.
SuccessIsPublished ==
  call.at = "ok" => /\ call.commit \in published
                    /\ ~behind => remote[call.commit.cluster] = call.commit.files

\* What a push changes are directories of clusters whose commits it carries.
PushKeepsOut ==
  published' # published =>
    \A c \in Clusters :
      remote'[c] # remote[c] => \E m \in ahead : m.cluster = c

\* Until staging has failed once, a push changes the directories of the clusters
\* whose commits it carries, and no others: in particular it never undoes what
\* somebody else pushed after the clone was last updated (Initialize pulls,
\* Push is not forced).
PushUndoesNothing ==
  [][budget["diskFault"] = Budget["diskFault"] => PushKeepsOut]_<<gitVars, budget>>

\* "Add cluster configuration for %s": the commit message names one cluster, and
\* so it would have to be after a failure of the disk as well.
PushStaysInItsClusters == [][PushKeepsOut]_<<gitVars, budget>>
=============================================================================
