-------------------------- MODULE GitClientProofs --------------------------
(***************************************************************************)
(* Proofs about GitClient, for any clusters, renderings and budget.  The   *)
(* lemmas about single steps are used by the proofs about the controller,  *)
(* which takes the same steps.                                             *)
(***************************************************************************)
EXTENDS GitClient, TLAPS

USE GitAssumption, CommitAssumption

LEMMA SpendType ==
  ASSUME NEW event \in Events, budget \in [Events -> Nat], Spend(event)
  PROVE  budget' \in [Events -> Nat]
BY DEF Spend

\* Each step of a running call keeps the types.
LEMMA CallStepType ==
  ASSUME GitTypeOK, CallStep
  PROVE  GitTypeOK'
<1> USE DEF GitTypeOK, Calls, Tree, Step, cloneVars, remoteVars
<1>1. \/ call.at = "idle"
      \/ Staged \in Tree /\ Staged = [index EXCEPT ![call.commit.cluster] = call.commit.files]
  BY DEF Staged, Commit
<1>2. CASE Pull
  BY <1>2 DEF Pull
<1>3. CASE PullDiverged
  BY <1>3 DEF PullDiverged
<1>4. CASE PullFails
  BY <1>4, SpendType DEF PullFails, Events
<1>5. CASE CommitFiles
  BY <1>1, <1>5 DEF CommitFiles
<1>6. CASE CommitEmpty
  BY <1>1, <1>6 DEF CommitEmpty
<1>7. CASE StageFails
  BY <1>7, SpendType DEF StageFails, Events
<1>8. CASE Push
  BY <1>8 DEF Push
<1>9. CASE PushRejected
  BY <1>9 DEF PushRejected
<1>10. CASE PushFails
  BY <1>10, SpendType DEF PushFails, Events
<1>11. CASE PushAckLost
  BY <1>11, SpendType DEF PushAckLost, Events
<1> QED
  BY <1>2, <1>3, <1>4, <1>5, <1>6, <1>7, <1>8, <1>9, <1>10, <1>11 DEF CallStep

LEMMA GitInitType == ASSUME GitInit PROVE GitTypeOK
BY DEF GitInit, GitTypeOK, Tree, Calls, NoCall

LEMMA CommitClusterType ==
  ASSUME GitTypeOK, NEW c \in Clusters, NEW x \in Contents, CommitCluster(c, x),
         UNCHANGED <<remoteVars, cloneVars, commits>>, budget' \in [Events -> Nat]
  PROVE  GitTypeOK'
BY DEF GitTypeOK, Calls, Commit, CommitCluster, remoteVars, cloneVars

LEMMA ReturnType ==
  ASSUME GitTypeOK, Return, UNCHANGED <<remoteVars, cloneVars, commits, budget>>
  PROVE  GitTypeOK'
BY DEF GitTypeOK, Calls, Return, NoCall, remoteVars, cloneVars

LEMMA OthersPushType ==
  ASSUME GitTypeOK, OthersPush
  PROVE  GitTypeOK'
<1>1. budget' \in [Events -> Nat]
  BY SpendType DEF OthersPush, GitTypeOK, Events
<1>2. remote' \in Tree
  BY DEF OthersPush, GitTypeOK, Tree
<1> QED
  BY <1>1, <1>2 DEF GitTypeOK, OthersPush

LEMMA RecloneType ==
  ASSUME GitTypeOK, Reclone, budget' \in [Events -> Nat]
  PROVE  GitTypeOK'
BY DEF GitTypeOK, Reclone, NoCall, Calls, remoteVars

LEMMA UnchangedGitType ==
  ASSUME GitTypeOK, UNCHANGED gitVars, budget' \in [Events -> Nat]
  PROVE  GitTypeOK'
BY DEF GitTypeOK, gitVars

---------------------------------------------------------------------------
(* The commit that is about to be pushed is in the clone, with its files;  *)
(* with this, CloneInSync and SuccessIsPublished are inductive.            *)

PushIsPrepared ==
  call.at = "Push" => /\ call.commit \in ahead
                      /\ head[call.commit.cluster] = call.commit.files

GitInv == CloneInSync /\ PushIsPrepared /\ SuccessIsPublished

LEMMA GitInitInv == ASSUME GitInit PROVE GitInv
BY DEF GitInit, GitInv, CloneInSync, PushIsPrepared, SuccessIsPublished, NoCall

LEMMA CallStepInv ==
  ASSUME GitTypeOK, GitInv, CallStep
  PROVE  GitInv'
<1> USE DEF GitTypeOK, Calls, Tree, Commit, Step, cloneVars, remoteVars,
            GitInv, CloneInSync, PushIsPrepared, SuccessIsPublished
<1>1. CASE Pull
  BY <1>1 DEF Pull
<1>2. CASE PullDiverged
  BY <1>2 DEF PullDiverged
<1>3. CASE PullFails
  BY <1>3 DEF PullFails
<1>4. CASE CommitFiles
  BY <1>4 DEF CommitFiles, Staged
<1>5. CASE CommitEmpty
  BY <1>5 DEF CommitEmpty
<1>6. CASE StageFails
  BY <1>6 DEF StageFails
<1>7. CASE Push
  BY <1>7 DEF Push
<1>8. CASE PushRejected
  BY <1>8 DEF PushRejected
<1>9. CASE PushFails
  BY <1>9 DEF PushFails
<1>10. CASE PushAckLost
  BY <1>10 DEF PushAckLost
<1> QED
  BY <1>1, <1>2, <1>3, <1>4, <1>5, <1>6, <1>7, <1>8, <1>9, <1>10 DEF CallStep

LEMMA CommitClusterInv ==
  ASSUME GitInv, NEW c, NEW x, CommitCluster(c, x),
         UNCHANGED <<remoteVars, cloneVars, commits>>
  PROVE  GitInv'
BY DEF GitInv, CloneInSync, PushIsPrepared, SuccessIsPublished,
       CommitCluster, remoteVars, cloneVars

LEMMA ReturnInv ==
  ASSUME GitInv, Return, UNCHANGED <<remoteVars, cloneVars, commits>>
  PROVE  GitInv'
BY DEF GitInv, CloneInSync, PushIsPrepared, SuccessIsPublished,
       Return, NoCall, remoteVars, cloneVars

LEMMA OthersPushInv ==
  ASSUME GitInv, OthersPush
  PROVE  GitInv'
BY DEF GitInv, CloneInSync, PushIsPrepared, SuccessIsPublished, OthersPush

LEMMA RecloneInv ==
  ASSUME GitInv, Reclone
  PROVE  GitInv'
BY DEF GitInv, CloneInSync, PushIsPrepared, SuccessIsPublished, Reclone, NoCall, remoteVars

LEMMA UnchangedGitInv ==
  ASSUME GitInv, UNCHANGED gitVars
  PROVE  GitInv'
BY DEF GitInv, CloneInSync, PushIsPrepared, SuccessIsPublished, gitVars

---------------------------------------------------------------------------

LEMMA GitNextInv ==
  ASSUME GitTypeOK, GitInv, [GitNext]_<<gitVars, budget>>
  PROVE  GitTypeOK' /\ GitInv'
<1>1. CASE /\ Spend("call")
           /\ \E c \in Clusters, x \in Contents : CommitCluster(c, x)
           /\ UNCHANGED <<remoteVars, cloneVars, commits>>
  <2>1. budget' \in [Events -> Nat]
    BY <1>1, SpendType DEF GitTypeOK, Events
  <2> QED
    BY <1>1, <2>1, CommitClusterType, CommitClusterInv
<1>2. CASE CallStep
  BY <1>2, CallStepType, CallStepInv
<1>3. CASE Return /\ UNCHANGED <<remoteVars, cloneVars, commits, budget>>
  BY <1>3, ReturnType, ReturnInv
<1>4. CASE OthersPush
  BY <1>4, OthersPushType, OthersPushInv
<1>5. CASE Spend("restart") /\ Reclone
  <2>1. budget' \in [Events -> Nat]
    BY <1>5, SpendType DEF GitTypeOK, Events
  <2> QED
    BY <1>5, <2>1, RecloneType, RecloneInv
<1>6. CASE UNCHANGED <<gitVars, budget>>
  <2>1. budget' \in [Events -> Nat]
    BY <1>6 DEF GitTypeOK
  <2> QED
    BY <1>6, <2>1, UnchangedGitType, UnchangedGitInv
<1> QED
  BY <1>1, <1>2, <1>3, <1>4, <1>5, <1>6 DEF GitNext

\* Every state of the Git client is well typed.
THEOREM GitTypeCorrect == GitSpec => []GitTypeOK
<1>1. GitInit => GitTypeOK /\ GitInv
  BY GitInitType, GitInitInv
<1>2. GitTypeOK /\ GitInv /\ [GitNext]_<<gitVars, budget>> => (GitTypeOK /\ GitInv)'
  BY GitNextInv
<1> QED
  BY <1>1, <1>2, PTL DEF GitSpec

\* A clone with nothing to push or pull equals the remote branch, and a hash
\* that CommitCluster returns names a published commit: for any number of
\* calls, failures, restarts and pushes by others.
THEOREM GitSafety == GitSpec => [](CloneInSync /\ SuccessIsPublished)
<1>1. GitInit => GitTypeOK /\ GitInv
  BY GitInitType, GitInitInv
<1>2. GitTypeOK /\ GitInv /\ [GitNext]_<<gitVars, budget>> => (GitTypeOK /\ GitInv)'
  BY GitNextInv
<1>3. GitInv => CloneInSync /\ SuccessIsPublished
  BY DEF GitInv
<1> QED
  BY <1>1, <1>2, <1>3, PTL DEF GitSpec

---------------------------------------------------------------------------
(* A push undoes nobody's work                                             *)

\* No staging has failed yet.
Undamaged == budget["diskFault"] = Budget["diskFault"]

\* Where the clone's HEAD is not what the remote has, a commit that the remote
\* lacks says so.
OwnChanges == \A c \in Clusters : head[c] # remote[c] => \E m \in ahead : m.cluster = c

\* The clone follows the remote but for its own commits, and nothing is staged
\* outside of them; so that Push may send the whole branch.
Following ==
  /\ budget["diskFault"] <= Budget["diskFault"]
  /\ Undamaged => index = head /\ (~behind => OwnChanges)

\* Events are spent, never gained.
Spending == budget' \in [Events -> Nat] /\ budget'["diskFault"] <= budget["diskFault"]

LEMMA SpendSpends ==
  ASSUME GitTypeOK, NEW event \in Events, Spend(event)
  PROVE  Spending /\ (event = "diskFault" => budget'[event] < budget[event])
BY DEF GitTypeOK, Spend, Spending, Events

LEMMA UnchangedSpends == ASSUME GitTypeOK, UNCHANGED budget PROVE Spending
BY DEF GitTypeOK, Spending, Events

\* What is true before the first failure of the disk stays true until then.
LEMMA StillUndamaged ==
  ASSUME GitTypeOK, Following, Spending
  PROVE  /\ budget'["diskFault"] <= Budget["diskFault"]
         /\ Undamaged' => Undamaged
BY DEF GitTypeOK, Following, Spending, Undamaged, Events

LEMMA CallStepSpends ==
  ASSUME GitTypeOK, CallStep
  PROVE  Spending /\ (StageFails => budget'["diskFault"] < budget["diskFault"])
<1>1. CASE UNCHANGED budget
  BY <1>1, UnchangedSpends DEF StageFails, Spend, GitTypeOK, Events
<1>2. CASE Spend("fault")
  BY <1>2, SpendSpends DEF StageFails, Spend, GitTypeOK, Events
<1>3. CASE StageFails
  BY <1>3, SpendSpends DEF StageFails, Events
<1> QED
  BY <1>1, <1>2, <1>3
  DEF CallStep, Pull, PullDiverged, PullFails, CommitFiles, CommitEmpty,
      Push, PushRejected, PushFails, PushAckLost

LEMMA CallStepFollows ==
  ASSUME GitTypeOK, Following, CallStep
  PROVE  Following'
<1> USE DEF Step, cloneVars, remoteVars, OwnChanges, GitTypeOK, Tree
<1>1. /\ budget'["diskFault"] <= Budget["diskFault"]
      /\ Undamaged' => Undamaged /\ index = head /\ (~behind => OwnChanges)
      /\ StageFails => ~Undamaged'
  <2>1. Spending /\ (StageFails => budget'["diskFault"] < budget["diskFault"])
    BY CallStepSpends
  <2>2. budget["diskFault"] \in Nat /\ Budget["diskFault"] \in Nat /\ budget'["diskFault"] \in Nat
    BY <2>1 DEF Spending, Events
  <2> QED
    BY <2>1, <2>2, StillUndamaged DEF Following, Undamaged
<1>2. ASSUME Undamaged', Undamaged, index = head, ~behind => OwnChanges
      PROVE  index' = head' /\ (~behind' => OwnChanges')
  <2>1. CASE Pull
    BY <1>2, <2>1 DEF Pull
  <2>2. CASE CommitFiles
    <3>1. call.commit \in Commit /\ call.commit.cluster \in Clusters
      BY <2>2 DEF CommitFiles, Commit
    <3>2. head' = [head EXCEPT ![call.commit.cluster] = call.commit.files] /\ index' = head'
      BY <1>2, <2>2 DEF CommitFiles, Staged
    <3>3. ahead' = ahead \union {call.commit} /\ UNCHANGED <<remote, behind>>
      BY <2>2 DEF CommitFiles
    <3> QED
      BY <1>2, <3>1, <3>2, <3>3
  <2>3. CASE CommitEmpty
    BY <1>2, <2>3 DEF CommitEmpty
  <2>4. CASE Push \/ PushAckLost
    BY <1>2, <2>4 DEF Push, PushAckLost
  <2>5. CASE PullDiverged \/ PullFails \/ PushRejected \/ PushFails
    BY <1>2, <2>5 DEF PullDiverged, PullFails, PushRejected, PushFails
  <2>6. ~StageFails
    BY <1>1, <1>2
  <2> QED
    BY <2>1, <2>2, <2>3, <2>4, <2>5, <2>6 DEF CallStep
<1> QED
  BY <1>1, <1>2 DEF Following

\* Everything else that happens around the clone.
LEMMA OthersFollow ==
  ASSUME GitTypeOK, Following, Spending,
         \/ UNCHANGED <<remoteVars, cloneVars>>
         \/ OthersPush
         \/ Reclone
  PROVE  Following'
<1>1. /\ budget'["diskFault"] <= Budget["diskFault"]
      /\ Undamaged' => Undamaged
  BY StillUndamaged
<1>2. Undamaged' => index' = head' /\ (~behind' => OwnChanges')
  BY <1>1 DEF Following, OwnChanges, remoteVars, cloneVars, OthersPush, Reclone
<1> QED
  BY <1>1, <1>2 DEF Following

LEMMA InitFollows == ASSUME GitInit PROVE Following
BY DEF GitInit, Following, OwnChanges, Events

\* Nothing but a push publishes.
LEMMA PushFollows ==
  ASSUME GitTypeOK, Following, CallStep
  PROVE  Undamaged => PushKeepsOut
<1> SUFFICES ASSUME Undamaged, published' # published PROVE PushKeepsOut
  BY DEF PushKeepsOut
<1>1. remote' = head /\ ~behind
  BY DEF CallStep, Pull, PullDiverged, PullFails, CommitFiles, CommitEmpty, StageFails,
         Push, PushRejected, PushFails, PushAckLost, remoteVars
<1> QED
  BY <1>1 DEF PushKeepsOut, Following, OwnChanges

LEMMA GitNextFollows ==
  ASSUME GitTypeOK, Following, [GitNext]_<<gitVars, budget>>
  PROVE  Following' /\ (Undamaged => PushKeepsOut)
<1>1. CASE CallStep
  BY <1>1, CallStepFollows, PushFollows
<1>2. CASE ~CallStep
  <2>1. Spending
    BY <1>2, SpendSpends, UnchangedSpends DEF GitNext, OthersPush, Events
  <2>2. \/ UNCHANGED <<remoteVars, cloneVars>>
        \/ OthersPush
        \/ Reclone
    BY <1>2 DEF GitNext, gitVars, remoteVars, cloneVars
  <2>3. UNCHANGED published
    BY <2>2 DEF remoteVars, OthersPush, Reclone
  <2> QED
    BY <2>1, <2>2, <2>3, OthersFollow DEF PushKeepsOut
<1> QED
  BY <1>1, <1>2

\* Until staging has failed once, a push changes the directories of the clusters
\* whose commits it carries and no others, for any number of calls, failures of
\* the network, restarts and pushes by others (CommitCluster pulls first and does
\* not force its push).
THEOREM PushUndoes == GitSpec => PushUndoesNothing
<1>1. GitInit => GitTypeOK /\ GitInv /\ Following
  BY GitInitType, GitInitInv, InitFollows
<1>2. GitTypeOK /\ GitInv /\ Following /\ [GitNext]_<<gitVars, budget>> =>
        (GitTypeOK /\ GitInv /\ Following)'
  BY GitNextInv, GitNextFollows
<1>3. GitTypeOK /\ Following /\ [GitNext]_<<gitVars, budget>> =>
        [budget["diskFault"] = Budget["diskFault"] => PushKeepsOut]_<<gitVars, budget>>
  BY GitNextFollows DEF Undamaged
<1> QED
  BY <1>1, <1>2, <1>3, PTL DEF GitSpec, PushUndoesNothing
=============================================================================
