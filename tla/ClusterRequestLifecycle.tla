---------------------- MODULE ClusterRequestLifecycle ----------------------
(***************************************************************************)
(* What the operator promises about ClusterRequests, whatever fails: the   *)
(* state machine of status.state as clients of the API see it, and what it *)
(* says about the Git repository.                                          *)
(*                                                                         *)
(*   - a request moves only along the arrows below, and at most            *)
(*     MaxRetries times from failed back to approved;                      *)
(*   - the operator publishes commits only while a request is approved     *)
(*     that has named one of their clusters;                               *)
(*   - a request is committed with a commit that is published, was made    *)
(*     for a cluster it has named, and belongs to no other request.        *)
(*                                                                         *)
(* A user may change the cluster that a request names at any time, during  *)
(* a push as well: the operator answers for what has been named.           *)
(***************************************************************************)
EXTENDS Naturals

CONSTANTS Requests, Clusters, MaxRetries, NoCommit

VARIABLES
  phase,      \* status.state of each request, "absent" when there is none
  retries,    \* how often the request has been retried
  sha,        \* the commit a request is recorded with
  named,      \* clusters that the spec of a request has named
  published   \* commits in the history of the GitOps repository

lifecycleVars == <<phase, retries, sha, named, published>>

LifecycleInit ==
  /\ phase = [r \in Requests |-> "absent"]
  /\ retries = [r \in Requests |-> 0]
  /\ sha = [r \in Requests |-> NoCommit]
  /\ named = [r \in Requests |-> {}]
  /\ published = {}

Goes(r, from, to) == phase[r] \in from /\ phase' = [phase EXCEPT ![r] = to]

Move(r, from, to) == Goes(r, from, to) /\ UNCHANGED <<retries, sha, named, published>>

Names(r, c) == named' = [named EXCEPT ![r] = @ \union {c}]

Appears(r) ==
  /\ Goes(r, {"absent"}, "")
  /\ \E c \in Clusters : Names(r, c)
  /\ UNCHANGED <<retries, sha, published>>

Edited(r) ==
  /\ phase[r] # "absent"
  /\ \E c \in Clusters : Names(r, c)
  /\ UNCHANGED <<phase, retries, sha, published>>

Accepted(r) == Move(r, {""}, "pending")

Approved(r) == Move(r, {"", "pending"}, "approved")

Publishes(r) ==
  /\ phase[r] = "approved"
  /\ published \subseteq published'
  /\ \E m \in published' \ published : m.cluster \in named[r]
  /\ UNCHANGED <<phase, retries, sha, named>>

Committed(r) ==
  /\ Goes(r, {"approved"}, "git-committed")
  /\ \E m \in published :
       /\ m.cluster \in named[r]
       /\ \A q \in Requests \ {r} : sha[q] # m
       /\ sha' = [sha EXCEPT ![r] = m]
  /\ UNCHANGED <<retries, named, published>>

Provisioned(r) == Move(r, {"git-committed"}, "provisioning")

Completes(r) == Move(r, {"provisioning"}, "complete")

Fails(r) == Move(r, {"approved", "provisioning"}, "failed")

Retried(r) ==
  /\ Goes(r, {"failed"}, "approved")
  /\ retries[r] < MaxRetries
  /\ retries' = [retries EXCEPT ![r] = @ + 1]
  /\ UNCHANGED <<sha, named, published>>

Disappears(r) ==
  /\ phase[r] # "absent"
  /\ phase' = [phase EXCEPT ![r] = "absent"]
  /\ retries' = [retries EXCEPT ![r] = 0]
  /\ sha' = [sha EXCEPT ![r] = NoCommit]
  /\ named' = [named EXCEPT ![r] = {}]
  /\ UNCHANGED published

LifecycleNext ==
  \E r \in Requests :
    \/ Appears(r) \/ Edited(r) \/ Accepted(r) \/ Approved(r) \/ Publishes(r) \/ Committed(r)
    \/ Provisioned(r) \/ Completes(r) \/ Fails(r) \/ Retried(r) \/ Disappears(r)

LifecycleSpec == LifecycleInit /\ [][LifecycleNext]_lifecycleVars
=============================================================================
