----------------------------- MODULE SecretCopy -----------------------------
(***************************************************************************)
(* ensureNamespaceAndSecrets of the ClusterRequest reconciler, call by     *)
(* call: the namespace of a cluster is created, and each secret of         *)
(* secretsToCopy is copied into it from the default namespace, or skipped  *)
(* when it is not there.  ClusterRequestController has this as one step.   *)
(*                                                                         *)
(* Gets read the informer caches; Create and Update go to the API server,  *)
(* which refuses to create what exists, to write into a namespace that is  *)
(* gone, to update an old version, and to change the type of a secret.     *)
(* The first error ends the call; the reconciler makes it again.           *)
(***************************************************************************)
EXTENDS Naturals, Sequences

CONSTANTS
  secretsToCopy,  \* names of the secrets, in order
  Data,           \* contents of secrets
  TypeOf,         \* the type that goes with contents
  Missing,        \* there is no such secret
  CopyBudget      \* how often each event of the environment may happen

Names == {secretsToCopy[k] : k \in DOMAIN secretsToCopy}
CopyEvents == {"source", "delete", "fault", "restart", "again"}

ASSUME SecretCopyAssumption ==
  /\ secretsToCopy \in Seq(Names)
  /\ \A j, k \in DOMAIN secretsToCopy : secretsToCopy[j] = secretsToCopy[k] => j = k
  /\ Missing \notin Data
  /\ CopyBudget \in [CopyEvents -> Nat]

Contents == Data \union {Missing}

\* A copy that does not exist keeps the version of its deletion.
Copy == [version : Nat, data : Contents]

NoCopy == [version |-> 0, data |-> Missing]

VARIABLES
  namespace,    \* the cluster's namespace exists
  nsCache,      \* the same, in the informer cache
  source,       \* the secrets of the default namespace
  sourceCache,  \* the same, in the informer cache
  copy,         \* the copies in the cluster's namespace, by source name
  copyCache,    \* the same, in the informer cache
  at,           \* the step the call is at
  next,         \* index of the secret in hand
  found,        \* the source as read
  existing,     \* the copy as read
  result,       \* how the last call ended
  took,         \* history: the contents this call read for each secret
  gone,         \* history: copies that others deleted since the call began
  disturbed,    \* history: something else may have made the call fail
  budget

storeVars   == <<namespace, source, copy>>
cacheVars   == <<nsCache, sourceCache, copyCache>>
historyVars == <<took, gone, disturbed>>
vars == <<storeVars, cacheVars, at, next, found, existing, result, historyVars, budget>>

Calls == {"createNamespace", "createCopy", "updateCopy"}
OnSecret == {"getCopy", "createCopy", "updateCopy"}

\* A secret in hand was found; a copy about to be updated was found, too; and
\* copies are in the namespace.
CopyTypeOK ==
  /\ namespace \in BOOLEAN /\ nsCache \in BOOLEAN
  /\ source \in [Names -> Contents] /\ sourceCache \in [Names -> Contents]
  /\ copy \in [Names -> Copy] /\ copyCache \in [Names -> Copy]
  /\ at \in {"idle", "getNamespace", "getSource"} \union Calls \union OnSecret
  /\ next \in 1..(Len(secretsToCopy) + 1)
  /\ at \in OnSecret => /\ next \in DOMAIN secretsToCopy /\ found \in Data
                        /\ took[secretsToCopy[next]] = found
  /\ found \in Contents /\ existing \in Copy
  /\ at = "updateCopy" => existing.data # Missing
  /\ \A s \in Names : copy[s].data # Missing => namespace
  /\ result \in {"none", "ok", "error"}
  /\ took \in [Names -> Contents] /\ gone \in SUBSET Names /\ disturbed \in BOOLEAN
  /\ budget \in [CopyEvents -> Nat]

NothingTaken == [s \in Names |-> Missing]

Init ==
  /\ namespace = FALSE /\ nsCache = FALSE
  /\ source \in [Names -> Contents] /\ sourceCache = source
  /\ copy = [s \in Names |-> NoCopy] /\ copyCache = copy
  /\ at = "idle" /\ next = 1 /\ found = Missing /\ existing = NoCopy
  /\ result = "none"
  /\ took = NothingTaken /\ gone = {} /\ disturbed = FALSE
  /\ budget = CopyBudget

Spend(event) ==
  /\ budget[event] > 0
  /\ budget' = [budget EXCEPT ![event] = @ - 1]

---------------------------------------------------------------------------
(* The call                                                                *)

\* The call is over, and with it its variables.
Rest == at' = "idle" /\ found' = Missing /\ existing' = NoCopy

Call ==
  /\ at = "idle"
  /\ at' = "getNamespace" /\ next' = 1 /\ result' = "none"
  /\ took' = NothingTaken /\ gone' = {}
  /\ disturbed' = (nsCache # namespace \/ copyCache # copy)
  /\ UNCHANGED <<storeVars, cacheVars, found, existing>>

\* The reconciler calls until a call succeeds, and again for another attempt
\* or another request.
Begin == Call /\ result # "ok" /\ UNCHANGED budget
BeginAgain == Call /\ result = "ok" /\ Spend("again")

\* Mutant of GetNamespace: it is created without a look.
GetNamespaceUnseen ==
  /\ at = "getNamespace"
  /\ at' = "createNamespace"
  /\ UNCHANGED <<storeVars, cacheVars, next, found, existing, result, historyVars, budget>>

GetNamespace ==
  /\ at = "getNamespace"
  /\ at' = IF nsCache THEN "getSource" ELSE "createNamespace"
  /\ UNCHANGED <<storeVars, cacheVars, next, found, existing, result, historyVars, budget>>

Name == secretsToCopy[next]

\* Mutant of GetSource: a missing source is not skipped.
GetSourceUnchecked ==
  /\ at = "getSource" /\ next \in DOMAIN secretsToCopy
  /\ found' = sourceCache[Name]
  /\ took' = [took EXCEPT ![Name] = found']
  /\ at' = "getCopy" /\ UNCHANGED next
  /\ UNCHANGED <<storeVars, cacheVars, existing, result, gone, disturbed, budget>>

GetSource ==
  /\ at = "getSource" /\ next \in DOMAIN secretsToCopy
  /\ found' = sourceCache[Name]
  /\ took' = [took EXCEPT ![Name] = found']
  /\ IF found' = Missing THEN next' = next + 1 /\ UNCHANGED at
                         ELSE at' = "getCopy" /\ UNCHANGED next
  /\ UNCHANGED <<storeVars, cacheVars, existing, result, gone, disturbed, budget>>

\* Mutant of GetCopy: a copy is always created.
GetCopyUnseen ==
  /\ at = "getCopy"
  /\ existing' = copyCache[Name]
  /\ at' = "createCopy"
  /\ UNCHANGED <<storeVars, cacheVars, next, found, result, historyVars, budget>>

GetCopy ==
  /\ at = "getCopy"
  /\ existing' = copyCache[Name]
  /\ at' = IF existing'.data = Missing THEN "createCopy" ELSE "updateCopy"
  /\ UNCHANGED <<storeVars, cacheVars, next, found, result, historyVars, budget>>

Succeeds ==
  /\ at = "getSource" /\ next = Len(secretsToCopy) + 1
  /\ Rest /\ result' = "ok"
  /\ UNCHANGED <<storeVars, cacheVars, next, historyVars, budget>>

Fail == Rest /\ next' = 1 /\ result' = "error" /\ UNCHANGED <<took, gone>>

\* Mutant of Accepted: the update is sent without the version that was read.
AcceptedUnversioned ==
  \/ at = "createNamespace" /\ ~namespace
  \/ at = "createCopy" /\ namespace /\ copy[Name].data = Missing
  \/ /\ at = "updateCopy"
     /\ copy[Name].data # Missing /\ TypeOf[copy[Name].data] = TypeOf[found]

\* The API server takes the call at hand.
Accepted ==
  \/ at = "createNamespace" /\ ~namespace
  \/ at = "createCopy" /\ namespace /\ copy[Name].data = Missing
  \/ /\ at = "updateCopy"
     /\ copy[Name].data # Missing /\ copy[Name].version = existing.version
     /\ TypeOf[copy[Name].data] = TypeOf[found]

\* Mutant of Applied: an update sends the copy as it was read.
AppliedUnassigned ==
  /\ namespace' = (namespace \/ at = "createNamespace")
  /\ copy' = IF at = "createCopy"
             THEN [copy EXCEPT ![Name] = [version |-> @.version + 1, data |-> found]]
             ELSE copy
  /\ UNCHANGED source

\* A write that changes nothing leaves the version alone.
Applied ==
  /\ namespace' = (namespace \/ at = "createNamespace")
  /\ copy' = IF at \in OnSecret /\ copy[Name].data # found
             THEN [copy EXCEPT ![Name] = [version |-> @.version + 1, data |-> found]]
             ELSE copy
  /\ UNCHANGED source

CallDone ==
  /\ at \in Calls
  /\ Accepted
  /\ Applied
  /\ at' = "getSource"
  /\ next' = IF at = "createNamespace" THEN next ELSE next + 1
  /\ UNCHANGED <<cacheVars, found, existing, result, historyVars, budget>>

CallRefused ==
  /\ at \in Calls
  /\ ~Accepted
  /\ Fail
  /\ UNCHANGED <<storeVars, cacheVars, disturbed, budget>>

\* The call fails, or it is done and the reply is lost.
CallFails ==
  /\ at \in Calls
  /\ Spend("fault")
  /\ \/ UNCHANGED storeVars
     \/ Accepted /\ Applied
  /\ Fail
  /\ disturbed' = TRUE
  /\ UNCHANGED cacheVars

Worker ==
  \/ Begin \/ GetNamespace \/ GetSource \/ GetCopy \/ Succeeds
  \/ CallDone \/ CallRefused \/ CallFails

---------------------------------------------------------------------------
(* The process and the others                                              *)

WatchNamespaces ==
  /\ nsCache # namespace
  /\ nsCache' = namespace
  /\ UNCHANGED <<storeVars, sourceCache, copyCache, at, next, found, existing, result,
                 historyVars, budget>>

\* One informer watches the secrets of all namespaces.
WatchSecrets ==
  /\ <<sourceCache, copyCache>> # <<source, copy>>
  /\ sourceCache' = source /\ copyCache' = copy
  /\ UNCHANGED <<storeVars, nsCache, at, next, found, existing, result, historyVars, budget>>

Restart ==
  /\ Spend("restart")
  /\ nsCache' = namespace /\ sourceCache' = source /\ copyCache' = copy
  /\ Rest /\ next' = 1 /\ result' = "none"
  /\ took' = NothingTaken /\ gone' = {} /\ disturbed' = FALSE
  /\ UNCHANGED storeVars

\* Administrators add, rotate and remove the source secrets.
ChangeSource(s, d) ==
  /\ d # source[s]
  /\ Spend("source")
  /\ source' = [source EXCEPT ![s] = d]
  /\ UNCHANGED <<namespace, copy, cacheVars, at, next, found, existing, result, historyVars>>

\* Users delete some copies, or the namespace with all of them.
DeleteCopies(S) ==
  /\ S # {}
  /\ Spend("delete")
  /\ namespace' \in {namespace, FALSE}
  /\ ~namespace' => S = Names
  /\ copy' = [s \in Names |-> IF s \in S /\ copy[s].data # Missing
                              THEN [version |-> copy[s].version + 1, data |-> Missing]
                              ELSE copy[s]]
  /\ gone' = gone \union S
  /\ disturbed' = TRUE
  /\ UNCHANGED <<source, cacheVars, at, next, found, existing, result, took>>

Next ==
  \/ Worker \/ BeginAgain
  \/ WatchNamespaces \/ WatchSecrets \/ Restart
  \/ \E s \in Names, d \in Contents : ChangeSource(s, d)
  \/ \E S \in SUBSET Names : DeleteCopies(S)

Spec == Init /\ [][Next]_vars

\* The call goes on and is made again after an error; the informers deliver.
FairSpec ==
  /\ Spec
  /\ WF_vars(Worker) /\ WF_vars(WatchNamespaces) /\ WF_vars(WatchSecrets)

---------------------------------------------------------------------------
(* Properties                                                              *)

\* What the operator has read: its caches, and what the running call holds.
sourcesRead == {<<s, sourceCache[s]>> : s \in Names}
                 \union (IF at \in OnSecret THEN {<<Name, found>>} ELSE {})
copiesRead  == {<<s, copyCache[s]>> : s \in Names}
                 \union (IF at = "updateCopy" THEN {<<Name, existing>>} ELSE {})

Mirror == INSTANCE SecretMirror

\* Lagging caches, calls cut short anywhere and repeated, and lost replies come to
\* what SecretMirror says: each write puts what was read from the source, into a
\* copy that was read as it is (ensureNamespaceAndSecrets).
ImplementsMirror == Mirror!MirrorSpec

\* What a call has done is there: the namespace, and each secret before the
\* one in hand with the contents that the call read, unless somebody deleted
\* it or its source was missing.  At the end this is what the condition
\* NamespaceCreated tells; an interrupted call, a lost reply or a cache that
\* lags does not make it untrue.
CopiedAsRead ==
  at \in {"getSource"} \union OnSecret \/ result = "ok" =>
    /\ namespace \/ disturbed
    /\ \A k \in 1..(next - 1) :
         LET s == secretsToCopy[k] IN
         took[s] = Missing \/ s \in gone \/ copy[s].data = took[s]

\* A source whose type is no longer that of its copy.
Retyped(contents) ==
  \E s \in Names : /\ contents[s] # Missing /\ copy[s].data # Missing
                   /\ TypeOf[contents[s]] # TypeOf[copy[s].data]

\* A call fails only when a call of the API server failed, others deleted
\* something, the caches did not know what earlier calls had written, or a
\* source came back with another type, which an update cannot change.  In
\* particular what an interrupted call left behind is no obstacle.
FailsForCause == result = "error" => disturbed \/ Retyped(took)

\* Called until it succeeds, it succeeds: stale caches and partial copies do
\* not keep it failing.
CallSucceeds == at # "idle" ~> result = "ok" \/ Retyped(source)
=============================================================================
