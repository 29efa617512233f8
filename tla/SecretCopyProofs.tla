-------------------------- MODULE SecretCopyProofs --------------------------
(***************************************************************************)
(* Theorems about SecretCopy, for any list of secrets, contents, types and *)
(* budget: what a call has done is there, it fails for a cause only, and   *)
(* it implements SecretMirror.                                             *)
(***************************************************************************)
EXTENDS SecretCopy, TLAPS

\* What an undisturbed call knows: its reads of the caches told what the API
\* server has, for the namespace and for the secrets it has not written yet.
Known ==
  at # "idle" /\ ~disturbed =>
    /\ at = "getNamespace" => nsCache = namespace
    /\ at = "createNamespace" => ~namespace
    /\ at \notin {"getNamespace", "createNamespace"} => namespace
    /\ \A k \in DOMAIN secretsToCopy :
         k >= next => copyCache[secretsToCopy[k]] = copy[secretsToCopy[k]]
    /\ at \in {"createCopy", "updateCopy"} =>
         /\ existing = copy[Name]
         /\ at = "createCopy" <=> existing.data = Missing

\* A call under way has no result yet, and no secret in hand at first.
Underway ==
  at # "idle" =>
    /\ result = "none"
    /\ at \in {"getNamespace", "createNamespace"} => next = 1

CopyInv == CopyTypeOK /\ CopiedAsRead /\ FailsForCause /\ Known /\ Underway

\* The list of secrets (secretsToCopy) is a sequence of different names.
LEMMA SecretList ==
  /\ Len(secretsToCopy) \in Nat
  /\ DOMAIN secretsToCopy = 1..Len(secretsToCopy)
  /\ \A k \in DOMAIN secretsToCopy : secretsToCopy[k] \in Names
  /\ \A j, k \in DOMAIN secretsToCopy : secretsToCopy[j] = secretsToCopy[k] => j = k
  BY SecretCopyAssumption DEF SecretCopyAssumption, Names

\* The initial states satisfy the invariant.
LEMMA InitCopy == Init => CopyInv
  <1> SUFFICES ASSUME Init PROVE CopyInv
    OBVIOUS
  <1>1. NoCopy \in Copy /\ NothingTaken \in [Names -> Contents]
    BY DEF NoCopy, Copy, Contents, NothingTaken
  <1>2. copy \in [Names -> Copy] /\ \A s \in Names : copy[s].data = Missing
    BY <1>1 DEF Init, NoCopy
  <1>3. CopyTypeOK
    <2>1. Missing \in Contents /\ 1 \in 1..(Len(secretsToCopy) + 1) /\ "idle" \notin OnSecret
      BY SecretList DEF Contents, OnSecret
    <2>2. budget \in [CopyEvents -> Nat]
      BY SecretCopyAssumption DEF Init, SecretCopyAssumption
    <2> QED
      BY <1>1, <1>2, <2>1, <2>2 DEF Init, CopyTypeOK
  <1>4. CopiedAsRead /\ FailsForCause /\ Known /\ Underway
    BY DEF Init, Underway, CopiedAsRead, FailsForCause, Known, OnSecret
  <1> QED
    BY <1>3, <1>4 DEF CopyInv

\* An event of the environment is one of those that are counted.
LEMMA SpendTyped ==
  ASSUME budget \in [CopyEvents -> Nat], NEW e \in CopyEvents, Spend(e)
  PROVE  budget' \in [CopyEvents -> Nat]
  BY DEF Spend

\* The events by name.
LEMMA Counted == \A e \in {"source", "delete", "fault", "restart", "again"} : e \in CopyEvents
  BY DEF CopyEvents

\* A write that is taken: the namespace is there, the copy in hand has the
\* contents of the source as read, and the other copies are as they were.
LEMMA AppliedFacts ==
  ASSUME CopyInv, at \in Calls, Accepted, Applied
  PROVE  /\ namespace' = TRUE
         /\ copy' \in [Names -> Copy]
         /\ source' = source
         /\ at \in OnSecret => Name \in Names /\ copy'[Name].data = found
         /\ \A s \in Names : copy'[s] = copy[s] \/ (at \in OnSecret /\ s = Name)
  <1> USE SecretList
  <1>1. namespace'
    BY DEF Applied, Accepted, CopyInv, CopyTypeOK, Calls, OnSecret, Name
  <1>2. CASE at \in OnSecret /\ copy[Name].data # found
    <2>1. /\ Name \in Names /\ found \in Data
          /\ copy' = [copy EXCEPT ![Name] = [version |-> copy[Name].version + 1, data |-> found]]
      BY <1>2 DEF Applied, CopyInv, CopyTypeOK, Name
    <2>2. [version |-> copy[Name].version + 1, data |-> found] \in Copy
      BY <2>1 DEF CopyInv, CopyTypeOK, Copy, Contents
    <2> QED
      BY <1>1, <1>2, <2>1, <2>2 DEF Applied, CopyInv, CopyTypeOK
  <1>3. CASE ~(at \in OnSecret /\ copy[Name].data # found)
    BY <1>1, <1>3 DEF Applied, CopyInv, CopyTypeOK, Name
  <1> QED
    BY <1>2, <1>3

\* A call begins with what the caches say.
LEMMA CallKeeps ==
  ASSUME CopyInv, Call, UNCHANGED budget \/ Spend("again")
  PROVE  CopyInv'
  <1> USE SecretList
  <1>1. CopyTypeOK'
    BY SpendTyped, Counted
    DEF Call, storeVars, cacheVars, historyVars, CopyInv, CopyTypeOK, Copy, NoCopy, Contents,
        NothingTaken, Name, Calls, OnSecret
  <1>2. CopiedAsRead'
    BY DEF Call, storeVars, cacheVars, historyVars, CopyInv, CopyTypeOK, CopiedAsRead, Underway,
           OnSecret, Name
  <1>3. FailsForCause'
    BY DEF Call, storeVars, cacheVars, historyVars, CopyInv, FailsForCause, Retyped
  <1>4. Known'
    BY DEF Call, storeVars, cacheVars, historyVars, CopyInv, CopyTypeOK, Underway, Known, Calls,
           OnSecret, Name
  <1>5. Underway'
    BY DEF Call, storeVars, cacheVars, historyVars, CopyInv, Underway, Calls, OnSecret
  <1> QED
    BY <1>1, <1>2, <1>3, <1>4, <1>5 DEF CopyInv

\* The look at the namespace.
LEMMA GetNamespaceKeeps ==
  ASSUME CopyInv, GetNamespace
  PROVE  CopyInv'
  <1> USE SecretList
  <1>1. CopyTypeOK'
    BY SpendTyped, Counted
    DEF GetNamespace, storeVars, cacheVars, historyVars, CopyInv, CopyTypeOK, Copy, NoCopy,
        Contents, NothingTaken, Name, Calls, OnSecret
  <1>2. CopiedAsRead'
    BY DEF GetNamespace, storeVars, cacheVars, historyVars, CopyInv, CopyTypeOK, CopiedAsRead,
           Underway, Known, OnSecret, Name
  <1>3. FailsForCause'
    BY DEF GetNamespace, storeVars, cacheVars, historyVars, CopyInv, CopyTypeOK, FailsForCause,
           Underway, Retyped
  <1>4. Known'
    BY DEF GetNamespace, storeVars, cacheVars, historyVars, CopyInv, CopyTypeOK, Underway,
           Known, Calls, OnSecret, Name
  <1>5. Underway'
    BY DEF GetNamespace, storeVars, cacheVars, historyVars, CopyInv, Underway, Calls, OnSecret
  <1> QED
    BY <1>1, <1>2, <1>3, <1>4, <1>5 DEF CopyInv

\* A source is read, or skipped.
LEMMA GetSourceKeeps ==
  ASSUME CopyInv, GetSource
  PROVE  CopyInv'
  <1> USE SecretList
  <1>1. CopyTypeOK'
    BY SpendTyped, Counted
    DEF GetSource, storeVars, cacheVars, historyVars, CopyInv, CopyTypeOK, Copy, NoCopy,
        Contents, NothingTaken, Name, Calls, OnSecret
  <1>2. CopiedAsRead'
    BY DEF GetSource, storeVars, cacheVars, historyVars, CopyInv, CopyTypeOK, CopiedAsRead,
           Underway, OnSecret, Name
  <1>3. FailsForCause'
    BY DEF GetSource, storeVars, cacheVars, historyVars, CopyInv, CopyTypeOK, FailsForCause,
           Underway, Retyped
  <1>4. Known'
    <2>1. at' \in {"getSource", "getCopy"} /\ next' \in Nat /\ next' >= next
      BY DEF GetSource, CopyInv, CopyTypeOK
    <2>2. at # "idle" /\ at \notin {"getNamespace", "createNamespace"}
      BY DEF GetSource
    <2>3. ~disturbed => namespace /\ \A k \in DOMAIN secretsToCopy :
                          k >= next => copyCache[secretsToCopy[k]] = copy[secretsToCopy[k]]
      BY <2>2 DEF CopyInv, Known
    <2>4. UNCHANGED <<namespace, copy, copyCache, disturbed>>
      BY DEF GetSource, storeVars, cacheVars
    <2>5. \A k \in DOMAIN secretsToCopy : k >= next' => k >= next
      BY <2>1 DEF CopyInv, CopyTypeOK
    <2> QED
      BY <2>1, <2>3, <2>4, <2>5 DEF Known
  <1>5. Underway'
    BY DEF GetSource, storeVars, cacheVars, historyVars, CopyInv, Underway, Calls, OnSecret
  <1> QED
    BY <1>1, <1>2, <1>3, <1>4, <1>5 DEF CopyInv

\* A copy is looked up.
LEMMA GetCopyKeeps ==
  ASSUME CopyInv, GetCopy
  PROVE  CopyInv'
  <1> USE SecretList
  <1>1. CopyTypeOK'
    BY SpendTyped, Counted
    DEF GetCopy, storeVars, cacheVars, historyVars, CopyInv, CopyTypeOK, Copy, NoCopy, Contents,
        NothingTaken, Name, Calls, OnSecret
  <1>2. CopiedAsRead'
    BY DEF GetCopy, storeVars, cacheVars, historyVars, CopyInv, CopyTypeOK, CopiedAsRead,
           Underway, OnSecret, Name
  <1>3. FailsForCause'
    BY DEF GetCopy, storeVars, cacheVars, historyVars, CopyInv, CopyTypeOK, FailsForCause,
           Underway, Retyped
  <1>4. Known'
    BY DEF GetCopy, storeVars, cacheVars, historyVars, CopyInv, CopyTypeOK, Underway, Known,
           Calls, OnSecret, Name
  <1>5. Underway'
    BY DEF GetCopy, storeVars, cacheVars, historyVars, CopyInv, Underway, Calls, OnSecret
  <1> QED
    BY <1>1, <1>2, <1>3, <1>4, <1>5 DEF CopyInv

\* The call returns success.
LEMMA SucceedsKeeps ==
  ASSUME CopyInv, Succeeds
  PROVE  CopyInv'
  <1> USE SecretList
  <1>1. CopyTypeOK'
    BY SpendTyped, Counted
    DEF Succeeds, Rest, storeVars, cacheVars, historyVars, CopyInv, CopyTypeOK, Copy, NoCopy,
        Contents, NothingTaken, Name, Calls, OnSecret
  <1>2. CopiedAsRead'
    BY DEF Succeeds, Rest, storeVars, cacheVars, historyVars, CopyInv, CopyTypeOK, CopiedAsRead,
           Underway, OnSecret, Name
  <1>3. FailsForCause'
    BY DEF Succeeds, Rest, storeVars, cacheVars, historyVars, CopyInv, CopyTypeOK,
           FailsForCause, Underway, Retyped
  <1>4. Known'
    BY DEF Succeeds, Rest, storeVars, cacheVars, historyVars, CopyInv, CopyTypeOK, Underway,
           Known, Calls, OnSecret, Name
  <1>5. Underway'
    BY DEF Succeeds, Rest, storeVars, cacheVars, historyVars, CopyInv, Underway, Calls, OnSecret
  <1> QED
    BY <1>1, <1>2, <1>3, <1>4, <1>5 DEF CopyInv

\* The API server does what it is asked.
LEMMA CallDoneKeeps ==
  ASSUME CopyInv, CallDone
  PROVE  CopyInv'
  <1> USE SecretList
  <1>1. CopyTypeOK'
    <2>1. next' \in 1..(Len(secretsToCopy) + 1)
      BY DEF CallDone, CopyInv, CopyTypeOK, Calls, OnSecret
    <2>2. \A s \in Names : copy'[s].data # Missing => namespace'
      BY AppliedFacts DEF CallDone
    <2>3. at' \notin OnSecret
      BY DEF CallDone, OnSecret
    <2> QED
      BY <2>1, <2>2, <2>3, AppliedFacts
      DEF CallDone, cacheVars, historyVars, CopyInv, CopyTypeOK, OnSecret
  <1>2. CopiedAsRead'
    <2>1. ASSUME NEW k \in 1..(next' - 1), took[secretsToCopy[k]] # Missing,
                 secretsToCopy[k] \notin gone
          PROVE  copy'[secretsToCopy[k]].data = took[secretsToCopy[k]]
      <3>1. CASE k \in 1..(next - 1)
        <4>1. at \in OnSecret /\ next' = next + 1
          BY <2>1, <3>1 DEF CallDone, CopyInv, Underway, Calls, OnSecret
        <4>2. copy[secretsToCopy[k]].data = took[secretsToCopy[k]]
          BY <2>1, <3>1, <4>1 DEF CopyInv, CopiedAsRead
        <4>3. secretsToCopy[k] # Name /\ secretsToCopy[k] \in Names
          BY <3>1, <4>1 DEF CopyInv, CopyTypeOK, Name
        <4> QED
          BY <4>2, <4>3, AppliedFacts DEF CallDone
      <3>2. CASE k \notin 1..(next - 1)
        <4>1. at \in OnSecret /\ k = next
          BY <2>1, <3>2 DEF CallDone, CopyInv, CopyTypeOK, Underway, Calls, OnSecret
        <4> QED
          BY <4>1, AppliedFacts DEF CallDone, CopyInv, CopyTypeOK, Name
      <3> QED
        BY <3>1, <3>2
    <2> QED
      BY <2>1, AppliedFacts DEF CallDone, historyVars, CopiedAsRead
  <1>3. FailsForCause'
    BY DEF CallDone, historyVars, CopyInv, FailsForCause, Underway, Calls, OnSecret
  <1>4. Known'
    <2>1. ASSUME ~disturbed, NEW k \in DOMAIN secretsToCopy, k >= next'
          PROVE  copyCache[secretsToCopy[k]] = copy'[secretsToCopy[k]]
      <3>1. copyCache[secretsToCopy[k]] = copy[secretsToCopy[k]]
        BY <2>1 DEF CallDone, CopyInv, CopyTypeOK, Known, Calls
      <3>2. ~(at \in OnSecret /\ secretsToCopy[k] = Name)
        BY <2>1 DEF CallDone, CopyInv, CopyTypeOK, Name, OnSecret
      <3> QED
        BY <3>1, <3>2, AppliedFacts DEF CallDone
    <2> QED
      BY <2>1, AppliedFacts DEF CallDone, cacheVars, historyVars, Known
  <1>5. Underway'
    BY DEF CallDone, Accepted, Applied, storeVars, cacheVars, historyVars, CopyInv, CopyTypeOK,
           Underway, Calls, OnSecret
  <1> QED
    BY <1>1, <1>2, <1>3, <1>4, <1>5 DEF CopyInv

\* The API server refuses: something has disturbed the call.
LEMMA CallRefusedKeeps ==
  ASSUME CopyInv, CallRefused
  PROVE  CopyInv'
  <1> USE SecretList
  <1>1. CopyTypeOK'
    BY SpendTyped, Counted
    DEF CallRefused, Accepted, Fail, Rest, storeVars, cacheVars, historyVars, CopyInv,
        CopyTypeOK, Copy, NoCopy, Contents, NothingTaken, Name, Calls, OnSecret
  <1>2. CopiedAsRead'
    BY DEF CallRefused, Accepted, Fail, Rest, storeVars, cacheVars, historyVars, CopyInv,
           CopyTypeOK, CopiedAsRead, Underway, OnSecret, Name
  <1>3. FailsForCause'
    <2>1. CASE disturbed
      BY <2>1 DEF CallRefused, FailsForCause
    <2>2. CASE ~disturbed
      <3>1. /\ at = "updateCopy" /\ Name \in Names
            /\ took[Name] = found /\ found # Missing /\ copy[Name].data # Missing
            /\ TypeOf[copy[Name].data] # TypeOf[found]
        BY <2>2, SecretCopyAssumption
        DEF CallRefused, Accepted, CopyInv, CopyTypeOK, Known, Calls, OnSecret, Name,
            SecretCopyAssumption
      <3>2. Retyped(took)
        BY <3>1 DEF Retyped
      <3> QED
        BY <3>2 DEF CallRefused, Fail, storeVars, FailsForCause, Retyped
    <2> QED
      BY <2>1, <2>2
  <1>4. Known'
    BY DEF CallRefused, Accepted, Fail, Rest, storeVars, cacheVars, historyVars, CopyInv,
           CopyTypeOK, Underway, Known, Calls, OnSecret, Name
  <1>5. Underway'
    BY DEF CallRefused, Accepted, Fail, Rest, storeVars, cacheVars, historyVars, CopyInv,
           Underway, Calls, OnSecret
  <1> QED
    BY <1>1, <1>2, <1>3, <1>4, <1>5 DEF CopyInv

\* A failure, with or without effect.
LEMMA CallFailsKeeps ==
  ASSUME CopyInv, CallFails
  PROVE  CopyInv'
  <1> USE SecretList
  <1>1. CopyTypeOK'
    <2>1. namespace' \in BOOLEAN /\ copy' \in [Names -> Copy] /\ source' = source
      BY AppliedFacts DEF CallFails, storeVars, CopyInv, CopyTypeOK
    <2>2. \A s \in Names : copy'[s].data # Missing => namespace'
      <3>1. CASE UNCHANGED storeVars
        BY <3>1 DEF storeVars, CopyInv, CopyTypeOK
      <3>2. CASE Accepted /\ Applied
        BY <3>2, AppliedFacts DEF CallFails
      <3> QED
        BY <3>1, <3>2 DEF CallFails
    <2>3. budget' \in [CopyEvents -> Nat]
      BY SpendTyped, Counted DEF CallFails, CopyInv, CopyTypeOK
    <2> QED
      BY <2>1, <2>2, <2>3
      DEF CallFails, Fail, Rest, cacheVars, CopyInv, CopyTypeOK, OnSecret, Contents, NoCopy,
          Copy
  <1>2. CopiedAsRead'
    BY DEF CallFails, Accepted, Applied, Fail, Rest, storeVars, cacheVars, historyVars, CopyInv,
           CopyTypeOK, CopiedAsRead, Underway, OnSecret, Name
  <1>3. FailsForCause'
    BY DEF CallFails, Accepted, Applied, Fail, Rest, storeVars, cacheVars, historyVars, CopyInv,
           CopyTypeOK, FailsForCause, Underway, Retyped
  <1>4. Known'
    BY DEF CallFails, Accepted, Applied, Fail, Rest, storeVars, cacheVars, historyVars, CopyInv,
           CopyTypeOK, Underway, Known, Calls, OnSecret, Name
  <1>5. Underway'
    BY DEF CallFails, Accepted, Applied, Fail, Rest, storeVars, cacheVars, historyVars, CopyInv,
           Underway, Calls, OnSecret
  <1> QED
    BY <1>1, <1>2, <1>3, <1>4, <1>5 DEF CopyInv

\* The namespace reaches the cache.
LEMMA WatchNamespacesKeeps ==
  ASSUME CopyInv, WatchNamespaces
  PROVE  CopyInv'
  <1> USE SecretList
  <1>1. CopyTypeOK'
    BY SpendTyped, Counted
    DEF WatchNamespaces, storeVars, cacheVars, historyVars, CopyInv, CopyTypeOK, Copy, NoCopy,
        Contents, NothingTaken, Name, Calls, OnSecret
  <1>2. CopiedAsRead'
    BY DEF WatchNamespaces, storeVars, cacheVars, historyVars, CopyInv, CopyTypeOK,
           CopiedAsRead, Underway, OnSecret, Name
  <1>3. FailsForCause'
    BY DEF WatchNamespaces, storeVars, cacheVars, historyVars, CopyInv, CopyTypeOK,
           FailsForCause, Underway, Retyped
  <1>4. Known'
    BY DEF WatchNamespaces, storeVars, cacheVars, historyVars, CopyInv, CopyTypeOK, Underway,
           Known, Calls, OnSecret, Name
  <1>5. Underway'
    BY DEF WatchNamespaces, storeVars, cacheVars, historyVars, CopyInv, Underway, Calls,
           OnSecret
  <1> QED
    BY <1>1, <1>2, <1>3, <1>4, <1>5 DEF CopyInv

\* The secrets reach the cache.
LEMMA WatchSecretsKeeps ==
  ASSUME CopyInv, WatchSecrets
  PROVE  CopyInv'
  <1> USE SecretList
  <1>1. CopyTypeOK'
    BY SpendTyped, Counted
    DEF WatchSecrets, storeVars, cacheVars, historyVars, CopyInv, CopyTypeOK, Copy, NoCopy,
        Contents, NothingTaken, Name, Calls, OnSecret
  <1>2. CopiedAsRead'
    BY DEF WatchSecrets, storeVars, cacheVars, historyVars, CopyInv, CopyTypeOK, CopiedAsRead,
           Underway, OnSecret, Name
  <1>3. FailsForCause'
    BY DEF WatchSecrets, storeVars, cacheVars, historyVars, CopyInv, CopyTypeOK, FailsForCause,
           Underway, Retyped
  <1>4. Known'
    BY DEF WatchSecrets, storeVars, cacheVars, historyVars, CopyInv, CopyTypeOK, Underway,
           Known, Calls, OnSecret, Name
  <1>5. Underway'
    BY DEF WatchSecrets, storeVars, cacheVars, historyVars, CopyInv, Underway, Calls, OnSecret
  <1> QED
    BY <1>1, <1>2, <1>3, <1>4, <1>5 DEF CopyInv

\* A new process.
LEMMA RestartKeeps ==
  ASSUME CopyInv, Restart
  PROVE  CopyInv'
  <1> USE SecretList
  <1>1. CopyTypeOK'
    <2>1. budget' \in [CopyEvents -> Nat]
      BY SpendTyped, Counted DEF Restart, CopyInv, CopyTypeOK
    <2>2. NothingTaken \in [Names -> Contents] /\ NoCopy \in Copy /\ Missing \in Contents
      BY DEF NothingTaken, NoCopy, Copy, Contents
    <2>3. 1 \in 1..(Len(secretsToCopy) + 1) /\ "idle" \notin OnSecret
      BY DEF OnSecret
    <2> QED
      BY <2>1, <2>2, <2>3 DEF Restart, Rest, storeVars, CopyInv, CopyTypeOK
  <1>2. CopiedAsRead'
    BY DEF Restart, Rest, storeVars, cacheVars, historyVars, CopyInv, CopyTypeOK, CopiedAsRead,
           Underway, OnSecret, Name
  <1>3. FailsForCause'
    BY DEF Restart, Rest, storeVars, cacheVars, historyVars, CopyInv, FailsForCause, Retyped
  <1>4. Known'
    BY DEF Restart, Rest, storeVars, cacheVars, historyVars, CopyInv, CopyTypeOK, Underway,
           Known, Calls, OnSecret, Name
  <1>5. Underway'
    BY DEF Restart, Rest, storeVars, cacheVars, historyVars, CopyInv, Underway, Calls, OnSecret
  <1> QED
    BY <1>1, <1>2, <1>3, <1>4, <1>5 DEF CopyInv

\* A source changes.
LEMMA ChangeSourceKeeps ==
  ASSUME CopyInv, NEW s \in Names, NEW d \in Contents, ChangeSource(s, d)
  PROVE  CopyInv'
  <1> USE SecretList
  <1>1. CopyTypeOK'
    BY SpendTyped, Counted
    DEF ChangeSource, storeVars, cacheVars, historyVars, CopyInv, CopyTypeOK, Copy, NoCopy,
        Contents, NothingTaken, Name, Calls, OnSecret
  <1>2. CopiedAsRead'
    BY DEF ChangeSource, storeVars, cacheVars, historyVars, CopyInv, CopyTypeOK, CopiedAsRead,
           Underway, OnSecret, Name
  <1>3. FailsForCause'
    BY DEF ChangeSource, storeVars, cacheVars, historyVars, CopyInv, CopyTypeOK, FailsForCause,
           Underway, Retyped
  <1>4. Known'
    BY DEF ChangeSource, storeVars, cacheVars, historyVars, CopyInv, CopyTypeOK, Underway,
           Known, Calls, OnSecret, Name
  <1>5. Underway'
    BY DEF ChangeSource, storeVars, cacheVars, historyVars, CopyInv, Underway, Calls, OnSecret
  <1> QED
    BY <1>1, <1>2, <1>3, <1>4, <1>5 DEF CopyInv

\* Copies are deleted.
LEMMA DeleteCopiesKeeps ==
  ASSUME CopyInv, NEW S \in SUBSET Names, DeleteCopies(S)
  PROVE  CopyInv'
  <1> USE SecretList
  <1>1. CopyTypeOK'
    <2>1. budget' \in [CopyEvents -> Nat]
      BY SpendTyped, Counted DEF DeleteCopies, CopyInv, CopyTypeOK
    <2>2. copy' \in [Names -> Copy]
      BY DEF DeleteCopies, CopyInv, CopyTypeOK, Copy, Contents
    <2>3. namespace' \in BOOLEAN /\ \A s \in Names : copy'[s].data # Missing => namespace'
      <3>1. CASE namespace' = namespace
        BY <3>1 DEF DeleteCopies, CopyInv, CopyTypeOK
      <3>2. CASE S = Names
        BY <3>2 DEF DeleteCopies, CopyInv, CopyTypeOK
      <3> QED
        BY <3>1, <3>2 DEF DeleteCopies, CopyInv, CopyTypeOK
    <2>4. /\ gone' \in SUBSET Names /\ disturbed' = TRUE
          /\ UNCHANGED <<source, nsCache, sourceCache, copyCache, at, next, found, existing,
                        result, took>>
      BY DEF DeleteCopies, cacheVars, CopyInv, CopyTypeOK
    <2>5. at' \in OnSecret => /\ next' \in DOMAIN secretsToCopy /\ found' \in Data
                              /\ took'[secretsToCopy[next']] = found'
      BY <2>4 DEF CopyInv, CopyTypeOK
    <2> QED
      BY <2>1, <2>2, <2>3, <2>4, <2>5 DEF CopyInv, CopyTypeOK
  <1>2. CopiedAsRead'
    BY DEF DeleteCopies, storeVars, cacheVars, historyVars, CopyInv, CopyTypeOK, CopiedAsRead,
           Underway, OnSecret, Name
  <1>3. FailsForCause'
    BY DEF DeleteCopies, storeVars, cacheVars, historyVars, CopyInv, CopyTypeOK, FailsForCause,
           Underway, Retyped
  <1>4. Known'
    BY DEF DeleteCopies, storeVars, cacheVars, historyVars, CopyInv, CopyTypeOK, Underway,
           Known, Calls, OnSecret, Name
  <1>5. Underway'
    BY DEF DeleteCopies, storeVars, cacheVars, historyVars, CopyInv, Underway, Calls, OnSecret
  <1> QED
    BY <1>1, <1>2, <1>3, <1>4, <1>5 DEF CopyInv

\* Every step keeps the invariant.
LEMMA NextCopy == CopyInv /\ [Next]_vars => CopyInv'
  <1> SUFFICES ASSUME CopyInv, [Next]_vars PROVE CopyInv'
    OBVIOUS
  <1>1. CASE UNCHANGED vars
    BY <1>1
    DEF vars, storeVars, cacheVars, historyVars, CopyInv, CopyTypeOK, CopiedAsRead,
        FailsForCause, Known, Underway, Retyped, Name
  <1>2. CASE Begin \/ BeginAgain
    BY <1>2, CallKeeps DEF Begin, BeginAgain
  <1>3. CASE Worker /\ ~Begin
    BY <1>3, GetNamespaceKeeps, GetSourceKeeps, GetCopyKeeps, SucceedsKeeps, CallDoneKeeps,
       CallRefusedKeeps, CallFailsKeeps
    DEF Worker
  <1>4. CASE WatchNamespaces \/ WatchSecrets \/ Restart
    BY <1>4, WatchNamespacesKeeps, WatchSecretsKeeps, RestartKeeps
  <1>5. CASE \E s \in Names, d \in Contents : ChangeSource(s, d)
    BY <1>5, ChangeSourceKeeps
  <1>6. CASE \E S \in SUBSET Names : DeleteCopies(S)
    BY <1>6, DeleteCopiesKeeps
  <1> QED
    BY <1>1, <1>2, <1>3, <1>4, <1>5, <1>6 DEF Next, Worker

\* What a call has done is there, and a call fails for a cause, whatever
\* interrupts it, and whatever earlier calls left behind
\* (ensureNamespaceAndSecrets).
THEOREM CopySafety == Spec => [](CopyTypeOK /\ CopiedAsRead /\ FailsForCause)
  <1>1. CopyInv => CopyTypeOK /\ CopiedAsRead /\ FailsForCause
    BY DEF CopyInv
  <1> QED
    BY InitCopy, NextCopy, <1>1, PTL DEF Spec

---------------------------------------------------------------------------
(* The call implements SecretMirror                                        *)

\* Versions tell copies apart: one that was read, in the cache or by the call, is
\* the copy as it is, or has an older version.
AsRead(c, s) == c.version < copy[s].version \/ c = copy[s]

Versioned ==
  /\ \A s \in Names : AsRead(copyCache[s], s)
  /\ at = "updateCopy" => AsRead(existing, Name)

\* A write that is taken, in terms of the copies.
LEMMA AppliedVersions ==
  ASSUME CopyTypeOK, at \in Calls, Applied
  PROVE  \A s \in Names : copy'[s] = copy[s] \/ copy'[s].version = copy[s].version + 1
<1>1. CASE at \in OnSecret /\ copy[Name].data # found
  <2>1. copy' = [copy EXCEPT ![Name] = [version |-> copy[Name].version + 1, data |-> found]]
    BY <1>1 DEF Applied
  <2> QED
    BY <2>1 DEF CopyTypeOK
<1>2. CASE ~ (at \in OnSecret /\ copy[Name].data # found)
  BY <1>2 DEF Applied
<1> QED
  BY <1>1, <1>2

LEMMA CopyVersions ==
  ASSUME CopyTypeOK, [Next]_vars
  PROVE  \A s \in Names : copy'[s] = copy[s] \/ copy'[s].version = copy[s].version + 1
<1>1. CASE UNCHANGED copy
  BY <1>1
<1>2. CASE CallDone \/ CallFails
  BY <1>1, <1>2, AppliedVersions DEF CallDone, CallFails, storeVars
<1>3. CASE \E S \in SUBSET Names : DeleteCopies(S)
  BY <1>3 DEF DeleteCopies
<1> QED
  BY <1>1, <1>2, <1>3
     DEF Next, vars, storeVars, Worker, Begin, BeginAgain, Call, GetNamespace, GetSource, GetCopy,
         Succeeds, CallRefused, WatchNamespaces, WatchSecrets, Restart, ChangeSource

\* Caches are filled from the store, and the call reads its copy from the cache.
LEMMA CacheSteps ==
  ASSUME CopyTypeOK, [Next]_vars
  PROVE  /\ \/ copyCache' = copyCache
            \/ copyCache' = copy /\ copy' = copy
         /\ at' = "updateCopy" =>
              \/ at = "updateCopy" /\ UNCHANGED <<existing, next>>
              \/ /\ at = "getCopy" /\ existing' = copyCache[Name]
                 /\ UNCHANGED <<copy, copyCache, next>>
<1>1. CASE UNCHANGED <<at, existing, next, copyCache>>
  BY <1>1
<1>2. CASE Worker \/ BeginAgain
  BY <1>2
     DEF Worker, Begin, BeginAgain, Call, GetNamespace, GetSource, GetCopy, Succeeds, CallDone,
         CallRefused, CallFails, Fail, Rest, storeVars, cacheVars
<1>3. CASE WatchNamespaces \/ WatchSecrets \/ Restart
  BY <1>3 DEF WatchNamespaces, WatchSecrets, Restart, Rest, storeVars
<1> QED
  BY <1>1, <1>2, <1>3 DEF Next, vars, cacheVars, ChangeSource, DeleteCopies

LEMMA NextVersioned == ASSUME CopyTypeOK, Versioned, [Next]_vars PROVE Versioned'
<1>1. \A s \in Names : /\ copy[s] \in Copy /\ copyCache[s] \in Copy
                       /\ copy[s].version \in Nat /\ copyCache[s].version \in Nat
  BY DEF CopyTypeOK, Copy
<1>2. existing.version \in Nat
  BY DEF CopyTypeOK, Copy
<1>3. ASSUME NEW s \in Names PROVE AsRead(copyCache[s], s)'
  <2>1. CASE copyCache' = copyCache
    BY <1>1, <2>1, CopyVersions DEF Versioned, AsRead
  <2>2. CASE copyCache' = copy /\ copy' = copy
    BY <2>2 DEF AsRead
  <2> QED
    BY <2>1, <2>2, CacheSteps
<1>4. ASSUME at' = "updateCopy" PROVE AsRead(existing, Name)'
  <2>1. /\ at \in OnSecret /\ next' = next
        /\ \/ at = "updateCopy" /\ existing' = existing
           \/ copy' = copy /\ existing' = copyCache[Name]
    BY <1>4, CacheSteps DEF OnSecret
  <2>2. Name \in Names /\ Name' = Name
    BY <2>1, SecretList DEF CopyTypeOK, Name
  <2>3. AsRead(existing', Name)
    BY <2>1, <2>2 DEF Versioned, AsRead
  <2>4. existing'.version \in Nat
    BY <1>1, <1>2, <2>1, <2>2
  <2>5. copy'[Name] = copy[Name] \/ copy'[Name].version = copy[Name].version + 1
    BY <2>2, CopyVersions
  <2> QED
    BY <1>1, <2>2, <2>3, <2>4, <2>5 DEF AsRead
<1> QED
  BY <1>3, <1>4 DEF Versioned

\* A step that writes nothing, fills the caches and lets the call read them.
LEMMA OnlyReads ==
  ASSUME UNCHANGED storeVars,
         sourceCache' \in {sourceCache, source}, copyCache' \in {copyCache, copy},
         at' \in OnSecret => <<Name', found'>> \in sourcesRead,
         at' = "updateCopy" => <<Name', existing'>> \in copiesRead
  PROVE  Mirror!MirrorNext
<1>1. sourcesRead' \subseteq sourcesRead \union Mirror!Sources
  BY DEF sourcesRead, Mirror!Sources
<1>2. copiesRead' \subseteq copiesRead \union Mirror!Copies
  BY DEF copiesRead, Mirror!Copies
<1>3. Mirror!Reads
  BY <1>1, <1>2 DEF Mirror!Reads, Mirror!stores, storeVars
<1> QED
  BY <1>3 DEF Mirror!MirrorNext, Mirror!Operator

LEMMA ReadingImplements ==
  ASSUME CopyTypeOK,
         \/ Begin \/ BeginAgain \/ GetNamespace \/ GetSource \/ GetCopy \/ Succeeds
         \/ CallRefused \/ WatchNamespaces \/ WatchSecrets \/ Restart
  PROVE  Mirror!MirrorNext
<1>1. CASE Begin \/ BeginAgain \/ GetNamespace \/ Succeeds \/ CallRefused \/ Restart
  BY <1>1, OnlyReads
     DEF Begin, BeginAgain, Call, GetNamespace, Succeeds, CallRefused, Restart, Fail, Rest,
         OnSecret, storeVars, cacheVars
<1>2. CASE GetSource
  <2>1. at' \in OnSecret => <<Name', found'>> = <<Name, sourceCache[Name]>> /\ Name \in Names
    BY <1>2, SecretList DEF GetSource, Name, OnSecret
  <2>2. at' # "updateCopy"
    BY <1>2 DEF GetSource
  <2>3. UNCHANGED <<storeVars, sourceCache, copyCache>>
    BY <1>2 DEF GetSource, cacheVars
  <2> QED
    BY <2>1, <2>2, <2>3, OnlyReads DEF sourcesRead
<1>3. CASE GetCopy
  <2>1. at \in OnSecret /\ Name \in Names
    BY <1>3, SecretList DEF GetCopy, CopyTypeOK, Name, OnSecret
  <2>2. Name' = Name /\ found' = found /\ existing' = copyCache[Name]
    BY <1>3 DEF GetCopy, Name
  <2>3. UNCHANGED <<storeVars, sourceCache, copyCache>>
    BY <1>3 DEF GetCopy, cacheVars
  <2> QED
    BY <2>1, <2>2, <2>3, OnlyReads DEF sourcesRead, copiesRead
<1>4. CASE WatchNamespaces \/ WatchSecrets
  <2>1. /\ UNCHANGED <<storeVars, at, next, found, existing>>
        /\ sourceCache' \in {sourceCache, source} /\ copyCache' \in {copyCache, copy}
    BY <1>4 DEF WatchNamespaces, WatchSecrets
  <2> QED
    BY <2>1, OnlyReads DEF Name, sourcesRead, copiesRead
<1> QED
  BY <1>1, <1>2, <1>3, <1>4

\* A write that is taken, or one that fails without an effect.
LEMMA WritingImplements ==
  ASSUME CopyTypeOK, Versioned, CallDone \/ CallFails
  PROVE  Mirror!MirrorNext
<1>1. at \in Calls /\ UNCHANGED cacheVars /\ at' \in {"getSource", "idle"}
  BY DEF CallDone, CallFails, Fail, Rest
<1>2. at' \notin OnSecret
  BY <1>1 DEF OnSecret
<1>3. CASE UNCHANGED storeVars
  BY <1>1, <1>2, <1>3, OnlyReads DEF cacheVars, OnSecret
<1>4. Mirror!Forgets
  BY <1>1, <1>2 DEF cacheVars, sourcesRead, copiesRead, OnSecret, Mirror!Forgets
<1>5. CASE at = "createNamespace" /\ Accepted /\ Applied
  <2>1. ~namespace /\ namespace' = TRUE /\ UNCHANGED <<source, copy>>
    BY <1>5 DEF Accepted, Applied, OnSecret, CopyTypeOK
  <2>2. Mirror!MakesNamespace
    BY <1>4, <2>1 DEF Mirror!MakesNamespace
  <2> QED
    BY <2>2 DEF Mirror!MirrorNext, Mirror!Operator
<1>6. CASE at \in OnSecret /\ copy[Name].data # found /\ Accepted /\ Applied
  <2> DEFINE r == <<Name, found>>
  <2>1. r \in sourcesRead /\ r[1] = Name /\ r[2] = found
    BY <1>6 DEF sourcesRead
  <2>2. found # Missing /\ Name \in Names
    BY <1>6, SecretList, SecretCopyAssumption DEF CopyTypeOK, SecretCopyAssumption, Name
  <2>3. Mirror!Puts(Name, found)
    <3>1. UNCHANGED <<namespace, source>>
      BY <1>6 DEF Applied, OnSecret, CopyTypeOK
    <3>2. copy' = [copy EXCEPT ![Name] = [version |-> copy[Name].version + 1, data |-> found]]
      BY <1>6 DEF Applied
    <3> QED
      BY <1>4, <3>1, <3>2 DEF Mirror!Puts
  <2>4. ASSUME at = "createCopy" PROVE Mirror!MakesCopy(Name, found)
    BY <1>6, <2>2, <2>3, <2>4 DEF Accepted, Mirror!MakesCopy, Mirror!Present
  <2>5. ASSUME at = "updateCopy" PROVE Mirror!ReplacesCopy(Name, found)
    <3>1. /\ copy[Name].data # Missing /\ copy[Name].version = existing.version
          /\ TypeOf[copy[Name].data] = TypeOf[found]
      BY <1>6, <2>5 DEF Accepted
    <3>2. copy[Name].version \in Nat
      BY <2>2 DEF CopyTypeOK, Copy
    <3>3. existing = copy[Name]
      BY <2>5, <3>1, <3>2 DEF Versioned, AsRead
    <3>4. <<Name, copy[Name]>> \in copiesRead
      BY <2>5, <3>3 DEF copiesRead
    <3> QED
      BY <1>6, <2>2, <2>3, <3>1, <3>4 DEF Mirror!ReplacesCopy, Mirror!Present
  <2>6. Mirror!MakesCopy(r[1], r[2]) \/ Mirror!ReplacesCopy(r[1], r[2])
    BY <1>1, <1>6, <2>1, <2>4, <2>5 DEF Calls, OnSecret
  <2> QED
    BY <2>1, <2>6 DEF Mirror!MirrorNext, Mirror!Operator
<1>7. CASE at \in OnSecret /\ copy[Name].data = found /\ Applied
  <2>1. UNCHANGED storeVars
    BY <1>7 DEF Applied, OnSecret, CopyTypeOK, storeVars
  <2> QED
    BY <1>3, <2>1
<1> QED
  BY <1>1, <1>3, <1>5, <1>6, <1>7 DEF CallDone, CallFails, Calls, OnSecret

LEMMA OthersImplement ==
  ASSUME CopyTypeOK,
         \/ \E s \in Names, d \in Contents : ChangeSource(s, d)
         \/ \E S \in SUBSET Names : DeleteCopies(S)
  PROVE  Mirror!MirrorNext
<1>1. UNCHANGED <<cacheVars, at, next, found, existing>>
  BY DEF ChangeSource, DeleteCopies
<1>2. UNCHANGED <<sourcesRead, copiesRead>>
  BY <1>1 DEF cacheVars, sourcesRead, copiesRead, Name
<1>3. ASSUME NEW s \in Names, NEW d \in Contents, ChangeSource(s, d)
      PROVE  Mirror!MirrorNext
  <2>1. source' = [source EXCEPT ![s] = source'[s]] /\ UNCHANGED <<namespace, copy>>
    BY <1>3 DEF ChangeSource, CopyTypeOK
  <2>2. Mirror!SourceChanges(s)
    BY <1>2, <2>1 DEF Mirror!SourceChanges, Mirror!memory
  <2> QED
    BY <2>2 DEF Mirror!MirrorNext
<1>4. ASSUME NEW S \in SUBSET Names, DeleteCopies(S)
      PROVE  Mirror!MirrorNext
  <2>1. Mirror!Removed(S)
    BY <1>2, <1>4 DEF DeleteCopies, Mirror!Removed, Mirror!Present, Mirror!memory
  <2> QED
    BY <2>1 DEF Mirror!MirrorNext
<1> QED
  BY <1>3, <1>4

\* However often it is cut short and repeated, on caches that lag, the copying does to
\* the namespace and its secrets only what SecretMirror says: it puts what it has read
\* from the source, overwrites no copy that it has not read as it is, keeps the types,
\* and removes nothing (ensureNamespaceAndSecrets).
THEOREM MirrorImplemented == Spec => ImplementsMirror
<1>1. Init => Mirror!MirrorInit /\ Versioned
  <2> SUFFICES ASSUME Init PROVE Mirror!MirrorInit /\ Versioned
    OBVIOUS
  <2>1. \A s \in Names : copy[s] = NoCopy /\ copyCache[s] = copy[s]
    BY DEF Init
  <2>2. sourcesRead = Mirror!Sources /\ copiesRead = Mirror!Copies
    BY DEF Init, OnSecret, sourcesRead, copiesRead, Mirror!Sources, Mirror!Copies
  <2>3. \A s \in Names : ~Mirror!Present(s)
    BY <2>1 DEF NoCopy, Mirror!Present
  <2>4. ~namespace /\ at # "updateCopy"
    BY DEF Init
  <2> QED
    BY <2>1, <2>2, <2>3, <2>4 DEF Versioned, AsRead, Mirror!MirrorInit
<1>2. CopyTypeOK /\ Versioned /\ [Next]_vars => Versioned'
  BY NextVersioned
<1>3. CopyTypeOK /\ Versioned /\ [Next]_vars => [Mirror!MirrorNext]_(Mirror!mirrorVars)
  <2> SUFFICES ASSUME CopyTypeOK, Versioned, [Next]_vars
               PROVE  [Mirror!MirrorNext]_(Mirror!mirrorVars)
    OBVIOUS
  <2>1. CASE \/ Begin \/ BeginAgain \/ GetNamespace \/ GetSource \/ GetCopy \/ Succeeds
             \/ CallRefused \/ WatchNamespaces \/ WatchSecrets \/ Restart
    BY <2>1, ReadingImplements
  <2>2. CASE CallDone \/ CallFails
    BY <2>2, WritingImplements
  <2>3. CASE \/ \E s \in Names, d \in Contents : ChangeSource(s, d)
             \/ \E S \in SUBSET Names : DeleteCopies(S)
    BY <2>3, OthersImplement
  <2>4. CASE UNCHANGED vars
    BY <2>4
       DEF vars, storeVars, cacheVars, Name, sourcesRead, copiesRead,
           Mirror!mirrorVars, Mirror!stores, Mirror!memory
  <2> QED
    BY <2>1, <2>2, <2>3, <2>4 DEF Next, Worker
<1> QED
  BY <1>1, <1>2, <1>3, CopySafety, PTL DEF Spec, ImplementsMirror, Mirror!MirrorSpec
=============================================================================
