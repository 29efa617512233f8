--------------------------- MODULE StartupProofs ---------------------------
(***************************************************************************)
(* Theorems about Startup, for any number of attempts, any cap, any probe  *)
(* and any budget.                                                         *)
(***************************************************************************)
EXTENDS Startup, TLAPS

\* What main has done when it gets to a phase.
Prepared ==
  /\ phase \in {"connect", "backoff"} => cloned /\ env.dbHost
  /\ phase \in {"down"} \union Starting => ~pool
  /\ phase \in {"down", "configure", "clone"} => attempt = 0 /\ waits = <<>>

\* The next wait follows from the last one.
BackoffFollows ==
  /\ phase = "backoff" => Len(waits) > 0
  /\ Len(waits) = 0 => backoff = 1
  /\ Len(waits) > 0 =>
       backoff = IF phase = "backoff" THEN waits[Len(waits)]
                 ELSE IF 2 * waits[Len(waits)] > MaxBackoff THEN MaxBackoff
                 ELSE 2 * waits[Len(waits)]

StartupInv == StartupTypeOK /\ RunsPrepared /\ AttemptsSpaced /\ Prepared /\ BackoffFollows

\* The constants, and the sequence with no waits.
LEMMA StartupConstants ==
  /\ maxRetries \in Nat \ {0} /\ MaxBackoff \in Nat \ {0}
  /\ ProbeDelay \in Nat /\ ProbePeriod \in Nat /\ ProbeFailures \in Nat \ {0}
  /\ StartupBudget \in [StartupEvents -> Nat]
  BY StartupAssumption DEF StartupAssumption

LEMMA NoWaits == <<>> \in Seq(1..MaxBackoff) /\ Len(<<>>) = 0 /\ DOMAIN <<>> = {}
  OBVIOUS

\* One more wait.
LEMMA OneMore ==
  ASSUME waits \in Seq(1..MaxBackoff), NEW w \in 1..MaxBackoff, waits' = Append(waits, w)
  PROVE  /\ waits' \in Seq(1..MaxBackoff) /\ Len(waits') = Len(waits) + 1
         /\ DOMAIN waits' = 1..(Len(waits) + 1) /\ DOMAIN waits = 1..Len(waits)
         /\ Len(waits) \in Nat
         /\ waits'[Len(waits) + 1] = w
         /\ \A k \in 1..Len(waits) : waits'[k] = waits[k]
  OBVIOUS

\* Events of the environment are counted.
LEMMA SpendTyped ==
  ASSUME budget \in [StartupEvents -> Nat], NEW e \in StartupEvents, Spend(e)
  PROVE  budget' \in [StartupEvents -> Nat]
  BY DEF Spend

\* The events by name.
LEMMA Counted == \A e \in {"remote", "database", "deploy", "end"} : e \in StartupEvents
  BY DEF StartupEvents

\* The initial states satisfy the invariant.
LEMMA InitStartup == Init => StartupInv
  <1> SUFFICES ASSUME Init PROVE StartupInv
    OBVIOUS
  <1> USE StartupConstants, NoWaits
  <1>1. StartupTypeOK
    <2>1. attempt \in 0..maxRetries /\ backoff \in 1..MaxBackoff /\ remaining = 0
      BY DEF Init
    <2>2. waits \in Seq(1..MaxBackoff) /\ due \in Nat /\ missed \in 0..(ProbeFailures - 1)
      BY DEF Init
    <2>3. /\ env \in Environment /\ remote \in Conditions /\ database \in Conditions
          /\ budget \in [StartupEvents -> Nat]
      BY DEF Init, Conditions
    <2>4. phase = "down" /\ ended = "none" /\ ~cloned /\ ~pool /\ ~slow
          /\ cloned \in BOOLEAN /\ pool \in BOOLEAN /\ slow \in BOOLEAN
      BY DEF Init
    <2> QED
      BY <2>1, <2>2, <2>3, <2>4 DEF StartupTypeOK
  <1>2. RunsPrepared /\ Prepared
    BY DEF Init, RunsPrepared, Prepared, Starting
  <1>3. AttemptsSpaced /\ BackoffFollows
    BY DEF Init, AttemptsSpaced, BackoffFollows
  <1> QED
    BY <1>1, <1>2, <1>3 DEF StartupInv

\* A process that has ended leaves nothing.
LEMMA ClearedInv ==
  ASSUME StartupInv, phase' = "down", Cleared, env' \in Environment,
         remote' \in Conditions, database' \in Conditions,
         ended' \in {"none", "error", "probe"}, budget' \in [StartupEvents -> Nat]
  PROVE  StartupInv'
  <1> USE StartupConstants, NoWaits
  <1>1. StartupTypeOK'
    <2>1. attempt' \in 0..maxRetries /\ backoff' \in 1..MaxBackoff /\ remaining' = 0
      BY DEF Cleared
    <2>2. waits' \in Seq(1..MaxBackoff) /\ due' \in Nat /\ missed' \in 0..(ProbeFailures - 1)
      BY DEF Cleared
    <2>3. cloned' \in BOOLEAN /\ pool' \in BOOLEAN /\ slow' \in BOOLEAN
      BY DEF Cleared
    <2> QED
      BY <2>1, <2>2, <2>3 DEF StartupTypeOK
  <1>2. RunsPrepared' /\ Prepared'
    BY DEF Cleared, RunsPrepared, Prepared, Starting
  <1>3. AttemptsSpaced' /\ BackoffFollows'
    BY DEF Cleared, AttemptsSpaced, BackoffFollows
  <1> QED
    BY <1>1, <1>2, <1>3 DEF StartupInv

\* The container starts.
LEMMA StartKeeps ==
  ASSUME StartupInv, Start
  PROVE  StartupInv'
  <1> USE StartupConstants, NoWaits DEF StartupInv
  <1>1. StartupTypeOK'
    BY DEF Start, outside, progress, probing, StartupTypeOK, Starting
  <1>2. RunsPrepared' /\ Prepared'
    BY DEF Start, outside, progress, probing, StartupTypeOK, RunsPrepared, Prepared, Starting
  <1>3. AttemptsSpaced' /\ BackoffFollows'
    BY DEF Start, outside, progress, probing, StartupTypeOK, AttemptsSpaced, BackoffFollows,
           Prepared
  <1> QED
    BY <1>1, <1>2, <1>3

\* The environment is read.
LEMMA ConfigureKeeps ==
  ASSUME StartupInv, Configure
  PROVE  StartupInv'
  <1> USE StartupConstants, NoWaits DEF StartupInv
  <1>1. CASE Exit
    BY <1>1, ClearedInv DEF Configure, outside, progress, probing, Exit, outside, StartupTypeOK
  <1>2. CASE ~Exit
    <2>1. StartupTypeOK'
      BY <1>2 DEF Configure, outside, progress, probing, StartupTypeOK, Starting
    <2>2. RunsPrepared' /\ Prepared'
      BY <1>2
      DEF Configure, outside, progress, probing, StartupTypeOK, RunsPrepared, Prepared, Starting
    <2>3. AttemptsSpaced' /\ BackoffFollows'
      BY <1>2
      DEF Configure, outside, progress, probing, StartupTypeOK, AttemptsSpaced, BackoffFollows,
          Prepared
    <2> QED
      BY <2>1, <2>2, <2>3
  <1> QED
    BY <1>1, <1>2

\* The repository is cloned.
LEMMA ClonedKeeps ==
  ASSUME StartupInv, Cloned
  PROVE  StartupInv'
  <1> USE StartupConstants, NoWaits DEF StartupInv
  <1>1. CASE Exit
    BY <1>1, ClearedInv DEF Cloned, outside, progress, probing, Exit, outside, StartupTypeOK
  <1>2. CASE ~Exit
    <2>1. StartupTypeOK'
      BY <1>2 DEF Cloned, outside, progress, probing, StartupTypeOK, Starting
    <2>2. RunsPrepared' /\ Prepared'
      BY <1>2
      DEF Cloned, outside, progress, probing, StartupTypeOK, RunsPrepared, Prepared, Starting
    <2>3. AttemptsSpaced' /\ BackoffFollows'
      BY <1>2
      DEF Cloned, outside, progress, probing, StartupTypeOK, AttemptsSpaced, BackoffFollows,
          Prepared
    <2> QED
      BY <2>1, <2>2, <2>3
  <1> QED
    BY <1>1, <1>2

\* The database answers.
LEMMA ConnectedKeeps ==
  ASSUME StartupInv, Connected
  PROVE  StartupInv'
  <1> USE StartupConstants, NoWaits DEF StartupInv
  <1>1. StartupTypeOK'
    BY DEF Connected, outside, progress, probing, StartupTypeOK, Starting
  <1>2. RunsPrepared' /\ Prepared'
    BY DEF Connected, outside, progress, probing, StartupTypeOK, RunsPrepared, Prepared,
           Starting
  <1>3. AttemptsSpaced' /\ BackoffFollows'
    BY DEF Connected, outside, progress, probing, StartupTypeOK, AttemptsSpaced, BackoffFollows,
           Prepared
  <1> QED
    BY <1>1, <1>2, <1>3

\* It does not.
LEMMA ConnectFailsKeeps ==
  ASSUME StartupInv, ConnectFails
  PROVE  StartupInv'
  <1> USE StartupConstants, NoWaits DEF StartupInv
  <1>1. CASE Exit
    BY <1>1, ClearedInv DEF ConnectFails, Exit, outside, StartupTypeOK
  <1>2. CASE attempt < maxRetries - 1 /\ Wait
    <2>1. /\ waits' \in Seq(1..MaxBackoff) /\ Len(waits') = Len(waits) + 1
          /\ DOMAIN waits' = 1..(Len(waits) + 1) /\ DOMAIN waits = 1..Len(waits)
          /\ Len(waits) \in Nat
          /\ waits'[Len(waits) + 1] = backoff
          /\ \A k \in 1..Len(waits) : waits'[k] = waits[k]
      BY <1>2, OneMore DEF Wait, StartupTypeOK
    <2>2. StartupTypeOK'
      BY <1>2, <2>1 DEF ConnectFails, Wait, outside, probing, StartupTypeOK, Starting
    <2>3. RunsPrepared' /\ Prepared'
      BY <1>2 DEF ConnectFails, Wait, outside, RunsPrepared, Prepared, Starting
    <2>4. /\ phase' = "backoff" /\ attempt' = attempt + 1 /\ backoff' = backoff
          /\ attempt' < maxRetries /\ Len(waits) = attempt
      BY <1>2 DEF ConnectFails, Wait, StartupTypeOK, AttemptsSpaced
    <2>5. BackoffFollows'
      BY <2>1, <2>4 DEF BackoffFollows
    <2>6. ASSUME NEW k \in DOMAIN waits'
          PROVE  waits'[k] = IF k = 1 THEN 1
                             ELSE IF 2 * waits'[k - 1] > MaxBackoff THEN MaxBackoff
                             ELSE 2 * waits'[k - 1]
      <3>1. CASE k \in DOMAIN waits
        <4>1. waits[k] = IF k = 1 THEN 1
                         ELSE IF 2 * waits[k - 1] > MaxBackoff THEN MaxBackoff
                         ELSE 2 * waits[k - 1]
          BY <3>1 DEF AttemptsSpaced
        <4>2. k # 1 => k - 1 \in 1..Len(waits)
          BY <2>1, <3>1
        <4>3. waits'[k] = waits[k] /\ (k # 1 => waits'[k - 1] = waits[k - 1])
          BY <2>1, <3>1, <4>2
        <4> QED
          BY <4>1, <4>3
      <3>2. CASE k = Len(waits) + 1
        <4>1. CASE Len(waits) = 0
          BY <2>1, <3>2, <4>1 DEF BackoffFollows
        <4>2. CASE Len(waits) > 0
          <5>1. waits'[k - 1] = waits[Len(waits)] /\ k # 1
            BY <2>1, <3>2, <4>2
          <5>2. phase = "connect"
            BY DEF ConnectFails
          <5> QED
            BY <2>1, <3>2, <4>2, <5>1, <5>2 DEF BackoffFollows
        <4> QED
          BY <2>1, <4>1, <4>2
      <3> QED
        BY <2>1, <3>1, <3>2
    <2>7. AttemptsSpaced'
      BY <2>1, <2>4, <2>6 DEF AttemptsSpaced
    <2> QED
      BY <2>2, <2>3, <2>5, <2>7
  <1> QED
    BY <1>1, <1>2 DEF ConnectFails

\* The wait is over.
LEMMA BackoffOverKeeps ==
  ASSUME StartupInv, BackoffOver
  PROVE  StartupInv'
  <1> USE StartupConstants, NoWaits DEF StartupInv
  <1>1. StartupTypeOK'
    BY DEF BackoffOver, NextBackoff, outside, progress, probing, StartupTypeOK, Starting
  <1>2. RunsPrepared' /\ Prepared'
    BY DEF BackoffOver, NextBackoff, outside, progress, probing, StartupTypeOK, RunsPrepared,
           Prepared, Starting
  <1>3. AttemptsSpaced' /\ BackoffFollows'
    <2>1. UNCHANGED <<waits, attempt>> /\ phase = "backoff" /\ phase' = "connect"
      BY DEF BackoffOver
    <2>2. AttemptsSpaced'
      BY <2>1 DEF AttemptsSpaced
    <2>3. BackoffFollows'
      BY <2>1 DEF BackoffOver, NextBackoff, BackoffFollows, AttemptsSpaced, StartupTypeOK
    <2> QED
      BY <2>2, <2>3
  <1> QED
    BY <1>1, <1>2, <1>3

\* The kubelet probes.
LEMMA ProbeKeeps ==
  ASSUME StartupInv, Probe
  PROVE  StartupInv'
  <1> USE StartupConstants, NoWaits DEF StartupInv
  <1>1. CASE phase' = "down" /\ ended' = "probe" /\ Cleared
    BY <1>1, ClearedInv DEF Probe, outside, StartupTypeOK
  <1>2. CASE UNCHANGED <<progress, ended, slow>>
    <2>1. StartupTypeOK'
      BY <1>2 DEF Probe, outside, progress, StartupTypeOK, Starting
    <2>2. RunsPrepared' /\ Prepared' /\ AttemptsSpaced' /\ BackoffFollows'
      BY <1>2
      DEF Probe, outside, progress, RunsPrepared, Prepared, AttemptsSpaced, BackoffFollows
    <2> QED
      BY <2>1, <2>2
  <1> QED
    BY <1>1, <1>2 DEF Probe

\* A second passes.
LEMMA TickKeeps ==
  ASSUME StartupInv, Tick
  PROVE  StartupInv'
  <1> USE StartupConstants, NoWaits DEF StartupInv
  <1>1. StartupTypeOK'
    BY DEF Tick, Hanging, outside, progress, probing, StartupTypeOK, Starting
  <1>2. RunsPrepared' /\ Prepared'
    BY DEF Tick, Hanging, outside, progress, probing, StartupTypeOK, RunsPrepared, Prepared,
           Starting
  <1>3. AttemptsSpaced' /\ BackoffFollows'
    BY DEF Tick, Hanging, outside, progress, probing, StartupTypeOK, AttemptsSpaced,
           BackoffFollows, Prepared
  <1> QED
    BY <1>1, <1>2, <1>3

\* The remote or the database changes.
LEMMA EnvironmentKeeps ==
  ASSUME StartupInv, NEW c \in Conditions,
         RemoteChanges(c) \/ DatabaseChanges(c)
  PROVE  StartupInv'
  <1>1. UNCHANGED <<env, phase, cloned, pool, attempt, backoff, remaining, waits, due, missed,
                    ended, slow>>
    BY DEF RemoteChanges, DatabaseChanges, progress, probing
  <1>2. remote' \in Conditions /\ database' \in Conditions /\ budget' \in [StartupEvents -> Nat]
    BY StartupConstants, SpendTyped, Counted
    DEF RemoteChanges, DatabaseChanges, StartupInv, StartupTypeOK
  <1>3. StartupTypeOK'
    BY <1>1, <1>2 DEF StartupInv, StartupTypeOK
  <1>4. RunsPrepared' /\ Prepared'
    BY <1>1 DEF StartupInv, RunsPrepared, Prepared
  <1>5. AttemptsSpaced' /\ BackoffFollows'
    BY <1>1 DEF StartupInv, AttemptsSpaced, BackoffFollows
  <1> QED
    BY <1>3, <1>4, <1>5 DEF StartupInv

\* Every step keeps the invariant.
LEMMA NextStartup == StartupInv /\ [Next]_vars => StartupInv'
  <1> SUFFICES ASSUME StartupInv, [Next]_vars PROVE StartupInv'
    OBVIOUS
  <1>1. CASE UNCHANGED vars
    BY <1>1
    DEF vars, outside, progress, probing, StartupInv, StartupTypeOK, RunsPrepared,
        AttemptsSpaced, Prepared, BackoffFollows
  <1>2. CASE Main \/ Start \/ Probe \/ Tick
    <2>1. CASE CloneFails
      BY <2>1, ClearedInv DEF CloneFails, Exit, outside, StartupInv, StartupTypeOK
    <2> QED
      BY <1>2, <2>1, StartKeeps, ConfigureKeeps, ClonedKeeps, ConnectedKeeps, ConnectFailsKeeps,
         BackoffOverKeeps, ProbeKeeps, TickKeeps
      DEF Main
  <1>3. CASE \E c \in Conditions : RemoteChanges(c) \/ DatabaseChanges(c)
    BY <1>3, EnvironmentKeeps
  <1>4. CASE \E e \in Environment : Deploy(e)
    BY <1>4, ClearedInv, SpendTyped, Counted DEF Deploy, StartupInv, StartupTypeOK
  <1>5. CASE ManagerEnds
    BY <1>5, ClearedInv, SpendTyped, Counted
    DEF ManagerEnds, Exit, outside, StartupInv, StartupTypeOK
  <1> QED
    BY <1>1, <1>2, <1>3, <1>4, <1>5 DEF Next

\* The operator runs on a clone and, when a database is configured, on a
\* connection that has answered; InitializeWithRetry makes no more attempts
\* than it may, waits between them only, and doubles the waits up to the cap.
THEOREM StartupSafety == Spec => [](StartupTypeOK /\ RunsPrepared /\ AttemptsSpaced)
  <1>1. StartupInv => StartupTypeOK /\ RunsPrepared /\ AttemptsSpaced
    BY DEF StartupInv
  <1> QED
    BY InitStartup, NextStartup, <1>1, PTL DEF Spec

---------------------------------------------------------------------------
(* The liveness probe and the waits                                        *)

\* The time since the kubelet started the container, as the probes count it.
Elapsed == ProbeDelay + missed * ProbePeriod - due

\* Doubled, k waits take 2^k - 1 seconds or, when the cap cuts them, less.
Doubling(total) ==
  /\ total \in [0..maxRetries -> Nat]
  /\ total[0] = 0
  /\ \A k \in 0..(maxRetries - 1) : total[k + 1] = 2 * total[k] + 1

\* A process that no call has held up is as old as its waits, the rest of the
\* current one not counted; and the next wait is at most as long as all those
\* before it and a second more.
OnTime(total) ==
  /\ phase = "down" => missed = 0 /\ ~slow
  /\ phase \in Starting /\ ~slow => Elapsed + remaining <= total[attempt]
  /\ phase \in {"down", "configure", "clone", "connect"} => backoff <= total[attempt] + 1
  /\ phase = "backoff" => 2 * backoff <= total[attempt] + 1

\* The numbers of a state.
LEMMA Numbers ==
  ASSUME StartupInv, NEW total, Doubling(total)
  PROVE  /\ attempt \in Nat /\ backoff \in Nat /\ remaining \in Nat /\ due \in Nat
         /\ missed \in Nat /\ total[attempt] \in Nat
         /\ ProbeDelay \in Nat /\ ProbePeriod \in Nat
         /\ missed * ProbePeriod \in Nat
         /\ (missed + 1) * ProbePeriod = missed * ProbePeriod + ProbePeriod
         /\ attempt < maxRetries => total[attempt + 1] = 2 * total[attempt] + 1
  <1>1. attempt \in Nat /\ backoff \in Nat /\ remaining \in Nat /\ due \in Nat /\ missed \in Nat
    BY StartupConstants DEF StartupInv, StartupTypeOK
  <1>2. ProbeDelay \in Nat /\ ProbePeriod \in Nat
    BY StartupConstants
  <1>3. \A m, p \in Nat : m * p \in Nat /\ (m + 1) * p = m * p + p
    OBVIOUS
  <1>4. attempt \in 0..maxRetries /\ maxRetries \in Nat
    BY StartupConstants DEF StartupInv, StartupTypeOK
  <1>5. total[attempt] \in Nat
    BY <1>4 DEF Doubling
  <1>6. attempt < maxRetries => total[attempt + 1] = 2 * total[attempt] + 1
    BY <1>1, <1>4 DEF Doubling
  <1> QED
    BY <1>1, <1>2, <1>3, <1>5, <1>6

\* A process that has ended leaves nothing to be late for.
LEMMA ClearedOnTime ==
  ASSUME NEW total, Doubling(total), phase' = "down", Cleared
  PROVE  OnTime(total)'
  <1>1. total[0] = 0
    BY DEF Doubling
  <1>2. phase' = "down" /\ missed' = 0 /\ ~slow' /\ attempt' = 0 /\ backoff' = 1
    BY DEF Cleared
  <1> QED
    BY <1>1, <1>2 DEF OnTime, Starting

\* main goes on.
LEMMA MainOnTime ==
  ASSUME NEW total, Doubling(total), StartupInv, OnTime(total), Main
  PROVE  OnTime(total)'
  <1> USE Numbers DEF OnTime, Starting, Elapsed
  <1>1. CASE Exit
    BY <1>1, ClearedOnTime DEF Exit
  <1>2. CASE ~Exit /\ (Configure \/ Cloned \/ Connected)
    BY <1>2 DEF Configure, Cloned, Connected, outside, progress, probing
  <1>3. CASE ConnectFails /\ Wait
    <2>1. /\ phase = "connect" /\ phase' = "backoff" /\ remaining = 0 /\ remaining' = backoff
          /\ attempt' = attempt + 1 /\ UNCHANGED <<backoff, due, missed, slow>>
          /\ attempt < maxRetries
      BY <1>3 DEF ConnectFails, Wait, probing, StartupInv, StartupTypeOK, AttemptsSpaced
    <2> QED
      BY <2>1
  <1>4. CASE BackoffOver
    <2>1. /\ phase = "backoff" /\ phase' = "connect" /\ remaining = 0 /\ backoff' <= 2 * backoff
          /\ UNCHANGED <<attempt, remaining, due, missed, slow>>
      BY <1>4, StartupConstants DEF BackoffOver, NextBackoff, probing
    <2>2. backoff' \in Nat
      BY <1>4, StartupConstants DEF BackoffOver, NextBackoff
    <2> QED
      BY <2>1, <2>2
  <1> QED
    BY <1>1, <1>2, <1>3, <1>4 DEF Main, CloneFails, ConnectFails

\* The container starts, the kubelet probes, time passes.
LEMMA ClockOnTime ==
  ASSUME NEW total, Doubling(total), StartupInv, OnTime(total), Start \/ Probe \/ Tick
  PROVE  OnTime(total)'
  <1> USE Numbers DEF OnTime, Starting, Elapsed
  <1>1. CASE Start
    <2>1. /\ phase = "down" /\ phase' = "configure" /\ due' = ProbeDelay
          /\ UNCHANGED <<attempt, backoff, remaining, missed, slow>>
      BY <1>1 DEF Start
    <2>2. missed = 0 /\ remaining = 0
      BY <2>1 DEF StartupInv, StartupTypeOK
    <2> QED
      BY <2>1, <2>2
  <1>2. CASE Probe
    <2>1. CASE phase' = "down" /\ Cleared
      BY <2>1, ClearedOnTime
    <2>2. CASE Healthy
      BY <1>2, <2>2 DEF Probe, Healthy, progress
    <2>3. CASE due = 0 /\ missed' = missed + 1 /\ due' = ProbePeriod /\ UNCHANGED <<progress, slow>>
      BY <1>2, <2>3 DEF Probe, progress
    <2> QED
      BY <1>2, <2>1, <2>2, <2>3 DEF Probe
  <1>3. CASE Tick
    <2>1. CASE phase = "backoff"
      <3>1. /\ due > 0 /\ due' = due - 1 /\ remaining > 0 /\ remaining' = remaining - 1
            /\ UNCHANGED <<phase, attempt, backoff, missed>> /\ slow' = slow
        BY <1>3, <2>1 DEF Tick, Hanging, StartupInv, StartupTypeOK
      <3> QED
        BY <2>1, <3>1
    <2>2. CASE phase # "backoff"
      <3>1. /\ phase = "running" \/ slow'
            /\ UNCHANGED <<phase, attempt, backoff, missed>>
        BY <1>3, <2>2 DEF Tick, StartupInv, StartupTypeOK
      <3>2. phase # "down"
        BY <1>3, <2>2 DEF Tick, Hanging, StartupInv, StartupTypeOK
      <3> QED
        BY <2>2, <3>1, <3>2
    <2> QED
      BY <2>1, <2>2
  <1> QED
    BY <1>1, <1>2, <1>3

LEMMA NextOnTime ==
  ASSUME NEW total, Doubling(total), StartupInv, OnTime(total), [Next]_vars
  PROVE  OnTime(total)'
  <1>1. CASE Main
    BY <1>1, MainOnTime
  <1>2. CASE Start \/ Probe \/ Tick
    BY <1>2, ClockOnTime
  <1>3. CASE phase' = "down" /\ Cleared
    BY <1>3, ClearedOnTime
  <1>4. CASE UNCHANGED <<progress, probing, slow>>
    BY <1>4 DEF OnTime, Elapsed, progress, probing
  <1> QED
    BY <1>1, <1>2, <1>3, <1>4
    DEF Next, RemoteChanges, DatabaseChanges, Deploy, ManagerEnds, Exit, vars

\* Only the last of the probes that a process misses ends it.
LEMMA ProbeInTime ==
  ASSUME NEW total, Doubling(total), StartupInv, OnTime(total), [Next]_vars,
         \A k \in 0..(maxRetries - 1) :
           total[k] < ProbeDelay + (ProbeFailures - 1) * ProbePeriod
  PROVE  phase' = "down" /\ ended' = "probe" /\ phase \in Starting => slow
  <1> SUFFICES ASSUME phase' = "down", ended' = "probe", phase \in Starting, ~slow
               PROVE  FALSE
    OBVIOUS
  <1>1. Probe
    BY DEF Next, Main, Start, Configure, Cloned, CloneFails, Connected, ConnectFails, Wait,
           BackoffOver, Tick, RemoteChanges, DatabaseChanges, Deploy, ManagerEnds, Exit, vars,
           progress, Starting
  <1>2. due = 0 /\ missed + 1 = ProbeFailures
    BY <1>1 DEF Probe, progress, Starting
  <1>3. missed = ProbeFailures - 1
    BY <1>2, Numbers, StartupConstants
  <1>4. ProbeDelay + (ProbeFailures - 1) * ProbePeriod <= total[attempt]
    BY <1>2, <1>3, Numbers DEF OnTime, Elapsed
  <1>5. attempt \in 0..(maxRetries - 1)
    BY StartupConstants DEF StartupInv, StartupTypeOK, AttemptsSpaced, Prepared, Starting
  <1>6. ProbeDelay + (ProbeFailures - 1) * ProbePeriod \in Nat
    BY <1>3, Numbers
  <1> QED
    BY <1>4, <1>5, <1>6, Numbers

\* The kubelet ends a process that is still starting only when a call hung: for
\* the five attempts of main or fewer, any cap, and any probe that allows a
\* process more than the 15 seconds of their waits (the manifest's allows 55),
\* whatever changes and fails (InitializeWithRetry and config/manager/manager.yaml).
THEOREM ProbeSpares ==
  ASSUME maxRetries <= 5, 15 < ProbeDelay + (ProbeFailures - 1) * ProbePeriod
  PROVE  Spec => ProbeSparesRetries
  <1> DEFINE seconds == <<0, 1, 3, 7, 15, 31>>
             total == [k \in 0..maxRetries |-> seconds[k + 1]]
  <1>1. maxRetries \in Nat /\ maxRetries # 0
    BY StartupConstants
  <1>2. Doubling(total)
    <2>1. /\ \A k \in {1, 2, 3, 4, 5, 6} : seconds[k] \in Nat
          /\ \A k \in {1, 2, 3, 4, 5} : seconds[k + 1] = 2 * seconds[k] + 1
          /\ seconds[1] = 0
      OBVIOUS
    <2> HIDE DEF seconds
    <2>2. \A k \in 0..maxRetries : k + 1 \in {1, 2, 3, 4, 5, 6} /\ total[k] = seconds[k + 1]
      BY <1>1
    <2>3. total \in [0..maxRetries -> Nat]
      BY <2>1, <2>2
    <2>4. ASSUME NEW k \in 0..(maxRetries - 1) PROVE total[k + 1] = 2 * total[k] + 1
      <3>1. k + 1 \in {1, 2, 3, 4, 5} /\ k \in 0..maxRetries /\ k + 1 \in 0..maxRetries
        BY <1>1
      <3> QED
        BY <2>1, <2>2, <3>1
    <2>5. total[0] = 0
      <3>1. 0 \in 0..maxRetries
        BY <1>1
      <3>2. total[0] = seconds[0 + 1]
        BY <2>2, <3>1
      <3> QED
        BY <2>1, <3>2
    <2> HIDE DEF total
    <2> QED
      BY <2>3, <2>4, <2>5 DEF Doubling
  <1>3. ASSUME NEW k \in 0..(maxRetries - 1) PROVE total[k] <= 15 /\ total[k] \in Nat
    <2>1. \A j \in {1, 2, 3, 4, 5} : seconds[j] <= 15 /\ seconds[j] \in Nat
      OBVIOUS
    <2> HIDE DEF seconds
    <2>2. k + 1 \in {1, 2, 3, 4, 5} /\ total[k] = seconds[k + 1]
      BY <1>1
    <2> QED
      BY <2>1, <2>2
  <1> HIDE DEF total
  <1>4. \A k \in 0..(maxRetries - 1) :
          total[k] < ProbeDelay + (ProbeFailures - 1) * ProbePeriod
    <2>1. ProbeFailures - 1 \in Nat /\ ProbePeriod \in Nat /\ ProbeDelay \in Nat
      BY StartupConstants
    <2>2. \A m, p \in Nat : m * p \in Nat
      OBVIOUS
    <2>3. ProbeDelay + (ProbeFailures - 1) * ProbePeriod \in Nat
      BY <2>1, <2>2
    <2> QED
      BY <1>3, <2>3
  <1>5. Init => StartupInv /\ OnTime(total)
    BY <1>2, InitStartup, StartupConstants DEF Init, OnTime, Starting, Doubling
  <1>6. StartupInv /\ OnTime(total) /\ [Next]_vars => (StartupInv /\ OnTime(total))'
    BY <1>2, NextStartup, NextOnTime
  <1>7. StartupInv /\ OnTime(total) /\ [Next]_vars =>
          [phase' = "down" /\ ended' = "probe" /\ phase \in Starting => slow]_vars
    BY <1>2, <1>4, ProbeInTime
  <1> QED
    BY <1>5, <1>6, <1>7, PTL DEF Spec, ProbeSparesRetries
=============================================================================
