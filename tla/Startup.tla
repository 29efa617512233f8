------------------------------ MODULE Startup ------------------------------
(***************************************************************************)
(* main: the operator reads its environment, clones the repository,        *)
(* connects to the database when one is configured (InitializeWithRetry),  *)
(* adds its health checks and runs the manager.  Whatever fails ends the   *)
(* process, and the kubelet starts it again with an empty disk.            *)
(*                                                                         *)
(* Meanwhile the kubelet probes /healthz, which the manager serves only    *)
(* once it runs, and which then reports on the database as well.  Time is  *)
(* counted in seconds; a call takes no time unless the other side hangs.   *)
(***************************************************************************)
EXTENDS Integers, Sequences

CONSTANTS
  maxRetries,     \* attempts to connect that main allows
  MaxBackoff,     \* longest wait between two attempts
  ProbeDelay,     \* the kubelet's first probe,
  ProbePeriod,    \* the time between two probes,
  ProbeFailures,  \* and how many in a row end the process
  StartupBudget   \* how often each event of the environment may happen

StartupEvents == {"remote", "database", "deploy", "end"}

ASSUME StartupAssumption ==
  /\ maxRetries \in Nat \ {0} /\ MaxBackoff \in Nat \ {0}
  /\ ProbeDelay \in Nat /\ ProbePeriod \in Nat /\ ProbeFailures \in Nat \ {0}
  /\ StartupBudget \in [StartupEvents -> Nat]

\* What the Deployment gives: GIT_REPO_URL, a readable key, DB_HOST and
\* DB_USERNAME.
Environment == [repoURL : BOOLEAN, sshKey : BOOLEAN, dbHost : BOOLEAN, dbUsername : BOOLEAN]

Conditions == {"up", "refuses", "hangs"}

VARIABLES
  env,        \* the environment variables of the container
  remote,     \* the Git remote
  database,
  phase,      \* what main is doing
  cloned,     \* there is a clone on the container's disk
  pool,       \* the client has a connection pool
  attempt,    \* attempts to connect that failed
  backoff,    \* the next wait
  remaining,  \* what is left of the current one
  due,        \* seconds to the next probe
  missed,     \* probes that failed in a row
  ended,      \* what ended the last process
  slow,       \* history: a call of this process has taken time
  waits,      \* history: the waits between attempts in this process
  budget

outside  == <<env, remote, database>>
progress == <<phase, cloned, pool, attempt, backoff, remaining, waits>>
probing  == <<due, missed>>
vars == <<outside, progress, probing, ended, slow, budget>>

Starting == {"configure", "clone", "connect", "backoff"}

StartupTypeOK ==
  /\ env \in Environment /\ remote \in Conditions /\ database \in Conditions
  /\ phase \in {"down", "running"} \union Starting
  /\ cloned \in BOOLEAN /\ pool \in BOOLEAN
  /\ attempt \in 0..maxRetries /\ backoff \in 1..MaxBackoff
  /\ remaining \in 0..MaxBackoff
  /\ remaining > 0 => phase = "backoff"
  /\ due \in Nat /\ missed \in 0..(ProbeFailures - 1)
  /\ ended \in {"none", "error", "probe"} /\ slow \in BOOLEAN
  /\ waits \in Seq(1..MaxBackoff)
  /\ budget \in [StartupEvents -> Nat]

\* Nothing of a process is left.
Cleared ==
  /\ cloned' = FALSE /\ pool' = FALSE
  /\ attempt' = 0 /\ backoff' = 1 /\ remaining' = 0 /\ waits' = <<>>
  /\ slow' = FALSE /\ due' = 0 /\ missed' = 0

Init ==
  /\ env \in Environment /\ remote = "up" /\ database = "up"
  /\ phase = "down" /\ cloned = FALSE /\ pool = FALSE
  /\ attempt = 0 /\ backoff = 1 /\ remaining = 0 /\ waits = <<>>
  /\ due = 0 /\ missed = 0 /\ ended = "none" /\ slow = FALSE
  /\ budget = StartupBudget

Spend(event) ==
  /\ budget[event] > 0
  /\ budget' = [budget EXCEPT ![event] = @ - 1]

---------------------------------------------------------------------------
(* main                                                                    *)

\* The container starts; the kubelet begins to count.
Start ==
  /\ phase = "down"
  /\ phase' = "configure"
  /\ due' = ProbeDelay
  /\ UNCHANGED <<outside, cloned, pool, attempt, backoff, remaining, waits, missed, ended,
                 slow, budget>>

\* os.Exit(1)
Exit == phase' = "down" /\ ended' = "error" /\ Cleared

\* main looks at GIT_REPO_URL, and git.NewClient reads the key.
Configure ==
  /\ phase = "configure"
  /\ IF env.repoURL /\ env.sshKey
     THEN /\ phase' = "clone"
          /\ UNCHANGED <<cloned, pool, attempt, backoff, remaining, waits, probing, ended, slow>>
     ELSE Exit
  /\ UNCHANGED <<outside, budget>>

\* Mutant of Cloned: the database is not optional.
ClonedConnects ==
  /\ phase = "clone" /\ remote = "up"
  /\ IF ~(env.dbHost /\ env.dbUsername)
     THEN Exit
     ELSE /\ phase' = "connect"
          /\ cloned' = TRUE
          /\ UNCHANGED <<pool, attempt, backoff, remaining, waits, probing, ended, slow>>
  /\ UNCHANGED <<outside, budget>>

\* Without DB_HOST there is no database sync; without DB_USERNAME
\* database.NewClient fails.
Cloned ==
  /\ phase = "clone" /\ remote = "up"
  /\ IF env.dbHost /\ ~env.dbUsername
     THEN Exit
     ELSE /\ phase' = IF env.dbHost THEN "connect" ELSE "running"
          /\ cloned' = TRUE
          /\ UNCHANGED <<pool, attempt, backoff, remaining, waits, probing, ended, slow>>
  /\ UNCHANGED <<outside, budget>>

CloneFails ==
  /\ phase = "clone" /\ remote = "refuses"
  /\ Exit
  /\ UNCHANGED <<outside, budget>>

\* A pool whose Ping succeeds is kept; main adds the health check of the
\* database and runs the manager.
Connected ==
  /\ phase = "connect" /\ database = "up"
  /\ pool' = TRUE
  /\ phase' = "running"
  /\ UNCHANGED <<outside, cloned, attempt, backoff, remaining, waits, probing, ended, slow,
                 budget>>

Wait ==
  /\ phase' = "backoff"
  /\ remaining' = backoff
  /\ waits' = Append(waits, backoff)
  /\ attempt' = attempt + 1
  /\ UNCHANGED <<cloned, pool, backoff, probing, ended, slow>>

\* Mutant of ConnectFails: the loop ends without an error.
ConnectFailsSilently ==
  /\ phase = "connect" /\ database = "refuses"
  /\ IF attempt < maxRetries - 1
     THEN Wait
     ELSE /\ phase' = "running" /\ attempt' = attempt + 1
          /\ UNCHANGED <<cloned, pool, backoff, remaining, waits, probing, ended, slow>>
  /\ UNCHANGED <<outside, budget>>

\* Mutant of ConnectFails: a wait follows every attempt, as in the design.
ConnectFailsAndWaits ==
  /\ phase = "connect" /\ database = "refuses"
  /\ IF attempt < maxRetries THEN Wait ELSE Exit
  /\ UNCHANGED <<outside, budget>>

ConnectFails ==
  /\ phase = "connect" /\ database = "refuses"
  /\ IF attempt < maxRetries - 1 THEN Wait ELSE Exit
  /\ UNCHANGED <<outside, budget>>

\* Mutant of NextBackoff: the cap is a floor.
NextBackoffAtLeast == IF 2 * backoff < MaxBackoff THEN MaxBackoff ELSE backoff

NextBackoff == IF 2 * backoff > MaxBackoff THEN MaxBackoff ELSE 2 * backoff

\* Mutant of BackoffOver: the timer is not awaited.
BackoffCut ==
  /\ phase = "backoff"
  /\ phase' = "connect"
  /\ backoff' = NextBackoff
  /\ UNCHANGED <<outside, cloned, pool, attempt, remaining, waits, probing, ended, slow, budget>>

BackoffOver ==
  /\ phase = "backoff" /\ remaining = 0
  /\ phase' = "connect"
  /\ backoff' = NextBackoff
  /\ UNCHANGED <<outside, cloned, pool, attempt, remaining, waits, probing, ended, slow, budget>>

Main == Configure \/ Cloned \/ CloneFails \/ Connected \/ ConnectFails \/ BackoffOver

---------------------------------------------------------------------------
(* The kubelet and the others                                              *)

\* The checks "healthz" and "database" of a manager that runs.
Healthy == phase = "running" /\ (env.dbHost => pool /\ database = "up")

Probe ==
  /\ phase # "down" /\ due = 0
  /\ \/ /\ Healthy
        /\ missed' = 0 /\ due' = ProbePeriod
        /\ UNCHANGED <<progress, ended, slow>>
     \/ /\ ~Healthy /\ missed + 1 < ProbeFailures
        /\ missed' = missed + 1 /\ due' = ProbePeriod
        /\ UNCHANGED <<progress, ended, slow>>
     \/ /\ ~Healthy /\ missed + 1 = ProbeFailures
        /\ phase' = "down" /\ ended' = "probe" /\ Cleared
  /\ UNCHANGED <<outside, budget>>

\* The process waits for the remote or the database, which do not answer.
Hanging == \/ phase = "clone" /\ remote = "hangs"
           \/ phase = "connect" /\ database = "hangs"

\* Time passes while the process waits or the manager runs.
Tick ==
  /\ due > 0
  /\ Hanging \/ phase = "running" \/ remaining > 0
  /\ due' = due - 1
  /\ remaining' = IF remaining > 0 THEN remaining - 1 ELSE 0
  /\ slow' = (slow \/ Hanging)
  /\ UNCHANGED <<outside, phase, cloned, pool, attempt, backoff, waits, missed, ended, budget>>

RemoteChanges(c) ==
  /\ c # remote /\ Spend("remote")
  /\ remote' = c
  /\ UNCHANGED <<env, database, progress, probing, ended, slow>>

DatabaseChanges(c) ==
  /\ c # database /\ Spend("database")
  /\ database' = c
  /\ UNCHANGED <<env, remote, progress, probing, ended, slow>>

\* Administrators change the Deployment, and a new pod replaces the old one.
Deploy(e) ==
  /\ e # env /\ Spend("deploy")
  /\ env' = e
  /\ phase' = "down" /\ ended' = "none" /\ Cleared
  /\ UNCHANGED <<remote, database>>

\* The manager returns an error: another replica has taken the lease.
ManagerEnds ==
  /\ phase = "running" /\ Spend("end")
  /\ Exit
  /\ UNCHANGED outside

Next ==
  \/ Start \/ Main \/ Probe \/ Tick
  \/ \E c \in Conditions : RemoteChanges(c) \/ DatabaseChanges(c)
  \/ \E e \in Environment : Deploy(e)
  \/ ManagerEnds

Spec == Init /\ [][Next]_vars

\* The kubelet starts the container and probes, main goes on, time passes.
FairSpec == Spec /\ WF_vars(Start) /\ WF_vars(Main) /\ WF_vars(Probe) /\ WF_vars(Tick)

---------------------------------------------------------------------------
(* Properties                                                              *)

\* The controllers run on a clone, and the database sync runs, and is probed,
\* on a pool that has answered; neither is left from an earlier process.
RunsPrepared == phase = "running" => cloned /\ (pool <=> env.dbHost)

\* The process connects at most maxRetries times, waits between two attempts
\* and never after the last one, and each wait is twice the one before, up to
\* the cap.
AttemptsSpaced ==
  /\ phase \in {"connect", "backoff"} => attempt < maxRetries
  /\ phase \in {"connect", "backoff", "running"} => Len(waits) = attempt
  /\ \A k \in DOMAIN waits :
       waits[k] = IF k = 1 THEN 1
                  ELSE IF 2 * waits[k - 1] > MaxBackoff THEN MaxBackoff ELSE 2 * waits[k - 1]

\* The waits fit into the time that the liveness probe leaves for the start:
\* the kubelet ends a process that is still starting only when a call hung.
ProbeSparesRetries ==
  [][phase' = "down" /\ ended' = "probe" /\ phase \in Starting => slow]_vars

\* What the operator needs.
Complete == env.repoURL /\ env.sshKey /\ (env.dbHost => env.dbUsername)
Reachable == remote = "up" /\ (env.dbHost => database = "up")

\* Whatever went wrong before, once the Deployment is complete and the remote
\* and the database stay reachable, the operator comes to run and is not ended
\* again.
ComesToRun == <>[](Complete /\ Reachable) => <>[](phase = "running")
=============================================================================
