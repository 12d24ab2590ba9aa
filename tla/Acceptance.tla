----------------------------- MODULE Acceptance -----------------------------
(***************************************************************************)
(* make acceptance: the volume of earlier demos is dropped, the two          *)
(* containers are started, scripts/wait-healthy.sh and wait-seeder.sh wait   *)
(* for them, and verify.sh compares the API's answers with the seed's        *)
(* oracle.  Before it, the containers of the demo ran as Seeder says; while  *)
(* it runs, nobody else starts a container.                                  *)
(***************************************************************************)
EXTENDS Seeder

CONSTANT Timeout   \* TIMEOUT / INTERVAL of wait-seeder.sh, in polls

ASSUME TimeoutAssumption == Timeout \in Nat \ {0}

VARIABLES step,      \* which line of the make target runs, or how it ended
          api,       \* State.Health.Status of yuno-api
          current,   \* the runs of the container yuno-seeder there is now
          polls

acceptanceVars == <<step, api, current, polls>>

vars == <<atomicVars, seederVars, acceptanceVars>>

Over == {"verify", "failed"}

AcceptanceInit ==
  /\ SeederInit
  /\ step = "demo" /\ api = "healthy" /\ current = {} /\ polls = 0

\* The demo and, while the target runs, the seeder and the API in their containers.
Containers ==
  \E r \in Batches :
    /\ SeederStep(r) \/ ApiStep(r)
    /\ spc[r] = "idle" => step = "demo"
    /\ current' = IF spc[r] = "idle" THEN {r} ELSE current
    /\ UNCHANGED <<step, api, polls>>

-----------------------------------------------------------------------------
\* The containers are removed, and with them their exit codes and the answers they got.
StopContainers ==
  /\ spc' = [r \in Batches |-> IF spc[r] = "idle" THEN "idle" ELSE "killed"]
  /\ answer' = [r \in Batches |-> IF r \in sent THEN "lost" ELSE answer[r]]
  /\ current' = {} /\ api' = "missing"
  /\ UNCHANGED <<sent, polls>>

\* Mutant of Reset: docker compose down without -v.
ResetKeepsVolume ==
  /\ step = "demo" /\ \E r \in Batches : spc[r] = "idle"
  /\ step' = "up"
  /\ StopContainers
  /\ UNCHANGED <<rows, sentinel>>

\* docker compose down -v: the containers go, and the volume with the database and the sentinel.
Reset ==
  /\ step = "demo" /\ \E r \in Batches : spc[r] = "idle"
  /\ step' = "up"
  /\ StopContainers
  /\ rows' = <<>> /\ sentinel' = FALSE

\* docker compose up starts the API.
Up ==
  /\ step = "up" /\ api = "missing"
  /\ api' = "starting"
  /\ UNCHANGED <<step, current, polls, atomicVars, seederVars>>

\* cmd/healthcheck exits with 0: /healthz answered 200 within its two seconds.
ProbeSucceeds ==
  /\ api = "starting"
  /\ api' = "healthy"
  /\ UNCHANGED <<step, current, polls, atomicVars, seederVars>>

\* It exited with 1 `retries` times in a row.
ProbesFail ==
  /\ step # "demo" /\ api \in {"starting", "healthy"}
  /\ api' = "unhealthy"
  /\ UNCHANGED <<step, current, polls, atomicVars, seederVars>>

\* depends_on service_healthy: up starts the seeder then, and fails if it never comes to that.
UpReturns ==
  /\ step = "up"
  /\ \/ /\ api = "healthy" /\ step' = "wait_healthy"
        /\ \E r \in Batches : StartRun(r) /\ current' = {r}
     \/ /\ api = "unhealthy" /\ step' = "failed"
        /\ UNCHANGED <<current, atomicVars, seederVars>>
  /\ UNCHANGED <<api, polls>>

\* wait-healthy.sh; up has already waited, so there is an answer at its first poll.
WaitHealthy ==
  /\ step = "wait_healthy"
  /\ step' = IF api = "healthy" THEN "wait_seeder" ELSE "failed"
  /\ UNCHANGED <<api, current, polls, atomicVars, seederVars>>

Exited == \A r \in current : spc[r] \in {"exit0", "exit1", "killed"}

\* Mutant of Poll: elapsed is not counted while the seeder runs.
PollForEver ==
  /\ step = "wait_seeder"
  /\ IF polls = Timeout THEN step' = "failed" /\ UNCHANGED polls
     ELSE \/ Exited /\ step' = "exit_code" /\ UNCHANGED polls
          \/ UNCHANGED <<step, polls>>
  /\ UNCHANGED <<api, current, atomicVars, seederVars>>

\* One turn of wait-seeder.sh's loop; docker inspect may fail, and a turn is counted.
Poll ==
  /\ step = "wait_seeder"
  /\ IF polls = Timeout THEN step' = "failed" /\ UNCHANGED polls
     ELSE \/ Exited /\ step' = "exit_code" /\ UNCHANGED polls
          \/ polls' = polls + 1 /\ UNCHANGED step
  /\ UNCHANGED <<api, current, atomicVars, seederVars>>

\* The second docker inspect reads State.ExitCode ("failed", 127, if it does not get it).
ExitCode ==
  /\ step = "exit_code"
  /\ \/ /\ step' = "verify"
        /\ \A r \in current : spc[r] = "exit0"
     \/ step' = "failed"
  /\ UNCHANGED <<api, current, polls, atomicVars, seederVars>>

Target == Reset \/ Up \/ UpReturns \/ WaitHealthy \/ Poll \/ ExitCode

AcceptanceNext == Containers \/ ProbeSucceeds \/ ProbesFail \/ Target

(***************************************************************************)
(* make goes on to the next line, and Docker runs the healthcheck every two  *)
(* seconds and gives up after 30 failures.  Nothing is assumed of the        *)
(* seeder, whose POST has no timeout, nor of the API.                        *)
(***************************************************************************)
AcceptanceFairness ==
  /\ WF_vars(Up) /\ WF_vars(UpReturns) /\ WF_vars(WaitHealthy) /\ WF_vars(Poll) /\ WF_vars(ExitCode)
  /\ WF_vars(ProbeSucceeds \/ ProbesFail)

AcceptanceSafety == AcceptanceInit /\ [][AcceptanceNext]_vars

AcceptanceSpec == AcceptanceSafety /\ AcceptanceFairness

-----------------------------------------------------------------------------
(* verify.sh finds exactly one copy of the seed, all of it, whatever became  *)
(* of earlier demos on this machine: of their stored, half-finished or still *)
(* running seeders nothing is left, and this seeder's POST is over           *)
(* (wait-seeder.sh "eliminate[s] the race" with a partial ingest).           *)
VerifySeesOneSeed ==
  step = "verify" => \E r \in current : answer[r] = "created" /\ rows = RowsOf(r)

(* The inductive invariant behind it.  Once the target has dropped the volume *)
(* the runs of earlier demos are dead and what they posted is answered for,  *)
(* so all that is in the database comes from the container the target        *)
(* started, and that one cannot end well without having posted.              *)
Waited == {"wait_healthy", "wait_seeder", "exit_code", "verify"}

EarlierRunsAreOver ==
  step # "demo" =>
    \A r \in Batches \ current :
      spc[r] \in {"idle", "killed"} /\ (r \in sent => answer[r] # "none")

OnlyCurrentStores ==
  step # "demo" => rows = <<>> \/ \E r \in current : rows = RowsOf(r)

AcceptanceInv ==
  /\ SeederInv
  /\ step \in {"demo", "up"} \cup Waited \cup Over
  /\ current \subseteq Batches /\ \A r, s \in current : r = s
  /\ \A r \in Batches : answer[r] # "none" => r \in sent
  /\ EarlierRunsAreOver
  /\ OnlyCurrentStores
  /\ step = "up" => current = {} /\ ~sentinel
  /\ step \in Waited => current # {}
  /\ step # "demo" => \A r \in current : spc[r] = "exit0" => answer[r] = "created"
  /\ step = "verify" => \A r \in current : spc[r] = "exit0"

(* The target comes to an end, even if the seeder hangs in its POST or the   *)
(* API never becomes healthy (TIMEOUT, retries).                             *)
AcceptanceEnds == step \notin {"demo"} \cup Over ~> step \in Over
=============================================================================
