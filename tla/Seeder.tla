------------------------------- MODULE Seeder -------------------------------
(***************************************************************************)
(* The one-shot seeder (test/seed, the seeder service of docker-compose.yml)*)
(* beside the API.  Of the API it needs only what AtomicIngest promises:    *)
(* each run of the container posts one batch of its own, with the same rows *)
(* as every other run, so a run is named like the batch it posts.           *)
(*                                                                          *)
(* The sentinel file and the database live on the same volume and survive   *)
(* every kill of either container.                                          *)
(***************************************************************************)
EXTENDS AtomicIngest, FiniteSets

ASSUME SeedAssumption == \A r \in Batches : Size[r] \in Nat \ {0}

VARIABLES spc,        \* where each run of the seeder is, or how it ended
          sent,       \* the runs whose POST was sent
          sentinel    \* /data/.seeded exists

seederVars == <<spc, sent, sentinel>>

SeederInit ==
  /\ AtomicInit
  /\ spc = [r \in Batches |-> "idle"]
  /\ sent = {}
  /\ sentinel = FALSE

Running(r) == spc[r] \in {"files", "posting", "ingested"}

SGoto(r, label) == spc' = [spc EXCEPT ![r] = label]

-----------------------------------------------------------------------------
\* Mutant of StartRun: the sentinel is not looked at.
StartRunAlways(r) ==
  /\ spc[r] = "idle"
  /\ \A s \in Batches : ~Running(s)
  /\ SGoto(r, "files")
  /\ UNCHANGED <<sent, sentinel, atomicVars>>

\* docker compose up: one container of that name, restart "no"; run() stats the sentinel.
\* A stat that fails is taken for "absent", as in the code; that one fails on a file that is
\* there is left out.
StartRun(r) ==
  /\ spc[r] = "idle"
  /\ \A s \in Batches : ~Running(s)
  /\ SGoto(r, IF sentinel THEN "exit0" ELSE "files")
  /\ UNCHANGED <<sent, sentinel, atomicVars>>

\* Both JSON files are written, and the batch is posted.
Post(r) ==
  /\ spc[r] = "files"
  /\ SGoto(r, "posting")
  /\ sent' = sent \cup {r}
  /\ UNCHANGED <<sentinel, atomicVars>>

\* writeJSONFile fails.
FilesFail(r) ==
  /\ spc[r] = "files"
  /\ SGoto(r, "exit1")
  /\ UNCHANGED <<sent, sentinel, atomicVars>>

\* Mutant of PostReturns: resp.StatusCode is not checked.
PostReturnsUnchecked(r) ==
  /\ spc[r] = "posting"
  /\ answer[r] # "none"
  /\ SGoto(r, IF answer[r] = "lost" THEN "exit1" ELSE "ingested")
  /\ UNCHANGED <<sent, sentinel, atomicVars>>

\* postBatch: client.Do fails, while the API may still be at work on the request.
PostBreaks(r) ==
  /\ spc[r] = "posting"
  /\ SGoto(r, "exit1")
  /\ UNCHANGED <<sent, sentinel, atomicVars>>

\* postBatch: no timeout and no retry; no answer or a status >= 400 ends the run.
PostReturns(r) ==
  /\ spc[r] = "posting"
  /\ answer[r] # "none"
  /\ SGoto(r, IF answer[r] = "created" THEN "ingested" ELSE "exit1")
  /\ UNCHANGED <<sent, sentinel, atomicVars>>

\* Mutant of WriteSentinel: written while the POST is still open.
WriteSentinelEarly(r) ==
  /\ spc[r] \in {"posting", "ingested"}
  /\ sentinel' = TRUE
  /\ SGoto(r, "exit0")
  /\ UNCHANGED <<sent, atomicVars>>

WriteSentinel(r) ==
  /\ spc[r] = "ingested"
  /\ sentinel' = TRUE
  /\ SGoto(r, "exit0")
  /\ UNCHANGED <<sent, atomicVars>>

\* os.WriteFile fails, before or after it created the file.
SentinelFails(r) ==
  /\ spc[r] = "ingested"
  /\ sentinel' \in {sentinel, TRUE}
  /\ SGoto(r, "exit1")
  /\ UNCHANGED <<sent, atomicVars>>

\* The container is stopped or killed; the API goes on with a request it has.
Kill(r) ==
  /\ Running(r)
  /\ SGoto(r, "killed")
  /\ UNCHANGED <<sent, sentinel, atomicVars>>

SeederStep(r) ==
  \/ StartRun(r) \/ Post(r) \/ FilesFail(r) \/ PostBreaks(r) \/ PostReturns(r)
  \/ WriteSentinel(r) \/ SentinelFails(r) \/ Kill(r)

\* The API, as AtomicIngest promises, on the requests it got.
ApiStep(r) ==
  /\ r \in sent
  /\ StoreBatch(r) \/ Accept(r) \/ Refuse(r) \/ Lose({r})
  /\ UNCHANGED seederVars

SeederNext == \E r \in Batches : SeederStep(r) \/ ApiStep(r)

SeederSpec == SeederInit /\ [][SeederNext]_<<atomicVars, seederVars>>

-----------------------------------------------------------------------------
Stored == {r \in Batches : Has(r)}

(* The sentinel is never ahead of the data: a volume that is marked as       *)
(* seeded holds a whole seed, so no later run skips an empty database.       *)
SentinelMeansSeeded == sentinel => Stored # {}

(* Who waits for the seeder to exit with 0 (wait-seeder.sh) finds the seed   *)
(* in the database, whether this run posted it or an earlier one.            *)
ExitZeroMeansSeeded == \A r \in Batches : spc[r] = "exit0" => Stored # {}

(* Every copy of the seed beyond the first is one of a run that was sent and *)
(* did not get to its end; runs that end well never add a second copy.       *)
ExtraCopiesAreFailures ==
  \A r, s \in Stored : r # s =>
    \E f \in {r, s} : spc[f] \in {"exit1", "killed"}

(* The inductive invariant behind the three above.  Of the runs that posted  *)
(* or are about to, at most one did not fail: a later one started without a  *)
(* sentinel, so the earlier one had not come to its good end.                *)
Unfailed(r) == Running(r) \/ (spc[r] = "exit0" /\ r \in sent)

SeederTypeOK ==
  /\ rows \in Seq([req : Batches, n : Nat])
  /\ answer \in [Batches -> {"none", "created", "bad_request", "server_error", "lost"}]
  /\ spc \in [Batches -> {"idle", "files", "posting", "ingested", "exit0", "exit1", "killed"}]
  /\ sent \subseteq Batches
  /\ sentinel \in BOOLEAN

SeederInv ==
  /\ SeederTypeOK
  /\ \A r \in Batches : Has(r) => r \in sent
  /\ \A r \in Batches : spc[r] \in {"idle", "files"} => r \notin sent
  /\ \A r \in Batches : spc[r] \in {"posting", "ingested"} => r \in sent
  /\ \A r \in Batches : answer[r] = "created" => Has(r)
  /\ \A r \in Batches : spc[r] = "ingested" => answer[r] = "created"
  /\ \A r \in Batches : spc[r] = "exit0" => sentinel
  /\ sentinel => Stored # {}
  /\ \A r, s \in Batches : Unfailed(r) /\ Unfailed(s) => r = s

(* README.md, Quickstart: the seeder posts exactly once, re-runs are no-ops. *)
SeededOnce == Cardinality(Stored) <= 1
=============================================================================
