------------------------------ MODULE Service ------------------------------
(***************************************************************************)
(* The whole API server: ingest and report handlers running concurrently    *)
(* over the one pooled connection, cancelled requests, SIGTERM, crashes and *)
(* restarts.                                                                *)
(***************************************************************************)
EXTENDS Ingest, Reports

ASSUME RequestsAssumption == Requests = Batches \cup Queries /\ Batches \cap Queries = {}

serviceVars == <<storeVars, ingestVars, reportVars>>

ServiceInit == StoreInit /\ IngestInit /\ ReportsInit

-----------------------------------------------------------------------------
Lifecycle == (Start \/ Signal) /\ UNCHANGED <<ingestVars, reportVars>>

\* Mutant of Idle: Shutdown also waits for connections that never sent a request.
AllAnswered == \A b \in Batches : pc[b] = "answered"

Idle == (\A b \in Batches : ~InFlight(b)) /\ (\A q \in Queries : ~Reporting(q))

\* Shutdown returns once every handler has: "server stopped cleanly".
DrainedExit ==
  /\ server = "draining"
  /\ Idle
  /\ Stop
  /\ UNCHANGED <<ingestVars, reportVars>>

\* The process is killed, or Shutdown gives up after SHUTDOWN_TIMEOUT and run
\* returns with handlers still at work.
Crash ==
  /\ Stop
  /\ LoseHandlers
  /\ LoseReports

ServiceNext ==
  \/ \E b \in Batches : IngestStep(b) /\ UNCHANGED reportVars
  \/ \E q \in Queries : ReportStep(q) /\ UNCHANGED ingestVars
  \/ Lifecycle
  \/ DrainedExit
  \/ Crash

(***************************************************************************)
(* Handlers are goroutines and keep running; the 30 s timer of a request    *)
(* that is still being handled fires; Shutdown notices that nothing is left *)
(* to wait for.  Nothing is assumed of clients, of SIGTERM, of restarts, or *)
(* of the order in which the pool serves those who wait for it.             *)
(***************************************************************************)
Fairness ==
  /\ \A b \in Batches : WF_serviceVars(Handle(b) /\ UNCHANGED reportVars)
  /\ \A b \in Batches : WF_serviceVars(Cancel(b) /\ UNCHANGED reportVars)
  /\ \A q \in Queries : WF_serviceVars(Report(q) /\ UNCHANGED ingestVars)
  /\ \A q \in Queries : WF_serviceVars(CancelQuery(q) /\ UNCHANGED ingestVars)
  /\ WF_serviceVars(DrainedExit)

ServiceSafety == ServiceInit /\ [][ServiceNext]_serviceVars

ServiceSpec == ServiceSafety /\ Fairness

-----------------------------------------------------------------------------
RowName == [req : Batches, n : Nat]

\* The types of all variables.
ServiceTypeOK ==
  /\ server \in {"down", "up", "draining"}
  /\ conn \in Requests \cup {Free}
  /\ ctx \in [Requests -> {"live", "done"}]
  /\ rows \in Seq(RowName) /\ scratch \in Seq(RowName)
  /\ pc \in [Batches -> {"idle", "begin", "insert", "unwind", "stored", "rejected",
                         "failed", "answered"}]
  /\ next \in [Batches -> Nat]
  /\ answer \in [Batches -> {"none", "created", "bad_request", "server_error", "lost"}]
  /\ qpc \in [Queries -> {"idle", "waiting", "cursor", "refused", "failed", "answered"}]
  /\ start \in [Queries -> Nat]
  /\ reply \in [Queries -> {"none", "ok", "bad_request", "unprocessable", "unavailable", "server_error",
                            "lost"}]

(* The connection is held by a request that is using it, never by one that   *)
(* waits for it, has answered or is gone: with a pool of one, any other      *)
(* holder would block the service, itself first (FindDuplicates must close   *)
(* its cursor before fetchGroupRows; InsertBatch must end its transaction on *)
(* every path).                                                              *)
HolderUsesConnection ==
  /\ \A b \in Batches : conn = b => pc[b] \in {"insert", "unwind"}
  /\ \A q \in Queries : conn = q => qpc[q] = "cursor"

(* Uncommitted rows exist only while the writer that inserted them holds the *)
(* connection, and are exactly what its loop has inserted so far; a reader   *)
(* never gets a connection with somebody's open transaction on it.           *)
UncommittedIsPrivate ==
  scratch # <<>> =>
    \E b \in Batches :
      /\ conn = b
      /\ Len(scratch) = next[b] - 1
      /\ \A i \in 1..Len(scratch) : scratch[i] = [req |-> b, n |-> i]

Has(b) == \E i \in DOMAIN rows : rows[i].req = b

\* The rows of b are all there, once, next to each other and in order.
Whole(b) ==
  \E k \in 0..Len(rows) :
    /\ k + Len(Payload[b]) <= Len(rows)
    /\ \A i \in DOMAIN rows :
         IF i > k /\ i <= k + Len(Payload[b]) THEN rows[i] = [req |-> b, n |-> i - k]
                                              ELSE rows[i].req # b

(* A batch is in the table as a whole and once, or not at all, whatever      *)
(* cancellation, error, rollback or crash met it (README.md, POST            *)
(* /v1/transactions/batch: Atomic).                                          *)
BatchesWhole == \A b \in Batches : Has(b) => Whole(b)

(* Who was told 201 has all rows stored, for good.                           *)
AcknowledgedIsStored == \A b \in Batches : answer[b] = "created" => Whole(b)

(* Who was told 400 or 500 has nothing stored and may send the batch again   *)
(* without making duplicates; only a lost answer leaves the client in doubt. *)
RefusedIsNotStored ==
  \A b \in Batches : answer[b] \in {"bad_request", "server_error"} => ~Has(b)

(* No CHECK constraint ever refuses a row InsertBatch is about to insert: all *)
(* that Validate lets through fits schema.sql, so a client that sends rows    *)
(* the table would refuse is told which (400), never that the server failed.  *)
ValidRowsFitSchema ==
  \A b \in Batches :
    pc[b] = "insert" /\ next[b] <= Len(Payload[b]) => SchemaAccepts(Payload[b][next[b]])

(* A batch with an invalid row is never stored, not even in part.            *)
InvalidNeverStored == \A b \in Batches : Has(b) => AllValid(b)

(* The inductive invariant behind the five above.  The loop of the holder of *)
(* the connection accounts for all of scratch, and how far a handler is      *)
(* decides whether its batch is in the table.                                *)
LoopAccountsForScratch ==
  /\ conn \notin Batches => scratch = <<>>
  /\ \A b \in Batches :
       /\ pc[b] \in {"idle", "begin"} => next[b] = 1
       /\ next[b] \in 1..(Len(Payload[b]) + 1)
       /\ conn = b => scratch = [i \in 1..(next[b] - 1) |-> [req |-> b, n |-> i]]

Unstored == {"idle", "begin", "insert", "unwind", "rejected", "failed"}

HandlerKnowsOutcome ==
  \A b \in Batches :
    /\ pc[b] \in Unstored => ~Has(b)
    /\ pc[b] = "stored" => Whole(b)
    /\ pc[b] # "answered" => answer[b] = "none"
    /\ pc[b] \in {"begin", "insert", "unwind"} => AllValid(b)

ServiceInv ==
  /\ ServiceTypeOK
  /\ HolderUsesConnection
  /\ LoopAccountsForScratch
  /\ HandlerKnowsOutcome
  /\ BatchesWhole
  /\ AcknowledgedIsStored
  /\ RefusedIsNotStored
  /\ InvalidNeverStored

-----------------------------------------------------------------------------
Prefix(v) == Table(SubSeq(rows, 1, v))

\* The table had v rows between two transactions: no batch is cut by v.
Boundary(v) ==
  /\ v \in 0..Len(rows)
  /\ v > 0 => rows[v].n = Len(Payload[rows[v].req])

(* Every statement of a report, on its own, returns what a committed state   *)
(* of the table gives, none older than the request, and a later statement    *)
(* never reads an older state than an earlier one.                           *)
StatementsReadCommitted ==
  \A q \in Queries : \A i \in DOMAIN got[q] :
    LET e == got[q][i]
    IN  /\ Boundary(e.seen)
        /\ e.seen >= (IF i = 1 THEN start[q] ELSE got[q][i - 1].seen)
        /\ ~e.cut => e.n = ResultSize(e.s, Prefix(e.seen), ask[q].win)

(* A report during which nothing was committed is the report of that state   *)
(* of the table: the six statements and the duplicate groups add up to the   *)
(* counts CountsByWindow promises.                                           *)
QuietReportIsExact ==
  \A q \in Queries :
    /\ reply[q] = "ok" /\ ask[q].kind \notin {"duplicate", "healthz", "orphaned", "ghost", "limbo"}
    /\ \A i \in DOMAIN got[q] : got[q][i].seen = start[q] /\ ~got[q][i].cut
    => ReportedCounts(q) = Counts(Prefix(start[q]), ask[q].win, Now)

(* Between the two queries of FindDuplicates a group can only grow: a        *)
(* reported group never has fewer rows than its occurrences.                 *)
GroupsNeverShrink ==
  \A q \in Queries : \A i \in DOMAIN got[q] :
    got[q][i].s.op = "rows" => got[q][i].n >= got[q][i].s.occ

-----------------------------------------------------------------------------
(* Every request the server took in is answered or lost with the server:     *)
(* the single connection is never waited for forever.                        *)
EveryRequestEnds ==
  /\ \A b \in Batches : InFlight(b) ~> ~InFlight(b)
  /\ \A q \in Queries : Reporting(q) ~> ~Reporting(q)

(* After SIGTERM the server stops, without help from SHUTDOWN_TIMEOUT.       *)
ShutdownEnds == server = "draining" ~> server = "down"

-----------------------------------------------------------------------------
(* Ingest, seen from its clients, is AtomicIngest. *)
Abstract == INSTANCE AtomicIngest WITH Size <- [b \in Batches |-> Len(Payload[b])]

AtomicSpec == Abstract!AtomicSpec

-----------------------------------------------------------------------------
(* README.md, GET /v1/anomalies: "each group carries all of its rows";       *)
(* sqlite_test.go: len(g.Rows) = g.Occurrences.                              *)
GroupsCarryAllRows ==
  \A q \in Queries : reply[q] = "ok" =>
    \A i \in DOMAIN got[q] : got[q][i].s.op = "rows" => got[q][i].n = got[q][i].s.occ

(* ARCHITECTURE.md, Errors -> HTTP: an error the domain does not know is     *)
(* answered with 500; a report one of whose statements failed before it had  *)
(* read all its rows is not answered 200.                                    *)
FailuresAreReported ==
  \A q \in Queries : reply[q] = "ok" =>
    \A i \in DOMAIN got[q] :
      LET e == got[q][i]
      IN  e.cut => e.n = ResultSize(e.s, Prefix(e.seen), ask[q].win)
=============================================================================
