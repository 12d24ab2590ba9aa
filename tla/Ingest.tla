------------------------------- MODULE Ingest -------------------------------
(***************************************************************************)
(* POST /v1/transactions and POST /v1/transactions/batch: the handlers,     *)
(* IngestService and Repo.InsertBatch.  A single transaction is a batch of  *)
(* one row; its validation and insertion are the same.                      *)
(***************************************************************************)
EXTENDS Store, Domain

\* Ingest requests; Payload[b] is the body, in order.  A client's retry is a
\* request of its own with the same payload.
CONSTANT Batches

ASSUME BatchesAssumption ==
  /\ Batches \subseteq Requests
  /\ DOMAIN Payload = Batches
  /\ \A b \in Batches : Len(Payload[b]) \in Nat

VARIABLES pc,       \* where the handler of each batch is
          next,     \* InsertBatch's loop index
          answer    \* what the client got: a status, or "lost"

ingestVars == <<pc, next, answer>>

IngestInit ==
  /\ pc = [b \in Batches |-> "idle"]
  /\ next = [b \in Batches |-> 1]
  /\ answer = [b \in Batches |-> "none"]

Goto(b, label) == pc' = [pc EXCEPT ![b] = label]

AllValid(b) == \A n \in 1..Len(Payload[b]) : Valid(Payload[b][n])

InFlight(b) == pc[b] \notin {"idle", "answered"}

-----------------------------------------------------------------------------
(* IngestService.Single and Batch: an empty batch is accepted as it is, one  *)
(* invalid row refuses the batch, and otherwise InsertBatch starts.          *)
\* Mutant of Verdict: only the first row is validated.
VerdictFirstRow(b) ==
  IF Len(Payload[b]) = 0 THEN "stored"
  ELSE IF Valid(Payload[b][1]) THEN "begin"
  ELSE "rejected"

Verdict(b) ==
  IF Len(Payload[b]) = 0 THEN "stored"
  ELSE IF AllValid(b) THEN "begin"
  ELSE "rejected"

\* The handlers: a body decodeJSON does not read, whatever the reason, is refused.
\* Shutdown closes the listener, but a connection already accepted may still bring its request.
Receive(b) ==
  /\ server # "down"
  /\ pc[b] = "idle"
  /\ Goto(b, Verdict(b)) \/ Goto(b, "rejected")
  /\ UNCHANGED <<next, answer, storeVars>>

\* BeginTx
BeginBatch(b) ==
  /\ pc[b] = "begin"
  /\ Acquire(b)
  /\ Goto(b, "insert")
  /\ UNCHANGED <<next, answer, server, ctx, rows, scratch>>

\* BeginTx fails: the context ended while it waited, or the driver refused.
BeginFails(b) ==
  /\ pc[b] = "begin"
  /\ ctx[b] = "done" \/ conn = Free
  /\ Goto(b, "failed")
  /\ UNCHANGED <<next, answer, storeVars>>

\* Mutant of InsertRow: the statement is run on the pool, not in the transaction.
InsertRowAutocommit(b) ==
  /\ pc[b] = "insert"
  /\ conn = b /\ ctx[b] = "live"
  /\ next[b] <= Len(Payload[b])
  /\ SchemaAccepts(Payload[b][next[b]])
  /\ rows' = Append(rows, [req |-> b, n |-> next[b]])
  /\ next' = [next EXCEPT ![b] = @ + 1]
  /\ UNCHANGED <<pc, answer, server, conn, ctx, scratch>>

\* One turn of the ExecContext loop.
InsertRow(b) ==
  /\ pc[b] = "insert"
  /\ conn = b /\ ctx[b] = "live"
  /\ next[b] <= Len(Payload[b])
  /\ SchemaAccepts(Payload[b][next[b]])
  /\ scratch' = Append(scratch, [req |-> b, n |-> next[b]])
  /\ next' = [next EXCEPT ![b] = @ + 1]
  /\ UNCHANGED <<pc, answer, server, conn, ctx, rows>>

\* Mutant of CommitBatch: an error after the commit is returned as a failed insert.
CommitBatchLateError(b) ==
  /\ pc[b] = "insert"
  /\ next[b] > Len(Payload[b])
  /\ CommitTx(b)
  /\ Goto(b, "stored") \/ Goto(b, "failed")
  /\ UNCHANGED <<next, answer, server, ctx>>

CommitBatch(b) ==
  /\ pc[b] = "insert"
  /\ next[b] > Len(Payload[b])
  /\ CommitTx(b)
  /\ Goto(b, "stored")
  /\ UNCHANGED <<next, answer, server, ctx>>

(***************************************************************************)
(* Prepare, an insert or the commit fails: the context is done, the         *)
(* transaction was rolled back behind the handler's back, a CHECK refused   *)
(* the row, the disk is full.  InsertBatch returns the error, and its       *)
(* deferred Rollback runs; after a COMMIT refused by SQLite it finds        *)
(* nothing left to undo, which is the same state.                           *)
(***************************************************************************)
StatementFails(b) ==
  /\ pc[b] = "insert"
  /\ Goto(b, "unwind")
  /\ UNCHANGED <<next, answer, storeVars>>

\* Mutant of DeferredRollback: no defer tx.Rollback().
DeferredRollbackMissing(b) ==
  /\ pc[b] = "unwind"
  /\ Goto(b, "failed")
  /\ UNCHANGED <<next, answer, storeVars>>

DeferredRollback(b) ==
  /\ pc[b] = "unwind"
  /\ Goto(b, "failed")
  /\ \/ RollbackTx(b)
     \/ conn # b /\ UNCHANGED <<conn, rows, scratch>>
  /\ UNCHANGED <<next, answer, server, ctx>>

(***************************************************************************)
(* Tx.awaitDone, the goroutine database/sql runs beside the handler: when   *)
(* the context is done it rolls back, wherever the handler is.              *)
(***************************************************************************)
AwaitDone(b) ==
  /\ pc[b] \in {"insert", "unwind"}
  /\ ctx[b] = "done"
  /\ RollbackTx(b)
  /\ UNCHANGED <<pc, next, answer, server, ctx>>

-----------------------------------------------------------------------------
\* Mutant of Status: a failed InsertBatch answers as a success.
StatusIgnoresError(label) ==
  CASE label = "stored" -> "created" [] label = "rejected" -> "bad_request" [] label = "failed" -> "created"

\* respondJSON 201, respondProblem 400, respondError 500
Status(label) ==
  CASE label = "stored" -> "created"
    [] label = "rejected" -> "bad_request"
    [] label = "failed" -> "server_error"

\* The answer is written; it reaches the client, or the client is gone.
Respond(b) ==
  /\ pc[b] \in {"stored", "rejected", "failed"}
  /\ \E a \in {Status(pc[b]), "lost"} : answer' = [answer EXCEPT ![b] = a]
  /\ Goto(b, "answered")
  /\ UNCHANGED <<next, storeVars>>

Cancel(b) ==
  /\ InFlight(b)
  /\ CancelContext(b)
  /\ UNCHANGED ingestVars

\* The end of the process takes the handlers with it.
LoseHandlers ==
  /\ pc' = [b \in Batches |-> IF InFlight(b) THEN "answered" ELSE pc[b]]
  /\ answer' = [b \in Batches |-> IF InFlight(b) THEN "lost" ELSE answer[b]]
  /\ UNCHANGED next

Handle(b) ==
  \/ BeginBatch(b) \/ BeginFails(b)
  \/ InsertRow(b) \/ CommitBatch(b) \/ StatementFails(b) \/ DeferredRollback(b)
  \/ Respond(b)

IngestStep(b) == Receive(b) \/ Handle(b) \/ AwaitDone(b) \/ Cancel(b)
=============================================================================
