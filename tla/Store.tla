------------------------------- MODULE Store -------------------------------
(***************************************************************************)
(* The process-wide resources every request goes through: the server's      *)
(* lifecycle (cmd/server), the request contexts (chi's Timeout and the      *)
(* client's connection), the database/sql pool of exactly ONE connection    *)
(* (sqlite.Open) and the SQLite table behind it.                            *)
(*                                                                          *)
(* A stored row is named [req, n]: the n-th transaction of request req.     *)
(* rows is what is committed and survives a crash; scratch is what the open *)
(* transaction has inserted and not committed.  SQLite shows a connection   *)
(* its own uncommitted rows, so a statement reads Visible, whoever runs it. *)
(***************************************************************************)
EXTENDS Naturals, Sequences

CONSTANTS Requests,   \* all requests, of ingest and of the reports
          Payload,    \* Payload[r][n]: the transaction in the row [req |-> r, n |-> n]
          Free        \* no request holds the connection

ASSUME FreeAssumption == Free \notin Requests

VARIABLES server,    \* "down", "up", or "draining" after SIGTERM
          conn,      \* the holder of the pooled connection
          ctx,       \* per request: "live", or "done" once cancelled
          rows,
          scratch

storeVars == <<server, conn, ctx, rows, scratch>>

StoreInit ==
  /\ server = "down"
  /\ conn = Free
  /\ ctx = [r \in Requests |-> "live"]
  /\ rows = <<>>
  /\ scratch = <<>>

Visible == rows \o scratch

-----------------------------------------------------------------------------
(* database/sql (external), as internal/repository/sqlite uses it. *)

\* Mutant of Acquire: a pool without SetMaxOpenConns(1) that shares its connection.
AcquireShared(r) ==
  /\ ctx[r] = "live"
  /\ conn' = r

\* DB.conn: waits for the connection unless the context is done.
Acquire(r) ==
  /\ conn = Free
  /\ ctx[r] = "live"
  /\ conn' = r

\* Mutant of Release: the cursor is closed on the success path only.
ReleaseIfLive(r) ==
  /\ conn = r /\ ctx[r] = "live"
  /\ conn' = Free

Release(r) ==
  /\ conn = r
  /\ conn' = Free

\* Tx.Commit: refused once the context is done.
CommitTx(r) ==
  /\ conn = r
  /\ ctx[r] = "live"
  /\ rows' = rows \o scratch
  /\ scratch' = <<>>
  /\ conn' = Free

\* Mutant of RollbackTx: the connection goes back to the pool in mid-transaction.
RollbackTxLeaks(r) ==
  /\ conn = r
  /\ conn' = Free
  /\ UNCHANGED <<rows, scratch>>

\* Tx.Rollback: the inserts are undone before the connection is free again.
RollbackTx(r) ==
  /\ conn = r
  /\ scratch' = <<>>
  /\ conn' = Free
  /\ UNCHANGED rows

-----------------------------------------------------------------------------
(* The server process (cmd/server/main.go). *)

\* run: Open and Migrate (CREATE ... IF NOT EXISTS keeps what is stored), then listen.
Start ==
  /\ server = "down"
  /\ server' = "up"
  /\ UNCHANGED <<conn, ctx, rows, scratch>>

\* SIGINT or SIGTERM: Shutdown closes the listeners, handlers keep running.
Signal ==
  /\ server = "up"
  /\ server' = "draining"
  /\ UNCHANGED <<conn, ctx, rows, scratch>>

\* The end of the process: SQLite's journal undoes what was not committed.
Stop ==
  /\ server # "down"
  /\ server' = "down"
  /\ conn' = Free
  /\ scratch' = <<>>
  /\ UNCHANGED <<ctx, rows>>

\* The request's context ends: the 30 s of middleware.Timeout, or the client left.
CancelContext(r) ==
  /\ ctx[r] = "live"
  /\ ctx' = [ctx EXCEPT ![r] = "done"]
  /\ UNCHANGED <<server, conn, rows, scratch>>
=============================================================================
