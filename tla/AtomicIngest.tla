---------------------------- MODULE AtomicIngest ----------------------------
(***************************************************************************)
(* What ingest promises its clients (README.md "Atomic ingest"): a batch is *)
(* stored as a whole, in one step and at most once, or not at all; "created"*)
(* is answered for a stored batch only, an error only for one that is not   *)
(* stored and never will be.  A client that got no answer knows nothing.    *)
(***************************************************************************)
EXTENDS Naturals, Sequences

CONSTANTS Batches,
          Size        \* Size[b]: the number of transactions in b

VARIABLES rows,       \* the stored rows, [req, n] in insertion order
          answer

atomicVars == <<rows, answer>>

RowsOf(b) == [n \in 1..Size[b] |-> [req |-> b, n |-> n]]

Has(b) == \E i \in DOMAIN rows : rows[i].req = b

AtomicInit ==
  /\ rows = <<>>
  /\ answer = [b \in Batches |-> "none"]

StoreBatch(b) ==
  /\ answer[b] = "none"
  /\ ~Has(b)
  /\ rows' = rows \o RowsOf(b)
  /\ UNCHANGED answer

Accept(b) ==
  /\ answer[b] = "none"
  /\ Has(b) \/ Size[b] = 0
  /\ answer' = [answer EXCEPT ![b] = "created"]
  /\ UNCHANGED rows

Refuse(b) ==
  /\ answer[b] = "none"
  /\ ~Has(b)
  /\ \E error \in {"bad_request", "server_error"} : answer' = [answer EXCEPT ![b] = error]
  /\ UNCHANGED rows

\* The connection, or the whole server with all its handlers, is gone.
Lose(lost) ==
  /\ \A b \in lost : answer[b] = "none"
  /\ answer' = [b \in Batches |-> IF b \in lost THEN "lost" ELSE answer[b]]
  /\ UNCHANGED rows

AtomicNext ==
  \/ \E b \in Batches : StoreBatch(b) \/ Accept(b) \/ Refuse(b)
  \/ \E lost \in SUBSET Batches : Lose(lost)

AtomicSpec == AtomicInit /\ [][AtomicNext]_atomicVars
=============================================================================
