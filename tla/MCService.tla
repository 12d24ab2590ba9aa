----------------------------- MODULE MCService -----------------------------
(* Small instances of Service for TLC. *)
EXTENDS Service

MCTx(id, at, status, source) ==
  [id |-> id, at |-> at, amount |-> 1, currency |-> "BRL", method |-> "pix",
   status |-> status, source |-> source, processor |-> "ProcessorA"]

MCAll == [from |-> NoBound, to |-> NoBound]
MCBackwards == [from |-> 2, to |-> 1]

MCDollars == [MCTx("t3", 1, "approved", "processor") EXCEPT !.currency = "USD"]
MCNothing == [MCTx("t3", 1, "approved", "processor") EXCEPT !.amount = 0]

(* Ingest alone: a batch, its retry after a lost answer, a batch whose second *)
(* row is invalid though the schema would take it, a row the schema refuses.  *)
MCPair == <<MCTx("t1", 1, "approved", "processor"),
            MCTx("t1", 1, "approved", "merchant_order_system")>>

MCIngestPayload ==
  [b1 |-> MCPair, b2 |-> MCPair,
   bad |-> <<MCTx("t2", 1, "approved", "processor"), MCDollars>>, zero |-> <<MCNothing>>]

MCIngestBatches == DOMAIN MCIngestPayload

(* Reports beside ingest: a processor payment is submitted twice, then the    *)
(* processor denies it while the merchant counts on it.                       *)
MCReportPayload ==
  [b1 |-> <<MCTx("t1", 1, "approved", "processor"), MCTx("t1", 1, "approved", "processor")>>,
   b2 |-> <<MCTx("t1", 2, "declined", "processor"),
            MCTx("t1", 2, "approved", "merchant_order_system"),
            MCTx("t2", 1, "pending", "processor")>>]

MCReportBatches == DOMAIN MCReportPayload

MCReportRequests == MCReportBatches \cup {"q1"}

MCTornAsks == [kind : {"health", "duplicate"}, win : {MCAll}, form : {"fine"}]

MCDuplicateAsks == {[kind |-> "duplicate", win |-> MCAll, form |-> "fine"]}

(* Every endpoint beside one batch of all five rows, and what is refused     *)
(* before a statement runs.  Left out are health, with the statements of     *)
(* alerts, and summary_breakdown, with those of summary and the breakdown.   *)
MCOnePayload == [b1 |-> MCReportPayload.b1 \o MCReportPayload.b2]

MCOneBatch == DOMAIN MCOnePayload

MCOneRequests == MCOneBatch \cup {"q1"}

MCKinds == {"alerts", "health_breakdown", "summary", "duplicate", "orphaned", "ghost", "limbo",
            "healthz"}

MCAsks ==
  [kind : MCKinds, win : {MCAll}, form : {"fine"}]
  \cup [kind : {"health", "alerts", "healthz"}, win : {MCAll, MCBackwards},
         form : {"bad_stamp", "bad_args"}]
  \cup [kind : {"health"}, win : {MCBackwards}, form : {"fine"}]
=============================================================================
