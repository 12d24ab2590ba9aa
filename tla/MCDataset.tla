----------------------------- MODULE MCDataset -----------------------------
(* Small instances of Dataset for TLC, of the rules and lists over it, and of *)
(* the fake that reads the same rows.                                         *)
EXTENDS Alerts, Repositories

MCRow(id, at, method, status, source, processor) ==
  [id |-> id, at |-> at, amount |-> 1, currency |-> "BRL", method |-> method,
   status |-> status, source |-> source, processor |-> processor]

MCTimes == 1..2
MCRank == [t1 |-> 1, t2 |-> 2]

\* Events of t1 from two processors and the merchant; t2 is there to be ordered among them.
MCRows ==
  {MCRow("t1", 1, "pix", status, "processor", "ProcessorA") : status \in {"approved", "declined"}}
  \cup {MCRow("t1", 2, "pix", status, "processor", "ProcessorA") : status \in {"approved", "failed"}}
  \cup {MCRow("t1", 1, "pix", "approved", "processor", "ProcessorB"),
        MCRow("t1", 2, "pix", "pending", "processor", "ProcessorA")}
  \cup {MCRow("t1", at, "pix", "approved", "merchant_order_system", "ProcessorB") : at \in MCTimes}
  \cup {MCRow("t2", 1, "pix", "approved", source, "ProcessorA") : source \in Sources}
  \cup {MCRow("t2", 1, method, "pending", "processor", "ProcessorA") :
          method \in {"boleto", "credit_card"}}

MCInvalid ==
  LET ok == MCRow("t1", 1, "pix", "approved", "processor", "ProcessorA")
  IN  {[ok EXCEPT !.id = ""], [ok EXCEPT !.at = ZeroTime], [ok EXCEPT !.amount = 0],
       [ok EXCEPT !.currency = "USD"], [ok EXCEPT !.method = "unknown"],
       [ok EXCEPT !.status = "unknown"], [ok EXCEPT !.source = "unknown"],
       [ok EXCEPT !.processor = ""]}

MCAllRows == MCRows \cup MCInvalid

-----------------------------------------------------------------------------
MCDefault ==
  [s \in Settings |->
     CASE s = "PORT" -> 8080
       [] s = "PIX_PENDING_THRESHOLD" -> PixThreshold
       [] s = "BOLETO_PENDING_THRESHOLD" -> BoletoThreshold
       [] s = "ALERT_ORPHANED_THRESHOLD" -> 50
       [] s = "ALERT_GHOST_THRESHOLD" -> 100
       [] s = "ALERT_HEALTH_MIN" -> 95
       [] s \in {"SERVER_READ_TIMEOUT", "SHUTDOWN_TIMEOUT"} -> 15
       [] s = "SERVER_WRITE_TIMEOUT" -> 30
       [] s = "SERVER_IDLE_TIMEOUT" -> 60]

MCUnset == [s \in Settings |-> Unset]

\* Each setting alone beyond its edges or unreadable.
MCRefused ==
  {[MCUnset EXCEPT ![s] = text] : s \in Settings \ {"ALERT_HEALTH_MIN"}, text \in {-1, Garbage, NaN}}
  \cup {[MCUnset EXCEPT !["ALERT_HEALTH_MIN"] = text] : text \in {-1, 101, Garbage}}
  \cup {[MCUnset EXCEPT ![s] = 0] : s \in Durations \cup {"PORT"}}
  \cup {[MCUnset EXCEPT !["PORT"] = 65536]}

\* The alert settings at their strictest, a minimum that is no number, and limbo thresholds of
\* its own with a minimum that one anomaly of two transactions just meets.
MCAccepted ==
  {[MCUnset EXCEPT !["ALERT_ORPHANED_THRESHOLD"] = 0, !["ALERT_GHOST_THRESHOLD"] = 0,
                   !["ALERT_HEALTH_MIN"] = 100],
   [MCUnset EXCEPT !["ALERT_ORPHANED_THRESHOLD"] = 1, !["ALERT_HEALTH_MIN"] = NaN],
   [MCUnset EXCEPT !["PIX_PENDING_THRESHOLD"] = 2, !["BOLETO_PENDING_THRESHOLD"] = 1,
                   !["ALERT_HEALTH_MIN"] = 50, !["PORT"] = 65535]}

MCEnvironments == MCRefused \cup MCAccepted
=============================================================================
