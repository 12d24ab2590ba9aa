--------------------------- MODULE ServiceProofs ---------------------------
(***************************************************************************)
(* Theorems about Service, for any requests, any payloads and any number of *)
(* crashes, cancellations and errors: first ingest and its refinement, then *)
(* the reports, asked for anything beside it.                               *)
(***************************************************************************)
EXTENDS Service, DetectionProofs, SequenceTheorems

(* The initial states satisfy the inductive invariant. *)
LEMMA InitInv == ServiceInit => ServiceInv
<1> SUFFICES ASSUME ServiceInit PROVE ServiceInv
  OBVIOUS
<1>1. StoreInit /\ IngestInit /\ ReportsInit
  BY DEF ServiceInit
<1>2. ServiceTypeOK
  BY <1>1 DEF ServiceTypeOK, StoreInit, IngestInit, ReportsInit, RowName
<1>3. conn \notin Batches /\ conn \notin Queries
  BY <1>1, FreeAssumption, BatchesAssumption, QueriesAssumption DEF StoreInit
<1>4. HolderUsesConnection
  BY <1>3 DEF HolderUsesConnection
<1>5. LoopAccountsForScratch
  BY <1>1, <1>3, BatchesAssumption DEF LoopAccountsForScratch, StoreInit, IngestInit
<1>6. \A b \in Batches : ~Has(b)
  BY <1>1 DEF Has, StoreInit
<1>7. HandlerKnowsOutcome
  BY <1>1, <1>6 DEF HandlerKnowsOutcome, IngestInit
<1>8. \A b \in Batches : answer[b] = "none"
  BY <1>1 DEF IngestInit
<1> QED
  BY <1>2, <1>4, <1>5, <1>6, <1>7, <1>8
     DEF ServiceInv, BatchesWhole, AcknowledgedIsStored, RefusedIsNotStored, InvalidNeverStored

-----------------------------------------------------------------------------
(* Types. *)

(* The steps of a report change of the shared state the connection and the  *)
(* request's context only, and they keep the types.                         *)
LEMMA ReportFrame ==
  ASSUME ServiceTypeOK, HolderUsesConnection,
         NEW q \in Queries, ReportStep(q), UNCHANGED ingestVars
  PROVE  /\ ServiceTypeOK'
         /\ UNCHANGED <<server, rows, scratch, pc, next, answer>>
         /\ \/ UNCHANGED conn /\ (conn = q => qpc'[q] = "cursor")
            \/ conn = Free /\ conn' = q /\ qpc'[q] = "cursor"
            \/ conn = q /\ conn' = Free
         /\ \A p \in Queries \ {q} : qpc'[p] = qpc[p]
<1> USE QueriesAssumption DEF ServiceTypeOK, HolderUsesConnection, QGoto, storeVars, ingestVars
<1>1. CASE ReceiveQuery(q)
  BY <1>1 DEF ReceiveQuery
<1>2. CASE OpenCursor(q)
  BY <1>2 DEF OpenCursor, Acquire
<1>3. CASE OpenFails(q)
  BY <1>3 DEF OpenFails
<1>4. CASE CloseCursor(q)
  BY <1>4 DEF CloseCursor, Release
<1>5. CASE CursorFails(q)
  BY <1>5 DEF CursorFails, Release
<1>6. CASE KeysCutShort(q)
  BY <1>6 DEF KeysCutShort, Release
<1>7. CASE AnswerQuery(q)
  BY <1>7 DEF AnswerQuery, Outcome, Refusal
<1>8. CASE CancelQuery(q)
  BY <1>8 DEF CancelQuery, CancelContext, reportVars
<1> QED
  BY <1>1, <1>2, <1>3, <1>4, <1>5, <1>6, <1>7, <1>8 DEF ReportStep, Report

(* The steps of an ingest request keep the types, and leave other requests   *)
(* where they are.                                                           *)
LEMMA IngestTypes ==
  ASSUME ServiceTypeOK, NEW b \in Batches, IngestStep(b), UNCHANGED reportVars
  PROVE  /\ ServiceTypeOK'
         /\ UNCHANGED <<server, qpc>>
         /\ \A c \in Batches \ {b} :
              pc'[c] = pc[c] /\ next'[c] = next[c] /\ answer'[c] = answer[c]
<1> USE BatchesAssumption DEF ServiceTypeOK, Goto, storeVars, reportVars
<1>1. CASE Receive(b)
  BY <1>1 DEF Receive, Verdict
<1>2. CASE BeginBatch(b)
  BY <1>2 DEF BeginBatch, Acquire
<1>3. CASE BeginFails(b)
  BY <1>3 DEF BeginFails
<1>4. CASE InsertRow(b)
  <2>1. [req |-> b, n |-> next[b]] \in RowName
    BY DEF RowName
  <2>2. scratch' \in Seq(RowName)
    BY <1>4, <2>1 DEF InsertRow
  <2>3. next' \in [Batches -> Nat]
    BY <1>4 DEF InsertRow
  <2> QED
    BY <1>4, <2>2, <2>3 DEF InsertRow
<1>5. CASE CommitBatch(b)
  <2>1. rows \o scratch \in Seq(RowName) /\ <<>> \in Seq(RowName)
    OBVIOUS
  <2> QED
    BY <1>5, <2>1 DEF CommitBatch, CommitTx
<1>6. CASE StatementFails(b)
  BY <1>6 DEF StatementFails
<1>7. CASE DeferredRollback(b)
  <2>1. scratch' \in Seq(RowName) /\ rows' = rows /\ conn' \in Requests \cup {Free}
    <3>1. CASE RollbackTx(b)
      BY <3>1 DEF RollbackTx
    <3>2. CASE UNCHANGED <<conn, rows, scratch>>
      BY <3>2
    <3> QED
      BY <1>7, <3>1, <3>2 DEF DeferredRollback
  <2> QED
    BY <1>7, <2>1 DEF DeferredRollback
<1>8. CASE AwaitDone(b)
  BY <1>8 DEF AwaitDone, RollbackTx
<1>9. CASE Respond(b)
  <2>1. Status(pc[b]) \in {"created", "bad_request", "server_error"}
    BY <1>9 DEF Respond, Status
  <2> QED
    BY <1>9, <2>1 DEF Respond
<1>10. CASE Cancel(b)
  BY <1>10 DEF Cancel, CancelContext, ingestVars
<1> QED
  BY <1>1, <1>2, <1>3, <1>4, <1>5, <1>6, <1>7, <1>8, <1>9, <1>10 DEF IngestStep, Handle

(* The end of the process, and a new start, keep the types.                  *)
LEMMA ProcessTypes ==
  ASSUME ServiceTypeOK, Lifecycle \/ DrainedExit \/ Crash
  PROVE  ServiceTypeOK'
<1> USE DEF ServiceTypeOK, ingestVars, reportVars
<1>1. CASE Lifecycle
  BY <1>1 DEF Lifecycle, Start, Signal
<1>2. CASE DrainedExit
  BY <1>2 DEF DrainedExit, Stop
<1>3. CASE Crash
  BY <1>3 DEF Crash, Stop, LoseHandlers, LoseReports
<1> QED
  BY <1>1, <1>2, <1>3

-----------------------------------------------------------------------------
(* What a step does to the table. *)

(* Whether a batch is stored depends on the committed rows only.             *)
LEMMA SameRows ==
  ASSUME rows' = rows, NEW b \in Batches
  PROVE  (Has(b)' <=> Has(b)) /\ (Whole(b)' <=> Whole(b))
BY DEF Has, Whole

(* An empty batch is whole in any table that has no row of it.               *)
LEMMA EmptyBatchIsWhole ==
  ASSUME ServiceTypeOK, NEW b \in Batches, Len(Payload[b]) = 0, ~Has(b)
  PROVE  Whole(b)
<1>1. 0 \in 0..Len(rows) /\ \A i \in DOMAIN rows : rows[i].req # b
  BY DEF Has, ServiceTypeOK
<1> QED
  BY <1>1 DEF Whole, ServiceTypeOK

(* The commit of a batch that was not stored stores all of it, and moves no  *)
(* row of another batch.                                                     *)
LEMMA CommitStores ==
  ASSUME ServiceTypeOK, NEW b \in Batches, ~Has(b),
         scratch = [i \in 1..Len(Payload[b]) |-> [req |-> b, n |-> i]],
         rows' = rows \o scratch
  PROVE  /\ Whole(b)'
         /\ \A c \in Batches \ {b} : (Has(c)' <=> Has(c)) /\ (Whole(c) => Whole(c)')
<1> DEFINE L == Len(rows)
           P == Len(Payload[b])
<1>1. L \in Nat /\ P \in Nat /\ Len(scratch) = P
  BY BatchesAssumption DEF ServiceTypeOK
<1>2. Len(rows') = L + P /\ DOMAIN rows = 1..L /\ DOMAIN rows' = 1..(L + P)
  BY <1>1 DEF ServiceTypeOK
<1>3. /\ \A i \in 1..L : rows'[i] = rows[i]
      /\ \A i \in (L + 1)..(L + P) : rows'[i] = [req |-> b, n |-> i - L]
  BY <1>1 DEF ServiceTypeOK
<1> HIDE DEF L, P
<1>4. Whole(b)'
  <2>1. L \in 0..Len(rows') /\ L + P <= Len(rows')
    BY <1>1, <1>2
  <2>2. \A i \in DOMAIN rows' : IF i > L /\ i <= L + P
                                 THEN rows'[i] = [req |-> b, n |-> i - L]
                                 ELSE rows'[i].req # b
    BY <1>1, <1>2, <1>3 DEF Has
  <2> QED
    BY <2>1, <2>2 DEF Whole, P
<1>5. ASSUME NEW c \in Batches \ {b}
      PROVE  Has(c)' <=> Has(c)
  BY <1>1, <1>2, <1>3 DEF Has
<1>6. ASSUME NEW c \in Batches \ {b}, Whole(c)
      PROVE  Whole(c)'
  <2>1. PICK k \in 0..L : 
          /\ k + Len(Payload[c]) <= L
          /\ \A i \in 1..L :
               IF i > k /\ i <= k + Len(Payload[c]) THEN rows[i] = [req |-> c, n |-> i - k]
                                                    ELSE rows[i].req # c
    BY <1>2, <1>6 DEF Whole, L
  <2>2. Len(Payload[c]) \in Nat
    BY BatchesAssumption
  <2>3. k \in 0..Len(rows') /\ k + Len(Payload[c]) <= Len(rows')
    BY <1>1, <1>2, <2>1, <2>2
  <2>4. \A i \in DOMAIN rows' :
          IF i > k /\ i <= k + Len(Payload[c]) THEN rows'[i] = [req |-> c, n |-> i - k]
                                               ELSE rows'[i].req # c
    <3> SUFFICES ASSUME NEW i \in 1..(L + P)
                 PROVE  IF i > k /\ i <= k + Len(Payload[c])
                        THEN rows'[i] = [req |-> c, n |-> i - k]
                        ELSE rows'[i].req # c
      BY <1>2
    <3>1. CASE i \in 1..L
      BY <1>3, <2>1, <3>1
    <3>2. CASE i \in (L + 1)..(L + P)
      <4>1. rows'[i] = [req |-> b, n |-> i - L]
        BY <1>3, <3>2
      <4>2. ~(i <= k + Len(Payload[c]))
        BY <1>1, <2>1, <2>2, <3>2
      <4>3. rows'[i].req = b
        BY ONLY <4>1
      <4> QED
        BY <4>2, <4>3
    <3>3. i \in 1..L \/ i \in (L + 1)..(L + P)
      BY <1>1
    <3> QED
      BY <3>1, <3>2, <3>3
  <2> QED
    BY <2>3, <2>4 DEF Whole
<1> QED
  BY <1>4, <1>5, <1>6

-----------------------------------------------------------------------------
(* The inductive invariant, one lemma per group of actions. *)

(* Where the table is as it was, so are the facts about the table alone.     *)
LEMMA SameTable ==
  ASSUME ServiceInv, rows' = rows
  PROVE  /\ BatchesWhole' /\ InvalidNeverStored'
         /\ answer' = answer => AcknowledgedIsStored' /\ RefusedIsNotStored'
<1>1. \A b \in Batches : (Has(b)' <=> Has(b)) /\ (Whole(b)' <=> Whole(b))
  BY SameRows
<1>2. \A b \in Batches : AllValid(b)' <=> AllValid(b)
  BY DEF AllValid
<1> QED
  BY <1>1, <1>2 DEF ServiceInv, BatchesWhole, InvalidNeverStored, AcknowledgedIsStored,
                    RefusedIsNotStored

(* A report moves the connection between Free and itself, and nothing else   *)
(* the invariant speaks of.                                                  *)
LEMMA ReportKeepsInv ==
  ASSUME ServiceInv, NEW q \in Queries, ReportStep(q), UNCHANGED ingestVars
  PROVE  ServiceInv'
<1> USE DEF ServiceInv
<1>1. /\ ServiceTypeOK'
      /\ UNCHANGED <<server, rows, scratch, pc, next, answer>>
      /\ \/ UNCHANGED conn /\ (conn = q => qpc'[q] = "cursor")
         \/ conn = Free /\ conn' = q /\ qpc'[q] = "cursor"
         \/ conn = q /\ conn' = Free
      /\ \A p \in Queries \ {q} : qpc'[p] = qpc[p]
  BY ReportFrame
<1>2. q \notin Batches /\ Free \notin Batches /\ Free \notin Queries
  BY RequestsAssumption, FreeAssumption
<1>3. HolderUsesConnection'
  BY <1>1, <1>2 DEF HolderUsesConnection
<1>4. LoopAccountsForScratch'
  BY <1>1, <1>2 DEF LoopAccountsForScratch
<1>5. HandlerKnowsOutcome'
  <2>1. \A b \in Batches : (Has(b)' <=> Has(b)) /\ (Whole(b)' <=> Whole(b))
    BY <1>1, SameRows
  <2>2. \A b \in Batches : AllValid(b)' <=> AllValid(b)
    BY DEF AllValid
  <2> QED
    BY <1>1, <2>1, <2>2 DEF HandlerKnowsOutcome
<1> QED
  BY <1>1, <1>3, <1>4, <1>5, SameTable

(* A handler that only moves on, while the connection, the table and the     *)
(* open transaction stay as they are.                                        *)
LEMMA HandlerMovesOn ==
  ASSUME ServiceInv, NEW b \in Batches, UNCHANGED reportVars,
         Receive(b) \/ BeginFails(b) \/ StatementFails(b) \/ Cancel(b)
  PROVE  ServiceInv'
<1> USE DEF ServiceInv
<1>1. /\ ServiceTypeOK'
      /\ UNCHANGED <<server, qpc>>
      /\ \A c \in Batches \ {b} :
           pc'[c] = pc[c] /\ next'[c] = next[c] /\ answer'[c] = answer[c]
  BY IngestTypes DEF IngestStep, Handle
<1>2. UNCHANGED <<conn, rows, scratch, next, answer>>
  BY DEF Receive, BeginFails, StatementFails, Cancel, CancelContext, storeVars, ingestVars
<1>3. /\ \A c \in Batches : (Has(c)' <=> Has(c)) /\ (Whole(c)' <=> Whole(c))
      /\ \A c \in Batches : AllValid(c)' <=> AllValid(c)
  BY <1>2, SameRows DEF AllValid
<1>4. \/ pc[b] = "idle" /\ pc'[b] \in {Verdict(b), "rejected"}
      \/ pc[b] = "begin" /\ pc'[b] = "failed"
      \/ pc[b] = "insert" /\ pc'[b] = "unwind"
      \/ pc'[b] = pc[b]
  BY DEF Receive, BeginFails, StatementFails, Cancel, Goto, ingestVars, ServiceTypeOK
<1>5. Verdict(b) \in {"stored", "begin", "rejected"}
  BY DEF Verdict
<1>6. HolderUsesConnection'
  BY <1>1, <1>2, <1>4, <1>5 DEF HolderUsesConnection
<1>7. LoopAccountsForScratch'
  BY <1>1, <1>2, <1>4, <1>5 DEF LoopAccountsForScratch
<1>8. HandlerKnowsOutcome'
  <2>1. pc[b] = "idle" /\ Verdict(b) = "stored" => Whole(b)
    BY EmptyBatchIsWhole DEF Verdict, HandlerKnowsOutcome, Unstored
  <2>2. Verdict(b) = "begin" => AllValid(b)
    BY DEF Verdict
  <2>3. /\ pc'[b] \in Unstored => pc[b] \in Unstored
        /\ pc'[b] = "stored" => Whole(b)
        /\ pc'[b] # "answered" => pc[b] # "answered"
        /\ pc'[b] \in {"begin", "insert", "unwind"} => AllValid(b)
    BY <1>4, <1>5, <2>1, <2>2 DEF HandlerKnowsOutcome, Unstored
  <2> QED
    BY <1>1, <1>2, <1>3, <2>3 DEF HandlerKnowsOutcome
<1> QED
  BY <1>1, <1>2, <1>6, <1>7, <1>8, SameTable

(* The transaction: its begin, its inserts and its rollback do not touch the *)
(* committed rows, and account for scratch.                                  *)
LEMMA TransactionKeepsInv ==
  ASSUME ServiceInv, NEW b \in Batches, UNCHANGED reportVars,
         BeginBatch(b) \/ InsertRow(b) \/ DeferredRollback(b) \/ AwaitDone(b)
  PROVE  ServiceInv'
<1> USE DEF ServiceInv
<1>1. /\ ServiceTypeOK'
      /\ UNCHANGED <<server, qpc>>
      /\ \A c \in Batches \ {b} :
           pc'[c] = pc[c] /\ next'[c] = next[c] /\ answer'[c] = answer[c]
  BY IngestTypes DEF IngestStep, Handle
<1>2. rows' = rows /\ answer' = answer
  BY DEF BeginBatch, InsertRow, DeferredRollback, AwaitDone, RollbackTx
<1>3. b \notin Queries /\ Free \notin Batches /\ Free \notin Queries
  BY RequestsAssumption, FreeAssumption
<1>4. ASSUME BeginBatch(b)
      PROVE  HolderUsesConnection' /\ LoopAccountsForScratch'
  <2>1. /\ pc[b] = "begin" /\ conn = Free
        /\ pc'[b] = "insert" /\ conn' = b /\ next' = next /\ scratch' = scratch
    BY <1>4 DEF BeginBatch, Acquire, Goto, ServiceTypeOK
  <2>2. HolderUsesConnection'
    BY <1>1, <1>3, <2>1 DEF HolderUsesConnection
  <2>3. next[b] = 1 /\ scratch = <<>>
    BY <1>3, <2>1 DEF LoopAccountsForScratch
  <2>4. LoopAccountsForScratch'
    <3>1. scratch = [i \in 1..(next[b] - 1) |-> [req |-> b, n |-> i]]
      BY <2>3
    <3> QED
      BY <1>1, <2>1, <2>3, <3>1 DEF LoopAccountsForScratch
  <2> QED
    BY <2>2, <2>4
<1>5. ASSUME InsertRow(b)
      PROVE  HolderUsesConnection' /\ LoopAccountsForScratch'
  <2>1. /\ pc[b] = "insert" /\ conn = b /\ next[b] <= Len(Payload[b])
        /\ pc' = pc /\ conn' = conn
        /\ scratch' = Append(scratch, [req |-> b, n |-> next[b]])
        /\ next'[b] = next[b] + 1
    BY <1>5 DEF InsertRow, ServiceTypeOK
  <2>2. HolderUsesConnection'
    BY <1>1, <2>1 DEF HolderUsesConnection
  <2>3. /\ next[b] \in 1..(Len(Payload[b]) + 1) /\ Len(Payload[b]) \in Nat
        /\ scratch = [i \in 1..(next[b] - 1) |-> [req |-> b, n |-> i]]
    BY <2>1, BatchesAssumption DEF LoopAccountsForScratch
  <2>4. scratch' = [i \in 1..(next'[b] - 1) |-> [req |-> b, n |-> i]]
    BY <2>1, <2>3
  <2>5. LoopAccountsForScratch'
    BY <1>1, <2>1, <2>3, <2>4 DEF LoopAccountsForScratch
  <2> QED
    BY <2>2, <2>5
<1>6. ASSUME DeferredRollback(b) \/ AwaitDone(b)
      PROVE  HolderUsesConnection' /\ LoopAccountsForScratch'
  <2>1. /\ next' = next
        /\ pc[b] \in {"insert", "unwind"}
        /\ \/ pc'[b] = "failed" /\ conn # b /\ conn' = conn /\ scratch' = scratch
           \/ pc'[b] \in {pc[b], "failed"} /\ conn = b /\ conn' = Free /\ scratch' = <<>>
    BY <1>6 DEF DeferredRollback, AwaitDone, RollbackTx, Goto, ServiceTypeOK
  <2>2. HolderUsesConnection'
    BY <1>1, <1>3, <2>1 DEF HolderUsesConnection
  <2>3. LoopAccountsForScratch'
    BY <1>1, <1>3, <2>1 DEF LoopAccountsForScratch
  <2> QED
    BY <2>2, <2>3
<1>7. HolderUsesConnection' /\ LoopAccountsForScratch'
  BY <1>4, <1>5, <1>6
<1>8. HandlerKnowsOutcome'
  <2>1. \A c \in Batches : /\ (Has(c)' <=> Has(c)) /\ (Whole(c)' <=> Whole(c))
                           /\ AllValid(c)' <=> AllValid(c)
    BY <1>2, SameRows DEF AllValid
  <2>2. /\ pc[b] \in {"begin", "insert", "unwind"}
        /\ pc'[b] \in {"insert", "unwind", "failed"}
    BY DEF BeginBatch, InsertRow, DeferredRollback, AwaitDone, Goto, ServiceTypeOK
  <2> QED
    BY <1>1, <1>2, <2>1, <2>2 DEF HandlerKnowsOutcome, Unstored
<1> QED
  BY <1>1, <1>2, <1>7, <1>8, SameTable

(* The commit makes the batch whole in one step.                             *)
LEMMA CommitKeepsInv ==
  ASSUME ServiceInv, NEW b \in Batches, UNCHANGED reportVars, CommitBatch(b)
  PROVE  ServiceInv'
<1> USE DEF ServiceInv
<1>1. /\ ServiceTypeOK'
      /\ UNCHANGED <<server, qpc>>
      /\ \A c \in Batches \ {b} :
           pc'[c] = pc[c] /\ next'[c] = next[c] /\ answer'[c] = answer[c]
  BY IngestTypes DEF IngestStep, Handle
<1>2. /\ pc[b] = "insert" /\ next[b] > Len(Payload[b]) /\ conn = b
      /\ pc'[b] = "stored" /\ conn' = Free /\ scratch' = <<>> /\ rows' = rows \o scratch
      /\ next' = next /\ answer' = answer
  BY DEF CommitBatch, CommitTx, Goto, ServiceTypeOK
<1>3. b \notin Queries /\ Free \notin Batches /\ Free \notin Queries
  BY RequestsAssumption, FreeAssumption
<1>4. scratch = [i \in 1..Len(Payload[b]) |-> [req |-> b, n |-> i]]
  <2>1. /\ next[b] \in 1..(Len(Payload[b]) + 1) /\ Len(Payload[b]) \in Nat
        /\ scratch = [i \in 1..(next[b] - 1) |-> [req |-> b, n |-> i]]
    BY <1>2, BatchesAssumption DEF LoopAccountsForScratch
  <2>2. next[b] - 1 = Len(Payload[b])
    BY <1>2, <2>1
  <2> QED
    BY <2>1, <2>2
<1>5. ~Has(b) /\ AllValid(b)
  BY <1>2 DEF HandlerKnowsOutcome, Unstored
<1>6. /\ Whole(b)'
      /\ \A c \in Batches \ {b} : (Has(c)' <=> Has(c)) /\ (Whole(c) => Whole(c)')
  BY <1>2, <1>4, <1>5, CommitStores
<1>7. \A c \in Batches : AllValid(c)' <=> AllValid(c)
  BY DEF AllValid
<1>8. HolderUsesConnection'
  BY <1>1, <1>2, <1>3 DEF HolderUsesConnection
<1>9. LoopAccountsForScratch'
  BY <1>1, <1>2, <1>3 DEF LoopAccountsForScratch
<1>10. answer[b] = "none"
  BY <1>2 DEF HandlerKnowsOutcome
<1>11. HandlerKnowsOutcome'
  BY <1>1, <1>2, <1>6, <1>7, <1>10 DEF HandlerKnowsOutcome, Unstored
<1>12. BatchesWhole'
  BY <1>6 DEF BatchesWhole
<1>13. AcknowledgedIsStored'
  BY <1>1, <1>6 DEF AcknowledgedIsStored
<1>14. RefusedIsNotStored'
  BY <1>2, <1>6, <1>10 DEF RefusedIsNotStored
<1>15. InvalidNeverStored'
  BY <1>5, <1>6, <1>7 DEF InvalidNeverStored
<1> QED
  BY <1>1, <1>8, <1>9, <1>11, <1>12, <1>13, <1>14, <1>15

(* The answer says what became of the batch.                                 *)
LEMMA RespondKeepsInv ==
  ASSUME ServiceInv, NEW b \in Batches, UNCHANGED reportVars, Respond(b)
  PROVE  ServiceInv'
<1> USE DEF ServiceInv
<1>1. /\ ServiceTypeOK'
      /\ UNCHANGED <<server, qpc>>
      /\ \A c \in Batches \ {b} :
           pc'[c] = pc[c] /\ next'[c] = next[c] /\ answer'[c] = answer[c]
  BY IngestTypes DEF IngestStep, Handle
<1>2. /\ pc[b] \in {"stored", "rejected", "failed"} /\ pc'[b] = "answered"
      /\ UNCHANGED <<conn, rows, scratch, next>>
      /\ answer'[b] \in {Status(pc[b]), "lost"}
  BY DEF Respond, Goto, ServiceTypeOK, storeVars
<1>3. answer'[b] = "created" => pc[b] = "stored"
  BY <1>2 DEF Status
<1>4. answer'[b] \in {"bad_request", "server_error"} => pc[b] \in {"rejected", "failed"}
  BY <1>2 DEF Status
<1>5. \A c \in Batches : /\ (Has(c)' <=> Has(c)) /\ (Whole(c)' <=> Whole(c))
                         /\ AllValid(c)' <=> AllValid(c)
  BY <1>2, SameRows DEF AllValid
<1>6. HolderUsesConnection' /\ LoopAccountsForScratch'
  BY <1>1, <1>2 DEF HolderUsesConnection, LoopAccountsForScratch
<1>7. HandlerKnowsOutcome'
  BY <1>1, <1>2, <1>5 DEF HandlerKnowsOutcome, Unstored
<1>8. AcknowledgedIsStored'
  BY <1>1, <1>3, <1>5 DEF AcknowledgedIsStored, HandlerKnowsOutcome
<1>9. RefusedIsNotStored'
  BY <1>1, <1>4, <1>5 DEF RefusedIsNotStored, HandlerKnowsOutcome, Unstored
<1> QED
  BY <1>1, <1>2, <1>6, <1>7, <1>8, <1>9, SameTable

(* Starting, draining, stopping and crashing: an open transaction is undone, *)
(* what was committed stays, and no handler survives its process.            *)
LEMMA ProcessKeepsInv ==
  ASSUME ServiceInv, Lifecycle \/ DrainedExit \/ Crash
  PROVE  ServiceInv'
<1> USE DEF ServiceInv
<1>1. ServiceTypeOK'
  BY ProcessTypes
<1>2. rows' = rows /\ next' = next
  BY DEF Lifecycle, Start, Signal, DrainedExit, Crash, Stop, LoseHandlers, ingestVars
<1>3. Free \notin Batches /\ Free \notin Queries
  BY RequestsAssumption, FreeAssumption
<1>4. \A c \in Batches : /\ (Has(c)' <=> Has(c)) /\ (Whole(c)' <=> Whole(c))
                         /\ AllValid(c)' <=> AllValid(c)
  BY <1>2, SameRows DEF AllValid
<1>5. CASE Lifecycle
  <2>1. UNCHANGED <<conn, scratch, pc, qpc, answer>>
    BY <1>5 DEF Lifecycle, Start, Signal, ingestVars, reportVars
  <2>2. HolderUsesConnection' /\ LoopAccountsForScratch' /\ HandlerKnowsOutcome'
    BY <1>2, <1>4, <2>1 DEF HolderUsesConnection, LoopAccountsForScratch, HandlerKnowsOutcome
  <2> QED
    BY <1>1, <1>2, <2>1, <2>2, SameTable
<1>6. CASE DrainedExit \/ Crash
  <2>1. /\ conn' = Free /\ scratch' = <<>>
        /\ \A c \in Batches : /\ pc'[c] \in {pc[c], "answered"}
                               /\ \/ pc'[c] = pc[c] /\ answer'[c] = answer[c]
                                  \/ pc'[c] = "answered" /\ answer'[c] = "lost"
    <3>1. CASE DrainedExit
      BY <3>1 DEF DrainedExit, Stop, ingestVars
    <3>2. CASE Crash
      BY <3>2 DEF Crash, Stop, LoseHandlers
    <3> QED
      BY <1>6, <3>1, <3>2
  <2>2. HolderUsesConnection'
    BY <1>3, <2>1 DEF HolderUsesConnection
  <2>3. LoopAccountsForScratch'
    BY <1>2, <1>3, <2>1 DEF LoopAccountsForScratch
  <2>4. HandlerKnowsOutcome'
    BY <1>4, <2>1 DEF HandlerKnowsOutcome, Unstored
  <2>5. AcknowledgedIsStored' /\ RefusedIsNotStored'
    BY <1>4, <2>1 DEF AcknowledgedIsStored, RefusedIsNotStored
  <2> QED
    BY <1>1, <1>2, <2>2, <2>3, <2>4, <2>5, SameTable
<1> QED
  BY <1>5, <1>6

-----------------------------------------------------------------------------
(* Every step keeps the inductive invariant. *)
LEMMA NextKeepsInv ==
  ASSUME ServiceInv, [ServiceNext]_serviceVars
  PROVE  ServiceInv'
<1>1. CASE UNCHANGED serviceVars
  BY <1>1 DEF serviceVars, storeVars, ingestVars, reportVars, ServiceInv, ServiceTypeOK,
              HolderUsesConnection, LoopAccountsForScratch, HandlerKnowsOutcome, Unstored,
              BatchesWhole, AcknowledgedIsStored, RefusedIsNotStored, InvalidNeverStored,
              AllValid, Has, Whole
<1>2. ASSUME NEW b \in Batches, IngestStep(b), UNCHANGED reportVars
      PROVE  ServiceInv'
  BY <1>2, HandlerMovesOn, TransactionKeepsInv, CommitKeepsInv, RespondKeepsInv
     DEF IngestStep, Handle
<1>3. ASSUME NEW q \in Queries, ReportStep(q), UNCHANGED ingestVars
      PROVE  ServiceInv'
  BY <1>3, ReportKeepsInv
<1>4. CASE Lifecycle \/ DrainedExit \/ Crash
  BY <1>4, ProcessKeepsInv
<1> QED
  BY <1>1, <1>2, <1>3, <1>4 DEF ServiceNext

(* The inductive invariant holds in every reachable state: the types, the    *)
(* use of the pooled connection, and what ingest promises.                   *)
THEOREM Invariant == ServiceSafety => []ServiceInv
<1>1. ServiceInit => ServiceInv
  BY InitInv
<1>2. ServiceInv /\ [ServiceNext]_serviceVars => ServiceInv'
  BY NextKeepsInv
<1> QED
  BY <1>1, <1>2, PTL DEF ServiceSafety

(* All variables keep their types.                                           *)
THEOREM TypeCorrect == ServiceSafety => []ServiceTypeOK
<1>1. ServiceInv => ServiceTypeOK
  BY DEF ServiceInv
<1> QED
  BY <1>1, Invariant, PTL

(* The pooled connection is never held by a request that does not use it, so *)
(* no request can wait for itself.                                           *)
THEOREM ConnectionIsUsed == ServiceSafety => []HolderUsesConnection
<1>1. ServiceInv => HolderUsesConnection
  BY DEF ServiceInv
<1> QED
  BY <1>1, Invariant, PTL

(* Uncommitted rows are those of the writer that holds the connection.       *)
THEOREM NoDirtyReads == ServiceSafety => []UncommittedIsPrivate
<1>1. ServiceInv => UncommittedIsPrivate
  <2> SUFFICES ASSUME ServiceInv, scratch # <<>>
               PROVE  UncommittedIsPrivate
    BY DEF UncommittedIsPrivate
  <2>1. PICK b \in Batches : conn = b
    BY DEF ServiceInv, LoopAccountsForScratch
  <2>2. /\ next[b] \in 1..(Len(Payload[b]) + 1) /\ Len(Payload[b]) \in Nat
        /\ scratch = [i \in 1..(next[b] - 1) |-> [req |-> b, n |-> i]]
    BY <2>1, BatchesAssumption DEF ServiceInv, LoopAccountsForScratch
  <2>3. Len(scratch) = next[b] - 1
    BY <2>2
  <2>4. \A i \in 1..Len(scratch) : scratch[i] = [req |-> b, n |-> i]
    BY <2>2, <2>3
  <2> QED
    BY <2>1, <2>3, <2>4 DEF UncommittedIsPrivate
<1> QED
  BY <1>1, Invariant, PTL

(* A batch is stored as a whole and once, or not at all.                     *)
THEOREM IngestIsAtomic == ServiceSafety => []BatchesWhole
<1>1. ServiceInv => BatchesWhole
  BY DEF ServiceInv
<1> QED
  BY <1>1, Invariant, PTL

(* A batch answered 201 is stored, through every later crash.                *)
THEOREM AcknowledgedIsDurable == ServiceSafety => []AcknowledgedIsStored
<1>1. ServiceInv => AcknowledgedIsStored
  BY DEF ServiceInv
<1> QED
  BY <1>1, Invariant, PTL

(* A batch answered 400 or 500 left nothing behind.                          *)
THEOREM RefusedLeavesNothing == ServiceSafety => []RefusedIsNotStored
<1>1. ServiceInv => RefusedIsNotStored
  BY DEF ServiceInv
<1> QED
  BY <1>1, Invariant, PTL

(* No part of a batch with an invalid row is ever stored.                    *)
THEOREM InvalidStaysOut == ServiceSafety => []InvalidNeverStored
<1>1. ServiceInv => InvalidNeverStored
  BY DEF ServiceInv
<1> QED
  BY <1>1, Invariant, PTL

-----------------------------------------------------------------------------
(* Validation against the schema. *)

(* InsertBatch never runs into a CHECK constraint.                           *)
THEOREM SchemaNeverRefuses == ServiceSafety => []ValidRowsFitSchema
<1>1. ServiceInv => ValidRowsFitSchema
  <2> SUFFICES ASSUME ServiceInv, NEW b \in Batches,
                      pc[b] = "insert", next[b] <= Len(Payload[b])
               PROVE  SchemaAccepts(Payload[b][next[b]])
    BY DEF ValidRowsFitSchema
  <2>1. AllValid(b) /\ next[b] \in 1..(Len(Payload[b]) + 1) /\ Len(Payload[b]) \in Nat
    BY BatchesAssumption DEF ServiceInv, HandlerKnowsOutcome, LoopAccountsForScratch
  <2>2. next[b] \in 1..Len(Payload[b])
    BY <2>1
  <2> QED
    BY <2>1, <2>2, ValidFitsSchema DEF AllValid
<1> QED
  BY <1>1, Invariant, PTL

-----------------------------------------------------------------------------
(* The refinement of AtomicIngest. *)

(* A batch that is whole and not empty has a row.                            *)
LEMMA WholeHasRow ==
  ASSUME ServiceTypeOK, NEW b \in Batches, Whole(b)
  PROVE  Has(b) \/ Len(Payload[b]) = 0
<1>1. PICK k \in 0..Len(rows) :
        /\ k + Len(Payload[b]) <= Len(rows)
        /\ \A i \in DOMAIN rows :
             IF i > k /\ i <= k + Len(Payload[b]) THEN rows[i] = [req |-> b, n |-> i - k]
                                                  ELSE rows[i].req # b
  BY DEF Whole
<1>2. Len(Payload[b]) \in Nat /\ Len(rows) \in Nat /\ DOMAIN rows = 1..Len(rows)
  BY BatchesAssumption DEF ServiceTypeOK
<1>3. CASE Len(Payload[b]) # 0
  <2>1. k + 1 \in DOMAIN rows /\ k + 1 > k /\ k + 1 <= k + Len(Payload[b])
    BY <1>1, <1>2, <1>3
  <2>2. rows[k + 1] = [req |-> b, n |-> k + 1 - k]
    BY <1>1, <2>1
  <2>3. rows[k + 1].req = b
    BY ONLY <2>2
  <2> QED
    BY <2>1, <2>3 DEF Has
<1> QED
  BY <1>3

(* The commit is the step of the abstract specification that stores a batch; *)
(* an answer, or the loss of one, is a step of the client's knowledge; all   *)
(* other steps are invisible.                                                *)
LEMMA StepRefines ==
  ASSUME ServiceInv, [ServiceNext]_serviceVars
  PROVE  [Abstract!AtomicNext]_(Abstract!atomicVars)
<1> USE DEF ServiceInv
<1> SUFFICES Abstract!AtomicNext \/ UNCHANGED <<rows, answer>>
  BY DEF Abstract!atomicVars
<1>1. CASE UNCHANGED serviceVars
  BY <1>1 DEF serviceVars, storeVars, ingestVars
<1>2. ASSUME NEW q \in Queries, ReportStep(q), UNCHANGED ingestVars
      PROVE  UNCHANGED <<rows, answer>>
  BY <1>2, ReportFrame
<1>3. ASSUME NEW b \in Batches, CommitBatch(b)
      PROVE  Abstract!StoreBatch(b)
  <2>1. /\ pc[b] = "insert" /\ next[b] > Len(Payload[b]) /\ conn = b
        /\ rows' = rows \o scratch /\ answer' = answer
    BY <1>3 DEF CommitBatch, CommitTx
  <2>2. /\ next[b] \in 1..(Len(Payload[b]) + 1) /\ Len(Payload[b]) \in Nat
        /\ scratch = [i \in 1..(next[b] - 1) |-> [req |-> b, n |-> i]]
    BY <2>1, BatchesAssumption DEF LoopAccountsForScratch
  <2>3. next[b] - 1 = Len(Payload[b])
    BY <2>1, <2>2
  <2>4. scratch = Abstract!RowsOf(b)
    BY <2>2, <2>3 DEF Abstract!RowsOf
  <2>5. answer[b] = "none" /\ ~Has(b)
    BY <2>1 DEF HandlerKnowsOutcome, Unstored
  <2> QED
    BY <2>1, <2>4, <2>5 DEF Abstract!StoreBatch, Abstract!Has, Has
<1>4. ASSUME NEW b \in Batches, Respond(b)
      PROVE  Abstract!Accept(b) \/ Abstract!Refuse(b) \/ Abstract!Lose({b})
  <2>1. /\ pc[b] \in {"stored", "rejected", "failed"} /\ answer[b] = "none" /\ rows' = rows
        /\ \/ answer' = [answer EXCEPT ![b] = Status(pc[b])]
           \/ answer' = [answer EXCEPT ![b] = "lost"]
    BY <1>4 DEF Respond, storeVars, HandlerKnowsOutcome
  <2>2. CASE answer' = [answer EXCEPT ![b] = "lost"]
    <3>1. answer' = [c \in Batches |-> IF c \in {b} THEN "lost" ELSE answer[c]]
      BY <2>2 DEF ServiceTypeOK
    <3> QED
      BY <2>1, <3>1 DEF Abstract!Lose
  <2>3. CASE answer' = [answer EXCEPT ![b] = Status(pc[b])] /\ pc[b] = "stored"
    <3>1. Has(b) \/ Len(Payload[b]) = 0
      BY <2>3, WholeHasRow DEF HandlerKnowsOutcome
    <3>2. Status(pc[b]) = "created"
      BY <2>3 DEF Status
    <3> QED
      BY <2>1, <2>3, <3>1, <3>2 DEF Abstract!Accept, Abstract!Has, Has
  <2>4. CASE answer' = [answer EXCEPT ![b] = Status(pc[b])] /\ pc[b] # "stored"
    <3>1. Status(pc[b]) \in {"bad_request", "server_error"}
      BY <2>1, <2>4 DEF Status
    <3>2. ~Has(b)
      BY <2>1, <2>4 DEF HandlerKnowsOutcome, Unstored
    <3> QED
      BY <2>1, <2>4, <3>1, <3>2 DEF Abstract!Refuse, Abstract!Has, Has
  <2> QED
    BY <2>1, <2>2, <2>3, <2>4
<1>5. ASSUME NEW b \in Batches, IngestStep(b), ~CommitBatch(b), ~Respond(b)
      PROVE  UNCHANGED <<rows, answer>>
  BY <1>5 DEF IngestStep, Handle, Receive, BeginBatch, BeginFails, InsertRow, StatementFails,
              DeferredRollback, AwaitDone, RollbackTx, Cancel, CancelContext, storeVars, ingestVars
<1>6. CASE Lifecycle \/ DrainedExit
  BY <1>6 DEF Lifecycle, Start, Signal, DrainedExit, Stop, ingestVars
<1>7. CASE Crash
  <2> DEFINE lost == {b \in Batches : InFlight(b)}
  <2>1. /\ rows' = rows
        /\ answer' = [b \in Batches |-> IF b \in lost THEN "lost" ELSE answer[b]]
    BY <1>7 DEF Crash, Stop, LoseHandlers
  <2>2. \A b \in lost : answer[b] = "none"
    BY DEF HandlerKnowsOutcome, InFlight
  <2>3. Abstract!Lose(lost)
    BY <2>1, <2>2 DEF Abstract!Lose
  <2>4. lost \in SUBSET Batches
    OBVIOUS
  <2> QED
    BY <2>3, <2>4 DEF Abstract!AtomicNext
<1>8. \A b \in Batches : Abstract!StoreBatch(b) \/ Abstract!Accept(b) \/ Abstract!Refuse(b)
                           \/ Abstract!Lose({b}) => Abstract!AtomicNext
  BY DEF Abstract!AtomicNext
<1> QED
  BY <1>1, <1>2, <1>3, <1>4, <1>5, <1>6, <1>7, <1>8 DEF ServiceNext

(* What clients see of ingest is what AtomicIngest promises.                 *)
THEOREM IngestRefinesAtomic == ServiceSafety => AtomicSpec
<1>1. ServiceInit => Abstract!AtomicInit
  BY DEF ServiceInit, StoreInit, IngestInit, Abstract!AtomicInit
<1>2. ServiceInv /\ [ServiceNext]_serviceVars => [Abstract!AtomicNext]_(Abstract!atomicVars)
  BY StepRefines
<1> QED
  BY <1>1, <1>2, Invariant, PTL DEF ServiceSafety, AtomicSpec, Abstract!AtomicSpec

-----------------------------------------------------------------------------
(* The inductive invariant of the reports, beside ServiceInv: the table ends *)
(* with the end of a batch, what a report has read is behind the rows there  *)
(* are now, and a group it is about to fetch has not shrunk since it was     *)
(* counted.                                                                  *)
Keyed == {KeyOf(Table(rows), i) : i \in DOMAIN rows}

Ops == {"orphaned", "ghost", "keys", "rows", "limbo", "unique", "total", "ping"}

Statement ==
  [stage : {"counts", "breakdown", "samples", "list"}, op : Ops, key : {<<>>} \cup Keyed, occ : Nat]

Reading == [s : Statement, n : Nat, seen : Nat, cut : BOOLEAN]

ReportsTypeOK ==
  /\ ask \in [Queries -> Asks \cup {NoAsk}]
  /\ todo \in [Queries -> Seq(Statement)]
  /\ got \in [Queries -> Seq(Reading)]

NothingReadYet == \A q \in Queries : qpc[q] = "idle" => got[q] = <<>>

CursorHasStatement == \A q \in Queries : qpc[q] = "cursor" => todo[q] # <<>>

SeenIsPast ==
  \A q \in Queries :
    /\ start[q] <= Len(rows)
    /\ \A i \in DOMAIN got[q] : got[q][i].seen <= Len(rows)

GroupsToFetchGrow ==
  \A q \in Queries : \A i \in DOMAIN todo[q] :
    todo[q][i].op = "rows" => todo[q][i].occ <= GroupSize(Table(rows), todo[q][i].key)

ReportInv ==
  /\ ReportsTypeOK
  /\ Boundary(Len(rows))
  /\ NothingReadYet
  /\ CursorHasStatement
  /\ SeenIsPast
  /\ GroupsToFetchGrow
  /\ StatementsReadCommitted
  /\ GroupsNeverShrink

-----------------------------------------------------------------------------
(* Tables and sequences. *)

(* A sequence over a set is one over a larger set.                           *)
LEMMA SeqMonotone ==
  ASSUME NEW S, NEW T, S \subseteq T, NEW s \in Seq(S)
  PROVE  s \in Seq(T)
<1>1. Len(s) \in Nat /\ s \in [1..Len(s) -> S]
  OBVIOUS
<1>2. s \in [1..Len(s) -> T]
  BY <1>1
<1> QED
  BY <1>1, <1>2, SeqDef

(* The rows of a table are named one by one.                                 *)
LEMMA TableProperties ==
  ASSUME NEW names \in Seq(RowName)
  PROVE  /\ Ids(Table(names)) = 1..Len(names) /\ DOMAIN names = 1..Len(names)
         /\ IsFiniteSet(Ids(Table(names)))
         /\ \A i \in 1..Len(names) : Table(names)[i] = Payload[names[i].req][names[i].n]
<1>1. Ids(Table(names)) = 1..Len(names) /\ DOMAIN names = 1..Len(names)
  BY DEF Ids, Table
<1>2. IsFiniteSet(1..Len(names))
  BY FS_Interval
<1> QED
  BY <1>1, <1>2 DEF Table

(* More rows at the end of the table take nothing away from a group, nor     *)
(* from what an earlier statement has read.                                  *)
LEMMA AppendedRows ==
  ASSUME NEW old \in Seq(RowName), NEW tail \in Seq(RowName), NEW new, new = old \o tail
  PROVE  /\ new \in Seq(RowName) /\ Len(old) <= Len(new)
         /\ \A k : GroupSize(Table(old), k) <= GroupSize(Table(new), k)
         /\ \A v \in 0..Len(old) : SubSeq(new, 1, v) = SubSeq(old, 1, v)
         /\ \A i \in DOMAIN old : /\ i \in DOMAIN new /\ new[i] = old[i]
                                  /\ KeyOf(Table(new), i) = KeyOf(Table(old), i)
<1>1. /\ new \in Seq(RowName) /\ Len(new) = Len(old) + Len(tail)
      /\ \A i \in 1..Len(old) : new[i] = old[i]
  BY ConcatProperties
<1>2. Len(old) \in Nat /\ Len(tail) \in Nat /\ Len(old) <= Len(new)
  BY <1>1
<1>3. /\ Ids(Table(old)) = 1..Len(old) /\ Ids(Table(new)) = 1..Len(new)
      /\ IsFiniteSet(Ids(Table(new)))
      /\ \A i \in 1..Len(old) : Table(new)[i] = Table(old)[i]
      /\ DOMAIN old = 1..Len(old) /\ DOMAIN new = 1..Len(new)
  <2>1. /\ Ids(Table(old)) = 1..Len(old) /\ Ids(Table(new)) = 1..Len(new)
        /\ IsFiniteSet(Ids(Table(new)))
        /\ DOMAIN old = 1..Len(old) /\ DOMAIN new = 1..Len(new)
    BY <1>1, TableProperties
  <2>2. \A i \in 1..Len(old) : i \in 1..Len(new)
    BY <1>2
  <2>3. /\ \A i \in 1..Len(old) : Table(old)[i] = Payload[old[i].req][old[i].n]
        /\ \A i \in 1..Len(new) : Table(new)[i] = Payload[new[i].req][new[i].n]
    BY <1>1, TableProperties
  <2> QED
    BY <1>1, <2>1, <2>2, <2>3
<1>4. Ids(Table(old)) \subseteq Ids(Table(new))
  BY <1>1, <1>2, <1>3
<1>5. \A k : GroupSize(Table(old), k) <= GroupSize(Table(new), k)
  BY <1>3, <1>4, GroupGrows DEF GroupSize
<1>6. ASSUME NEW v \in 0..Len(old) PROVE SubSeq(new, 1, v) = SubSeq(old, 1, v)
  <2>1. \A i \in 1..v : i \in 1..Len(old) /\ i \in 1..Len(new)
    BY <1>1, <1>2
  <2>2. \A i \in 1..v : new[i] = old[i]
    BY <1>1, <2>1
  <2>3. SubSeq(new, 1, v) = [i \in 1..v |-> new[i]] /\ SubSeq(old, 1, v) = [i \in 1..v |-> old[i]]
    BY <1>1, <1>2, <2>1
  <2> QED
    BY <2>2, <2>3
<1>7. \A i \in DOMAIN old : i \in DOMAIN new /\ KeyOf(Table(new), i) = KeyOf(Table(old), i)
  BY <1>3, <1>4 DEF KeyOf
<1> QED
  BY <1>1, <1>2, <1>3, <1>5, <1>6, <1>7

-----------------------------------------------------------------------------
(* What the handlers plan to run. *)

PlanStatement ==
  [stage : {"counts", "breakdown", "samples", "list"}, op : Ops \ {"rows"}, key : {<<>>}, occ : {0}]

(* A plan has statements of every kind but the fetching of a group.          *)
LEMMA StatementsTyped ==
  ASSUME NEW stage \in {"counts", "breakdown", "samples", "list"}, NEW ops \in Seq(Ops \ {"rows"})
  PROVE  Statements(stage, ops) \in Seq(PlanStatement)
<1>1. Len(ops) \in Nat /\ DOMAIN ops = 1..Len(ops) /\ \A i \in 1..Len(ops) : ops[i] \in Ops \ {"rows"}
  OBVIOUS
<1>2. Statements(stage, ops) \in [1..Len(ops) -> PlanStatement]
  BY <1>1 DEF Statements, PlanStatement
<1> QED
  BY <1>1, <1>2, SeqDef

(* So has every plan.                                                        *)
LEMMA PlanTyped ==
  ASSUME NEW kind \in Kinds
  PROVE  Plan(kind) \in Seq(PlanStatement)
<1> DEFINE Six == <<"orphaned", "ghost", "keys", "limbo", "unique", "total">>
           Four == <<"orphaned", "ghost", "keys", "limbo">>
<1>1. Six \in Seq(Ops \ {"rows"}) /\ Four \in Seq(Ops \ {"rows"})
  BY DEF Ops
<1>2. /\ CountsByWindow \in Seq(PlanStatement)
      /\ CountsByKey \in Seq(PlanStatement) /\ Samples \in Seq(PlanStatement)
  BY <1>1, StatementsTyped DEF CountsByWindow, CountsByKey, Samples
<1>3. <<>> \in Seq(PlanStatement)
  OBVIOUS
<1>4. \A breakdown \in BOOLEAN : /\ HealthPlan(breakdown) \in Seq(PlanStatement)
                                 /\ SummaryPlan(breakdown) \in Seq(PlanStatement)
  BY <1>2, <1>3, ConcatProperties DEF HealthPlan, SummaryPlan
<1>5. \A op \in Ops \ {"rows"} : Statements("list", <<op>>) \in Seq(PlanStatement)
  <2>1. \A op \in Ops \ {"rows"} : <<op>> \in Seq(Ops \ {"rows"})
    OBVIOUS
  <2> QED
    BY <2>1, StatementsTyped
<1>6. \A type \in {"orphaned", "ghost", "duplicate", "limbo"} : ListPlan(type) \in Seq(PlanStatement)
  BY <1>5 DEF ListPlan, Ops
<1>7. Probe \in Seq(PlanStatement)
  BY <1>5 DEF Probe, Ops
<1> QED
  BY <1>4, <1>6, <1>7 DEF Plan, Kinds

(* What is planned is typed, whatever the rows, and fetches no group.        *)
LEMMA PlannedStatements ==
  ASSUME NEW kind \in Kinds
  PROVE  /\ Plan(kind) \in Seq(Statement)
         /\ \A i \in DOMAIN Plan(kind) : Plan(kind)[i].op # "rows"
<1>1. Plan(kind) \in Seq(PlanStatement)
  BY PlanTyped
<1>2. PlanStatement \subseteq Statement
  BY DEF PlanStatement, Statement
<1>3. \A i \in DOMAIN Plan(kind) : Plan(kind)[i] \in PlanStatement
  BY <1>1
<1>4. \A s \in PlanStatement : s.op # "rows"
  BY DEF PlanStatement
<1> QED
  BY <1>1, <1>2, <1>3, <1>4, SeqMonotone

-----------------------------------------------------------------------------
(* What a statement returns. *)

(* A finite set can be listed, each of its elements once.                    *)
LEMMA SetToSeqListed ==
  ASSUME NEW S, IsFiniteSet(S)
  PROVE  /\ SetToSeq(S) \in Seq(S) /\ Len(SetToSeq(S)) = Cardinality(S)
         /\ SetToSeq(S) \in Injection(1..Cardinality(S), S)
         /\ SetToSeq(S) \in Surjection(1..Cardinality(S), S)
<1>1. Cardinality(S) \in Nat /\ ExistsBijection(1..Cardinality(S), S)
  BY FS_CardinalityType
<1>2. \E f \in [1..Cardinality(S) -> S] : IsInjective(f)
  <2>1. PICK f : f \in Bijection(1..Cardinality(S), S)
    BY <1>1 DEF ExistsBijection
  <2>2. f \in [1..Cardinality(S) -> S] /\ IsInjective(f)
    BY <2>1 DEF Bijection, Injection, IsInjective
  <2> QED
    BY <2>2
<1>3. SetToSeq(S) \in [1..Cardinality(S) -> S] /\ IsInjective(SetToSeq(S))
  BY <1>2 DEF SetToSeq
<1>4. SetToSeq(S) \in Injection(1..Cardinality(S), S)
  BY <1>3 DEF Injection
<1>5. Cardinality(1..Cardinality(S)) = Cardinality(S)
  BY <1>1, FS_Interval
<1>6. SetToSeq(S) \in Surjection(1..Cardinality(S), S)
  BY <1>4, <1>5, FS_Injection
<1> QED
  BY <1>1, <1>3, <1>4, <1>6, SeqDef

(* The keys a report goes on with are keys of groups.                        *)
LEMMA KeysListed ==
  ASSUME NEW stage, NEW tab, NEW w, IsFiniteSet(Ids(tab))
  PROVE  Keys(stage, tab, w) \in Seq(DuplicateKeys(tab, w))
<1> DEFINE all == SetToSeq(DuplicateKeys(tab, w))
<1>1. IsFiniteSet(DuplicateKeys(tab, w))
  BY FindingsFinite
<1>2. all \in Seq(DuplicateKeys(tab, w)) /\ Len(all) \in Nat
  BY <1>1, SetToSeqListed
<1>3. Limited(stage, Len(all)) \in 0..Len(all)
  BY <1>2, QueriesAssumption DEF Limited
<1>4. Keys(stage, tab, w) = SubSeq(all, 1, Limited(stage, Len(all)))
  BY DEF Keys
<1> HIDE DEF all
<1>5. \A i \in 1..Limited(stage, Len(all)) : all[i] \in DuplicateKeys(tab, w)
  BY <1>2, <1>3
<1> QED
  BY <1>3, <1>4, <1>5, SubSeqProperties

(* Every statement returns a number of rows.                                 *)
LEMMA ResultIsNumber ==
  ASSUME NEW s, s.op \in Ops, NEW tab, NEW w, IsFiniteSet(Ids(tab))
  PROVE  ResultSize(s, tab, w) \in Nat
<1>1. \A n \in Nat : Limited(s.stage, n) \in Nat
  BY QueriesAssumption DEF Limited
<1>2. /\ Limited(s.stage, Cardinality(Orphaned(tab, w))) \in Nat
      /\ Limited(s.stage, Cardinality(Ghosts(tab, w))) \in Nat
      /\ Limited(s.stage, Cardinality(DuplicateKeys(tab, w))) \in Nat
      /\ Limited(s.stage, Cardinality(LimboRows(tab, w, Now))) \in Nat
      /\ Cardinality(UniqueIn(tab, w)) \in Nat /\ Cardinality(RowsInWindow(tab, w)) \in Nat
  BY <1>1, FindingsFinite
<1>3. GroupSize(tab, s.key) \in Nat
  BY GroupFinite DEF GroupSize
<1> QED
  BY <1>2, <1>3 DEF ResultSize, Ops

(* The groups fetched are those counted, with the rows they had then.        *)
LEMMA FetchGroupsTyped ==
  ASSUME rows \in Seq(RowName), NEW stage \in {"counts", "breakdown", "samples", "list"},
         NEW w, NEW keys \in Seq(DuplicateKeys(Table(rows), w))
  PROVE  /\ FetchGroups(stage, keys, Table(rows)) \in Seq(Statement)
         /\ \A i \in DOMAIN FetchGroups(stage, keys, Table(rows)) :
              LET s == FetchGroups(stage, keys, Table(rows))[i]
              IN  s.occ = GroupSize(Table(rows), s.key)
<1>1. IsFiniteSet(Ids(Table(rows))) /\ Ids(Table(rows)) = DOMAIN rows
  BY TableProperties
<1>2. DuplicateKeys(Table(rows), w) \subseteq Keyed
  BY <1>1 DEF DuplicateKeys, Keyed
<1>3. Len(keys) \in Nat /\ DOMAIN keys = 1..Len(keys) /\ \A i \in 1..Len(keys) : keys[i] \in Keyed
  BY <1>2
<1>4. \A k : GroupSize(Table(rows), k) \in Nat
  BY <1>1, GroupFinite DEF GroupSize
<1>5. FetchGroups(stage, keys, Table(rows))
        = [i \in 1..Len(keys) |-> [stage |-> stage, op |-> "rows", key |-> keys[i],
                                   occ |-> GroupSize(Table(rows), keys[i])]]
  BY <1>3 DEF FetchGroups, GroupSize
<1>6. \A i \in 1..Len(keys) :
        [stage |-> stage, op |-> "rows", key |-> keys[i], occ |-> GroupSize(Table(rows), keys[i])]
          \in Statement
  BY <1>3, <1>4 DEF Statement, Ops
<1>7. FetchGroups(stage, keys, Table(rows)) \in [1..Len(keys) -> Statement]
  BY <1>5, <1>6
<1>8. FetchGroups(stage, keys, Table(rows)) \in Seq(Statement)
  BY <1>3, <1>7, SeqDef
<1> QED
  BY <1>5, <1>8
-----------------------------------------------------------------------------
(* The inductive invariant, one lemma per group of actions. *)

(* What is known of the statements stays true of more rows.                  *)
LEMMA StatementsGrow ==
  ASSUME ServiceTypeOK, NEW tail \in Seq(RowName), rows' = rows \o tail
  PROVE  Statement \subseteq Statement' /\ Reading \subseteq Reading'
<1>1. rows \in Seq(RowName)
  BY DEF ServiceTypeOK
<1>2. \A i \in DOMAIN rows : /\ i \in DOMAIN rows'
                             /\ KeyOf(Table(rows'), i) = KeyOf(Table(rows), i)
  BY <1>1, AppendedRows
<1>3. Keyed \subseteq Keyed'
  BY <1>2 DEF Keyed
<1>4. Statement \subseteq Statement'
  BY <1>3 DEF Statement
<1> QED
  BY <1>4 DEF Reading

(* Rows that are committed behind a report's back leave what the report has  *)
(* read true of the rows that were there.                                    *)
LEMMA RowsKeepReports ==
  ASSUME ServiceTypeOK, ReportInv, NEW tail \in Seq(RowName), rows' = rows \o tail,
         UNCHANGED <<ask, todo, got, start>>,
         NothingReadYet', CursorHasStatement', Boundary(Len(rows))'
  PROVE  ReportInv'
<1> USE DEF ReportInv
<1>1. rows \in Seq(RowName) /\ rows' \in Seq(RowName)
  BY AppendedRows DEF ServiceTypeOK
<1>2. /\ Len(rows) \in Nat /\ Len(rows') \in Nat /\ Len(rows) <= Len(rows')
      /\ \A k : GroupSize(Table(rows), k) \in Nat /\ GroupSize(Table(rows'), k) \in Nat
      /\ \A k : GroupSize(Table(rows), k) <= GroupSize(Table(rows'), k)
      /\ \A v \in 0..Len(rows) : SubSeq(rows', 1, v) = SubSeq(rows, 1, v)
      /\ \A i \in DOMAIN rows : i \in DOMAIN rows' /\ rows'[i] = rows[i]
      /\ DOMAIN rows = 1..Len(rows)
  <2>1. Len(rows) \in Nat /\ Len(rows') \in Nat /\ DOMAIN rows = 1..Len(rows)
    BY <1>1
  <2>2. \A k : GroupSize(Table(rows), k) \in Nat /\ GroupSize(Table(rows'), k) \in Nat
    BY <1>1, TableProperties, GroupFinite DEF GroupSize
  <2>3. Len(rows) <= Len(rows')
    BY <1>1, AppendedRows
  <2>4. \A k : GroupSize(Table(rows), k) <= GroupSize(Table(rows'), k)
    BY <1>1, AppendedRows
  <2>5. \A v \in 0..Len(rows) : SubSeq(rows', 1, v) = SubSeq(rows, 1, v)
    BY <1>1, AppendedRows
  <2>6. \A i \in DOMAIN rows : i \in DOMAIN rows' /\ rows'[i] = rows[i]
    BY <1>1, AppendedRows
  <2> QED
    BY <2>1, <2>2, <2>3, <2>4, <2>5, <2>6
<1>3. ReportsTypeOK'
  <2>1. Statement \subseteq Statement' /\ Reading \subseteq Reading'
    BY StatementsGrow
  <2>2. \A q \in Queries : todo[q] \in Seq(Statement')
    BY <2>1, SeqMonotone DEF ReportsTypeOK
  <2>3. \A q \in Queries : got[q] \in Seq(Reading')
    BY <2>1, SeqMonotone DEF ReportsTypeOK
  <2> QED
    BY <2>2, <2>3 DEF ReportsTypeOK
<1>4. NothingReadYet' /\ CursorHasStatement'
  OBVIOUS
<1>5. \A q \in Queries : /\ start[q] \in Nat
                         /\ \A i \in DOMAIN got[q] : got[q][i].seen \in Nat
                         /\ \A i \in DOMAIN todo[q] : todo[q][i].occ \in Nat
  <2>1. \A q \in Queries : start[q] \in Nat
    BY DEF ServiceTypeOK
  <2>2. \A q \in Queries : \A i \in DOMAIN got[q] : got[q][i] \in Reading
    BY DEF ReportsTypeOK
  <2>3. \A q \in Queries : \A i \in DOMAIN todo[q] : todo[q][i] \in Statement
    BY DEF ReportsTypeOK
  <2> QED
    BY <2>1, <2>2, <2>3 DEF Statement, Reading
<1>6. SeenIsPast'
  BY <1>2, <1>5 DEF SeenIsPast
<1>7. GroupsToFetchGrow'
  <2> SUFFICES ASSUME NEW q \in Queries, NEW i \in DOMAIN todo[q], todo[q][i].op = "rows"
               PROVE  todo[q][i].occ <= GroupSize(Table(rows'), todo[q][i].key)
    BY DEF GroupsToFetchGrow
  <2>1. todo[q][i].occ <= GroupSize(Table(rows), todo[q][i].key)
    BY DEF GroupsToFetchGrow
  <2> QED
    BY <1>2, <1>5, <2>1
<1>8. StatementsReadCommitted'
  <2> SUFFICES ASSUME NEW q \in Queries, NEW i \in DOMAIN got[q]
               PROVE  /\ Boundary(got[q][i].seen)'
                      /\ got[q][i].seen >= (IF i = 1 THEN start[q] ELSE got[q][i - 1].seen)
                      /\ ~got[q][i].cut =>
                           got[q][i].n = ResultSize(got[q][i].s, Prefix(got[q][i].seen)', ask[q].win)
    BY DEF StatementsReadCommitted
  <2> DEFINE e == got[q][i]
  <2>1. /\ Boundary(e.seen)
        /\ e.seen >= (IF i = 1 THEN start[q] ELSE got[q][i - 1].seen)
        /\ ~e.cut => e.n = ResultSize(e.s, Prefix(e.seen), ask[q].win)
    BY DEF StatementsReadCommitted
  <2>2. e.seen \in 0..Len(rows)
    BY <2>1 DEF Boundary
  <2>3. Prefix(e.seen)' = Prefix(e.seen)
    BY <1>2, <2>2 DEF Prefix
  <2>4. Boundary(e.seen)'
    BY <1>2, <2>1, <2>2 DEF Boundary
  <2> QED
    BY <2>1, <2>3, <2>4
<1>9. GroupsNeverShrink'
  BY DEF GroupsNeverShrink
<1> QED
  BY <1>3, <1>4, <1>6, <1>7, <1>8, <1>9

(* A reader sees the committed rows.                                         *)
LEMMA ReaderSeesCommitted ==
  ASSUME ServiceInv, NEW q \in Queries, conn = q
  PROVE  Visible = rows
<1>1. q \notin Batches
  BY RequestsAssumption
<1>2. scratch = <<>> /\ rows \in Seq(RowName)
  BY <1>1 DEF ServiceInv, LoopAccountsForScratch, ServiceTypeOK
<1> QED
  BY <1>2, ConcatEmptySeq DEF Visible

(* All of the table is a prefix of it.                                       *)
LEMMA WholePrefix ==
  ASSUME rows \in Seq(RowName)
  PROVE  Prefix(Len(rows)) = Table(rows)
<1>1. Len(rows) \in Nat /\ rows = [i \in 1..Len(rows) |-> rows[i]]
  OBVIOUS
<1>2. SubSeq(rows, 1, Len(rows)) = rows
  BY <1>1
<1> QED
  BY <1>2 DEF Prefix

(* A statement that has run adds what it read to what the report knows, and  *)
(* the groups to fetch to what it has left to do.                            *)
LEMMA TakeKeepsReports ==
  ASSUME ServiceInv, ReportInv, NEW q \in Queries, qpc[q] = "cursor", conn = q,
         rows' = rows, UNCHANGED <<ask, start>>,
         qpc' = [qpc EXCEPT ![q] = "waiting"],
         NEW groups \in Seq(Statement),
         \A i \in DOMAIN groups : groups[i].occ <= GroupSize(Table(rows), groups[i].key),
         todo' = [todo EXCEPT ![q] = groups \o Tail(@)],
         NEW n \in Nat, NEW cut \in BOOLEAN, Took(q, Head(todo[q]), n, cut),
         ~cut => n = ResultSize(Head(todo[q]), Table(rows), ask[q].win),
         cut => Head(todo[q]).op # "rows"
  PROVE  ReportInv'
<1> DEFINE s == Head(todo[q])
           e == [s |-> s, n |-> n, seen |-> Len(rows), cut |-> cut]
           L == Len(got[q])
<1>1. rows \in Seq(RowName) /\ Len(rows) \in Nat /\ ServiceTypeOK
  BY DEF ServiceInv, ServiceTypeOK
<1>2. /\ todo[q] \in Seq(Statement) /\ got[q] \in Seq(Reading) /\ todo[q] # <<>>
      /\ todo \in [Queries -> Seq(Statement)] /\ got \in [Queries -> Seq(Reading)]
  BY DEF ReportInv, ReportsTypeOK, CursorHasStatement
<1>3. s \in Statement /\ Tail(todo[q]) \in Seq(Statement) /\ L \in Nat
  BY <1>2
<1>4. e \in Reading
  BY <1>1, <1>3 DEF Reading
<1>5. got' = [got EXCEPT ![q] = Append(got[q], e)]
  BY ReaderSeesCommitted DEF Took, Result
<1>6. /\ got'[q] = Append(got[q], e) /\ \A p \in Queries \ {q} : got'[p] = got[p]
      /\ todo'[q] = groups \o Tail(todo[q]) /\ \A p \in Queries \ {q} : todo'[p] = todo[p]
      /\ qpc'[q] = "waiting" /\ \A p \in Queries \ {q} : qpc'[p] = qpc[p]
  BY <1>1, <1>2, <1>5 DEF ServiceTypeOK
<1> HIDE DEF e, s
<1>7. /\ got'[q] \in Seq(Reading) /\ DOMAIN got'[q] = 1..(L + 1) /\ DOMAIN got[q] = 1..L
      /\ got'[q][L + 1] = e /\ \A i \in 1..L : got'[q][i] = got[q][i]
  BY <1>2, <1>3, <1>4, <1>6, AppendProperties
<1>8. /\ \A i \in 1..(L + 1) : i \in 1..L \/ i = L + 1
      /\ L + 1 # 1 => L + 1 - 1 = L /\ L \in 1..L
      /\ \A i \in 1..L : i \in 1..(L + 1) /\ (i # 1 => i - 1 \in 1..L)
  BY <1>3
<1>9. e.s = s /\ e.n = n /\ e.seen = Len(rows) /\ e.cut = cut
  BY DEF e
<1>10. Statement' = Statement /\ Reading' = Reading
  BY DEF Statement, Reading, Keyed
<1>11. ReportsTypeOK'
  <2>1. groups \o Tail(todo[q]) \in Seq(Statement)
    BY <1>3, ConcatProperties
  <2>2. todo' \in [Queries -> Seq(Statement)]
    BY <1>2, <2>1
  <2>3. got' \in [Queries -> Seq(Reading)]
    BY <1>2, <1>5, <1>6, <1>7
  <2> QED
    BY <1>10, <2>2, <2>3 DEF ReportInv, ReportsTypeOK
<1>12. Boundary(Len(rows))'
  BY DEF ReportInv, Boundary
<1>13. NothingReadYet' /\ CursorHasStatement'
  BY <1>6 DEF ReportInv, NothingReadYet, CursorHasStatement
<1>14. SeenIsPast'
  <2>1. \A i \in DOMAIN got'[q] : got'[q][i].seen <= Len(rows)
    <3>1. \A i \in 1..L : got[q][i].seen <= Len(rows)
      BY <1>7 DEF ReportInv, SeenIsPast
    <3>2. e.seen <= Len(rows)
      BY <1>1, <1>9
    <3>3. \A i \in 1..L : got'[q][i].seen <= Len(rows)
      BY <1>7, <3>1
    <3>4. got'[q][L + 1].seen <= Len(rows)
      BY <1>7, <3>2
    <3> QED
      BY <1>7, <1>8, <3>3, <3>4
  <2> QED
    BY <1>6, <2>1 DEF ReportInv, SeenIsPast
<1>15. GroupsToFetchGrow'
  <2>1. ASSUME NEW i \in DOMAIN todo'[q], todo'[q][i].op = "rows"
        PROVE  todo'[q][i].occ <= GroupSize(Table(rows), todo'[q][i].key)
    <3>1. \/ i \in DOMAIN groups /\ todo'[q][i] = groups[i]
          \/ \E j \in DOMAIN todo[q] : todo'[q][i] = todo[q][j]
      <4> DEFINE t == Tail(todo[q])
      <4>1. /\ Len(groups) \in Nat /\ Len(t) \in Nat /\ DOMAIN groups = 1..Len(groups)
            /\ t \in Seq(Statement)
            /\ DOMAIN todo[q] = 1..(Len(t) + 1) /\ \A k \in 1..Len(t) : t[k] = todo[q][k + 1]
        BY <1>2, HeadTailProperties
      <4> HIDE DEF t
      <4>2. i \in 1..(Len(groups) + Len(t))
        BY <1>6, <2>1, <4>1, ConcatProperties DEF t
      <4>3. todo'[q][i] = IF i <= Len(groups) THEN groups[i] ELSE t[i - Len(groups)]
        BY <1>6, <4>1, <4>2, ConcatProperties DEF t
      <4>4. CASE i <= Len(groups)
        BY <4>1, <4>2, <4>3, <4>4
      <4>5. CASE ~(i <= Len(groups))
        <5>1. /\ i - Len(groups) \in 1..Len(t)
              /\ i - Len(groups) + 1 \in 1..(Len(t) + 1)
          BY <4>1, <4>2, <4>5
        <5> QED
          BY <4>1, <4>3, <4>5, <5>1
      <4> QED
        BY <4>4, <4>5
    <3> QED
      BY <2>1, <3>1 DEF ReportInv, GroupsToFetchGrow
  <2>2. ASSUME NEW p \in Queries \ {q}, NEW i \in DOMAIN todo[p], todo[p][i].op = "rows"
        PROVE  todo[p][i].occ <= GroupSize(Table(rows), todo[p][i].key)
    BY <2>2 DEF ReportInv, GroupsToFetchGrow
  <2>3. ASSUME NEW p \in Queries, NEW i \in DOMAIN todo'[p], todo'[p][i].op = "rows"
        PROVE  todo'[p][i].occ <= GroupSize(Table(rows), todo'[p][i].key)
    <3>1. CASE p = q
      BY <2>1, <2>3, <3>1
    <3>2. CASE p # q
      BY <1>6, <2>2, <2>3, <3>2
    <3> QED
      BY <3>1, <3>2
  <2> QED
    BY <2>3 DEF GroupsToFetchGrow
<1>16. StatementsReadCommitted'
  <2>1. /\ \A v : Boundary(v)' <=> Boundary(v)
        /\ \A v : Prefix(v)' = Prefix(v)
    BY DEF Boundary, Prefix
  <2>2. Boundary(Len(rows)) /\ Prefix(Len(rows)) = Table(rows)
    BY <1>1, WholePrefix DEF ReportInv
  <2>3. start[q] <= Len(rows) /\ (L \in 1..L => got[q][L].seen <= Len(rows))
    BY <1>7 DEF ReportInv, SeenIsPast
  <2>4. start[q] \in Nat /\ (L \in 1..L => got[q][L].seen \in Nat)
    <3>1. start[q] \in Nat
      BY <1>1 DEF ServiceTypeOK
    <3>2. L \in 1..L => got[q][L] \in Reading
      BY <1>2, <1>7
    <3> QED
      BY <3>1, <3>2 DEF Reading
  <2>5. ASSUME NEW i \in 1..(L + 1)
        PROVE  /\ Boundary(got'[q][i].seen)
               /\ got'[q][i].seen >= (IF i = 1 THEN start[q] ELSE got'[q][i - 1].seen)
               /\ ~got'[q][i].cut =>
                    got'[q][i].n = ResultSize(got'[q][i].s, Prefix(got'[q][i].seen), ask[q].win)
    <3>1. CASE i \in 1..L
      <4>1. got'[q][i] = got[q][i] /\ (i # 1 => got'[q][i - 1] = got[q][i - 1])
        BY <1>7, <1>8, <3>1
      <4> QED
        BY <1>7, <3>1, <4>1 DEF ReportInv, StatementsReadCommitted
    <3>2. CASE i = L + 1
      <4>1. got'[q][i] = e /\ (i # 1 => i - 1 = L /\ got'[q][i - 1] = got[q][L] /\ L \in 1..L)
        BY <1>7, <1>8, <3>2
      <4>2. e.seen >= (IF i = 1 THEN start[q] ELSE got'[q][i - 1].seen)
        BY <1>1, <1>9, <2>3, <2>4, <4>1
      <4>3. ~e.cut => e.n = ResultSize(e.s, Prefix(e.seen), ask[q].win)
        BY <1>9, <2>2 DEF s
      <4> QED
        BY <1>9, <2>2, <4>1, <4>2, <4>3
    <3> QED
      BY <1>8, <3>1, <3>2
  <2>6. ASSUME NEW p \in Queries \ {q}, NEW i \in DOMAIN got[p]
        PROVE  /\ Boundary(got[p][i].seen)
               /\ got[p][i].seen >= (IF i = 1 THEN start[p] ELSE got[p][i - 1].seen)
               /\ ~got[p][i].cut =>
                    got[p][i].n = ResultSize(got[p][i].s, Prefix(got[p][i].seen), ask[p].win)
    BY DEF ReportInv, StatementsReadCommitted
  <2>7. ASSUME NEW p \in Queries, NEW i \in DOMAIN got'[p]
        PROVE  /\ Boundary(got'[p][i].seen)
               /\ got'[p][i].seen >= (IF i = 1 THEN start[p] ELSE got'[p][i - 1].seen)
               /\ ~got'[p][i].cut =>
                    got'[p][i].n = ResultSize(got'[p][i].s, Prefix(got'[p][i].seen), ask[p].win)
    <3>1. CASE p = q
      BY <1>7, <2>5, <3>1
    <3>2. CASE p # q
      BY <1>6, <2>6, <3>2
    <3> QED
      BY <3>1, <3>2
  <2> QED
    BY <2>1, <2>7 DEF StatementsReadCommitted
<1>17. GroupsNeverShrink'
  <2>1. s.op = "rows" => n >= s.occ
    <3>1. todo[q][1] = s /\ 1 \in DOMAIN todo[q]
      BY <1>2 DEF s
    <3>2. s.op = "rows" => s.occ <= GroupSize(Table(rows), s.key)
      BY <3>1 DEF ReportInv, GroupsToFetchGrow
    <3>3. s.op = "rows" => n = GroupSize(Table(rows), s.key)
      BY DEF s, ResultSize
    <3> QED
      BY <1>3, <3>2, <3>3 DEF Statement
  <2>2. \A i \in DOMAIN got'[q] : got'[q][i].s.op = "rows" => got'[q][i].n >= got'[q][i].s.occ
    BY <1>7, <1>8, <1>9, <2>1 DEF ReportInv, GroupsNeverShrink
  <2> QED
    BY <1>6, <2>2 DEF ReportInv, GroupsNeverShrink
<1> QED
  BY <1>11, <1>12, <1>13, <1>14, <1>15, <1>16, <1>17 DEF ReportInv
(* A step that changes neither the rows nor what a report has read leaves    *)
(* both as they were.                                                        *)
LEMMA SameRowsKeepReports ==
  ASSUME ServiceTypeOK, ReportInv, rows' = rows, UNCHANGED <<ask, todo, got, start>>,
         NothingReadYet', CursorHasStatement'
  PROVE  ReportInv'
<1>1. rows \in Seq(RowName) /\ <<>> \in Seq(RowName)
  BY DEF ServiceTypeOK
<1>2. rows' = rows \o <<>>
  BY <1>1, ConcatEmptySeq
<1>3. Boundary(Len(rows))'
  BY DEF ReportInv, Boundary
<1> QED
  BY <1>1, <1>2, <1>3, RowsKeepReports

(* A report that is received has read nothing and plans no group to fetch.   *)
LEMMA ReceiveKeepsReports ==
  ASSUME ServiceInv, ReportInv, NEW q \in Queries, ReceiveQuery(q)
  PROVE  ReportInv'
<1>1. ServiceTypeOK /\ rows \in Seq(RowName) /\ Len(rows) \in Nat
  BY DEF ServiceInv, ServiceTypeOK
<1>2. PICK a \in Asks : /\ ask' = [ask EXCEPT ![q] = a]
                        /\ todo' = [todo EXCEPT ![q] = Plan(a.kind)]
                        /\ QGoto(q, IF Refusal(a) = "none" THEN "waiting" ELSE "refused")
  BY DEF ReceiveQuery
<1>3. /\ rows' = rows /\ got' = got /\ start' = [start EXCEPT ![q] = Len(rows)]
      /\ got[q] = <<>>
  BY DEF ReceiveQuery, storeVars, ReportInv, NothingReadYet
<1>4. /\ Plan(a.kind) \in Seq(Statement)
      /\ \A i \in DOMAIN Plan(a.kind) : Plan(a.kind)[i].op # "rows"
  BY PlannedStatements, QueriesAssumption
<1>5. /\ ask'[q] = a /\ todo'[q] = Plan(a.kind) /\ start'[q] = Len(rows)
      /\ qpc'[q] \in {"waiting", "refused"}
      /\ \A p \in Queries \ {q} : /\ ask'[p] = ask[p] /\ todo'[p] = todo[p]
                                  /\ start'[p] = start[p] /\ qpc'[p] = qpc[p]
  BY <1>1, <1>2, <1>3 DEF ServiceTypeOK, ReportInv, ReportsTypeOK, QGoto
<1>6. Statement' = Statement /\ Reading' = Reading
  BY <1>3 DEF Statement, Reading, Keyed
<1>7. ReportsTypeOK'
  <2>1. ask' \in [Queries -> Asks \cup {NoAsk}]
    BY <1>2 DEF ReportInv, ReportsTypeOK
  <2>2. todo' \in [Queries -> Seq(Statement)]
    BY <1>2, <1>4 DEF ReportInv, ReportsTypeOK
  <2> QED
    BY <1>3, <1>6, <2>1, <2>2 DEF ReportInv, ReportsTypeOK
<1>8. Boundary(Len(rows))' /\ GroupsNeverShrink'
  BY <1>3 DEF ReportInv, Boundary, GroupsNeverShrink
<1>9. NothingReadYet' /\ CursorHasStatement'
  BY <1>3, <1>5 DEF ReportInv, NothingReadYet, CursorHasStatement
<1>10. SeenIsPast'
  <2>1. ASSUME NEW p \in Queries PROVE start'[p] <= Len(rows)
    BY <1>1, <1>5 DEF ReportInv, SeenIsPast
  <2> QED
    BY <1>3, <2>1 DEF ReportInv, SeenIsPast
<1>11. GroupsToFetchGrow'
  <2> SUFFICES ASSUME NEW p \in Queries, NEW i \in DOMAIN todo'[p], todo'[p][i].op = "rows"
               PROVE  todo'[p][i].occ <= GroupSize(Table(rows), todo'[p][i].key)
    BY <1>3 DEF GroupsToFetchGrow
  <2>1. CASE p = q
    BY <1>4, <1>5, <2>1
  <2>2. CASE p # q
    BY <1>5, <2>2 DEF ReportInv, GroupsToFetchGrow
  <2> QED
    BY <2>1, <2>2
<1>12. StatementsReadCommitted'
  <2>1. /\ \A v : Boundary(v)' <=> Boundary(v)
        /\ \A v : Prefix(v)' = Prefix(v)
    BY <1>3 DEF Boundary, Prefix
  <2>2. ASSUME NEW p \in Queries, NEW i \in DOMAIN got[p]
        PROVE  /\ Boundary(got[p][i].seen)
               /\ got[p][i].seen >= (IF i = 1 THEN start'[p] ELSE got[p][i - 1].seen)
               /\ ~got[p][i].cut =>
                    got[p][i].n = ResultSize(got[p][i].s, Prefix(got[p][i].seen), ask'[p].win)
    <3>1. p # q
      BY <1>3
    <3> QED
      BY <1>5, <3>1 DEF ReportInv, StatementsReadCommitted
  <2> QED
    BY <1>3, <2>1, <2>2 DEF StatementsReadCommitted
<1> QED
  BY <1>7, <1>8, <1>9, <1>10, <1>11, <1>12 DEF ReportInv

(* A statement that is read to its end, or whose iteration ends early in     *)
(* FindDuplicates.                                                           *)
LEMMA CursorKeepsReports ==
  ASSUME ServiceInv, ReportInv, NEW q \in Queries, CloseCursor(q) \/ KeysCutShort(q)
  PROVE  ReportInv'
<1> DEFINE s == Head(todo[q])
           w == ask[q].win
           tab == Table(rows)
<1>1. /\ qpc[q] = "cursor" /\ conn = q /\ rows' = rows /\ UNCHANGED <<ask, start>>
      /\ qpc' = [qpc EXCEPT ![q] = "waiting"]
  BY DEF CloseCursor, KeysCutShort, Release, QGoto
<1>2. Visible = rows /\ rows \in Seq(RowName)
  BY <1>1, ReaderSeesCommitted DEF ServiceInv, ServiceTypeOK
<1>3. s \in Statement
  BY <1>1 DEF ReportInv, ReportsTypeOK, CursorHasStatement
<1>4. /\ s.stage \in {"counts", "breakdown", "samples", "list"} /\ s.op \in Ops
  BY <1>3 DEF Statement
<1>5. IsFiniteSet(Ids(tab))
  BY <1>2, TableProperties
<1>6. Keys(s.stage, tab, w) \in Seq(DuplicateKeys(tab, w))
  BY <1>5, KeysListed
<1>7. \A k : GroupSize(tab, k) \in Nat
  BY <1>5, GroupFinite DEF GroupSize
<1>8. ASSUME NEW keys \in Seq(DuplicateKeys(tab, w))
      PROVE  /\ FetchGroups(s.stage, keys, tab) \in Seq(Statement)
             /\ \A i \in DOMAIN FetchGroups(s.stage, keys, tab) :
                  FetchGroups(s.stage, keys, tab)[i].occ
                    <= GroupSize(tab, FetchGroups(s.stage, keys, tab)[i].key)
  <2>1. /\ FetchGroups(s.stage, keys, tab) \in Seq(Statement)
        /\ \A i \in DOMAIN FetchGroups(s.stage, keys, tab) :
             LET g == FetchGroups(s.stage, keys, tab)[i]
             IN  g.occ = GroupSize(tab, g.key)
    BY <1>2, <1>4, FetchGroupsTyped
  <2> QED
    BY <1>7, <2>1
<1>9. CASE CloseCursor(q)
  <2> DEFINE groups == IF s.op = "keys" THEN FetchGroups(s.stage, Keys(s.stage, tab, w), tab)
                       ELSE <<>>
             n == ResultSize(s, tab, w)
  <2>1. /\ Took(q, s, n, FALSE)
        /\ todo' = [todo EXCEPT ![q] = groups \o Tail(@)]
    BY <1>2, <1>9 DEF CloseCursor
  <2>2. n \in Nat
    BY <1>4, <1>5, ResultIsNumber
  <2>3. /\ groups \in Seq(Statement)
        /\ \A i \in DOMAIN groups : groups[i].occ <= GroupSize(tab, groups[i].key)
    BY <1>6, <1>8
  <2> HIDE DEF groups
  <2> QED
    BY <1>1, <2>1, <2>2, <2>3, TakeKeepsReports
<1>10. CASE KeysCutShort(q)
  <2> DEFINE keys == Keys(s.stage, tab, w)
  <2>1. PICK m \in 0..Len(keys) :
          /\ Took(q, s, m, TRUE)
          /\ todo' = [todo EXCEPT ![q] = FetchGroups(s.stage, SubSeq(keys, 1, m), tab) \o Tail(@)]
    BY <1>2, <1>10 DEF KeysCutShort
  <2>2. s.op = "keys"
    BY <1>10 DEF KeysCutShort
  <2> DEFINE first == SubSeq(keys, 1, m)
             groups == FetchGroups(s.stage, first, tab)
  <2>3. Len(keys) \in Nat /\ \A i \in 1..Len(keys) : keys[i] \in DuplicateKeys(tab, w)
    BY <1>6
  <2>4. m \in Nat /\ \A i \in 1..m : keys[i] \in DuplicateKeys(tab, w)
    BY <2>3
  <2> HIDE DEF keys
  <2>5. first \in Seq(DuplicateKeys(tab, w))
    BY <1>6, <2>3, <2>4, SubSeqProperties DEF keys
  <2> HIDE DEF first
  <2>6. /\ groups \in Seq(Statement)
        /\ \A i \in DOMAIN groups : groups[i].occ <= GroupSize(tab, groups[i].key)
    BY <1>8, <2>5
  <2>7. todo' = [todo EXCEPT ![q] = groups \o Tail(@)]
    BY <2>1 DEF first
  <2> HIDE DEF groups
  <2> QED
    BY <1>1, <2>1, <2>2, <2>4, <2>6, <2>7, TakeKeepsReports
<1> QED
  BY <1>9, <1>10
(* Every step of a report.                                                   *)
LEMMA ReportStepKeepsReports ==
  ASSUME ServiceInv, ReportInv, NEW q \in Queries, ReportStep(q)
  PROVE  ReportInv'
<1>1. /\ ServiceTypeOK /\ NothingReadYet /\ CursorHasStatement
      /\ qpc \in [Queries -> {"idle", "waiting", "cursor", "refused", "failed", "answered"}]
  BY DEF ServiceInv, ReportInv, ServiceTypeOK
<1>2. CASE ReceiveQuery(q)
  BY <1>2, ReceiveKeepsReports
<1>3. CASE CloseCursor(q) \/ KeysCutShort(q)
  BY <1>3, CursorKeepsReports
<1>4. CASE CancelQuery(q)
  <2>1. UNCHANGED <<rows, ask, todo, got, start, qpc>>
    BY <1>4 DEF CancelQuery, CancelContext, reportVars
  <2>2. NothingReadYet' /\ CursorHasStatement'
    BY <1>1, <2>1 DEF NothingReadYet, CursorHasStatement
  <2> QED
    BY <1>1, <2>1, <2>2, SameRowsKeepReports
<1>5. CASE OpenCursor(q) \/ OpenFails(q) \/ CursorFails(q) \/ AnswerQuery(q)
  <2>1. /\ UNCHANGED <<rows, ask, todo, got, start>>
        /\ \E label \in {"cursor", "failed", "answered"} :
             /\ qpc' = [qpc EXCEPT ![q] = label]
             /\ label = "cursor" => todo[q] # <<>>
    BY <1>5 DEF OpenCursor, OpenFails, CursorFails, AnswerQuery, QGoto, storeVars
  <2>2. NothingReadYet' /\ CursorHasStatement'
    <3>1. \A p \in Queries : /\ qpc'[p] = "idle" => qpc[p] = "idle"
                             /\ qpc'[p] = "cursor" => qpc[p] = "cursor" \/ todo[p] # <<>>
      BY <1>1, <2>1
    <3> QED
      BY <1>1, <2>1, <3>1 DEF NothingReadYet, CursorHasStatement
  <2> QED
    BY <1>1, <2>1, <2>2, SameRowsKeepReports
<1> QED
  BY <1>2, <1>3, <1>4, <1>5 DEF ReportStep, Report

(* A commit ends the table with the end of a batch.                          *)
LEMMA CommitKeepsReports ==
  ASSUME ServiceInv, ReportInv, UNCHANGED reportVars, NEW b \in Batches, CommitBatch(b)
  PROVE  ReportInv'
<1>1. /\ conn = b /\ next[b] > Len(Payload[b]) /\ rows' = rows \o scratch
      /\ UNCHANGED <<qpc, ask, todo, got, start>>
  BY DEF CommitBatch, CommitTx, reportVars
<1>2. /\ ServiceTypeOK /\ scratch \in Seq(RowName) /\ rows \in Seq(RowName)
      /\ next[b] \in 1..(Len(Payload[b]) + 1) /\ Len(Payload[b]) \in Nat
      /\ scratch = [i \in 1..(next[b] - 1) |-> [req |-> b, n |-> i]]
  BY <1>1, BatchesAssumption DEF ServiceInv, ServiceTypeOK, LoopAccountsForScratch
<1>3. next[b] - 1 = Len(Payload[b])
  BY <1>1, <1>2
<1>4. /\ Len(scratch) = Len(Payload[b])
      /\ \A i \in 1..Len(scratch) : scratch[i] = [req |-> b, n |-> i]
  BY <1>2, <1>3
<1>5. Boundary(Len(rows))'
  <2>1. /\ Len(rows) \in Nat /\ Len(rows') = Len(rows) + Len(scratch)
        /\ \A i \in 1..Len(rows) : rows'[i] = rows[i]
        /\ \A i \in 1..Len(scratch) : rows'[Len(rows) + i] = scratch[i]
    BY <1>1, <1>2, ConcatProperties
  <2>2. Len(rows') \in 0..Len(rows')
    BY <1>2, <1>4, <2>1
  <2>3. CASE Len(scratch) = 0
    <3>1. Len(rows') = Len(rows) /\ (Len(rows) > 0 => rows'[Len(rows)] = rows[Len(rows)])
      BY <2>1, <2>3
    <3> QED
      BY <2>2, <3>1 DEF ReportInv, Boundary
  <2>4. CASE Len(scratch) # 0
    <3>1. Len(scratch) \in 1..Len(scratch)
      BY <1>2, <1>4, <2>4
    <3>2. rows'[Len(rows')] = [req |-> b, n |-> Len(Payload[b])]
      BY <1>4, <2>1, <3>1
    <3>3. rows'[Len(rows')].req = b /\ rows'[Len(rows')].n = Len(Payload[b])
      BY ONLY <3>2
    <3> QED
      BY <2>2, <3>3 DEF Boundary
  <2> QED
    BY <2>3, <2>4
<1>6. NothingReadYet' /\ CursorHasStatement'
  BY <1>1 DEF ReportInv, NothingReadYet, CursorHasStatement
<1> QED
  BY <1>1, <1>2, <1>5, <1>6, RowsKeepReports

(* The other steps of ingest commit nothing.                                 *)
LEMMA IngestKeepsReports ==
  ASSUME ServiceInv, ReportInv, UNCHANGED reportVars, NEW b \in Batches, IngestStep(b)
  PROVE  ReportInv'
<1>1. CASE CommitBatch(b)
  BY <1>1, CommitKeepsReports
<1>2. CASE ~CommitBatch(b)
  <2>1. rows' = rows
    BY <1>2 DEF IngestStep, Handle, Receive, BeginBatch, BeginFails, InsertRow, StatementFails,
                DeferredRollback, AwaitDone, RollbackTx, Respond, Cancel, CancelContext, storeVars
  <2>2. UNCHANGED <<qpc, ask, todo, got, start>>
    BY DEF reportVars
  <2>3. NothingReadYet' /\ CursorHasStatement'
    BY <2>2 DEF ReportInv, NothingReadYet, CursorHasStatement
  <2> QED
    BY <2>1, <2>2, <2>3, SameRowsKeepReports DEF ServiceInv
<1> QED
  BY <1>1, <1>2

(* The end of a process ends its reports.                                    *)
LEMMA ProcessKeepsReports ==
  ASSUME ServiceInv, ReportInv, Lifecycle \/ DrainedExit \/ Crash
  PROVE  ReportInv'
<1>1. UNCHANGED <<rows, ask, todo, got, start>>
  BY DEF Lifecycle, Start, Signal, DrainedExit, Crash, Stop, LoseReports, reportVars
<1>2. \A q \in Queries : qpc'[q] \in {qpc[q], "answered"}
  <2>1. CASE Lifecycle \/ DrainedExit
    BY <2>1 DEF Lifecycle, DrainedExit, reportVars
  <2>2. CASE Crash
    BY <2>2 DEF Crash, LoseReports
  <2> QED
    BY <2>1, <2>2
<1>3. NothingReadYet' /\ CursorHasStatement'
  BY <1>1, <1>2 DEF ReportInv, NothingReadYet, CursorHasStatement
<1> QED
  BY <1>1, <1>3, SameRowsKeepReports DEF ServiceInv

-----------------------------------------------------------------------------
(* No report has read anything, and there is nothing to read.                *)
LEMMA InitReports == ServiceInit => ReportInv
<1> SUFFICES ASSUME ServiceInit PROVE ReportInv
  OBVIOUS
<1>1. /\ rows = <<>> /\ Len(rows) = 0
      /\ \A q \in Queries : /\ qpc[q] = "idle" /\ todo[q] = <<>> /\ got[q] = <<>> /\ start[q] = 0
                            /\ DOMAIN todo[q] = {} /\ DOMAIN got[q] = {}
  BY DEF ServiceInit, StoreInit, ReportsInit
<1>2. ReportsTypeOK
  BY DEF ServiceInit, ReportsInit, ReportsTypeOK
<1>3. Boundary(Len(rows))
  BY <1>1 DEF Boundary
<1>4. NothingReadYet /\ CursorHasStatement /\ SeenIsPast /\ GroupsToFetchGrow
  BY <1>1 DEF NothingReadYet, CursorHasStatement, SeenIsPast, GroupsToFetchGrow
<1>5. StatementsReadCommitted /\ GroupsNeverShrink
  BY <1>1 DEF StatementsReadCommitted, GroupsNeverShrink
<1> QED
  BY <1>2, <1>3, <1>4, <1>5 DEF ReportInv

(* Every step keeps the inductive invariant of the reports.                  *)
LEMMA NextKeepsReports ==
  ASSUME ServiceInv, ReportInv, [ServiceNext]_serviceVars
  PROVE  ReportInv'
<1>1. CASE UNCHANGED serviceVars
  <2>1. UNCHANGED <<rows, qpc, ask, todo, got, start>>
    BY <1>1 DEF serviceVars, storeVars, reportVars
  <2>2. NothingReadYet' /\ CursorHasStatement'
    BY <2>1 DEF ReportInv, NothingReadYet, CursorHasStatement
  <2> QED
    BY <2>1, <2>2, SameRowsKeepReports DEF ServiceInv
<1>2. ASSUME NEW b \in Batches, IngestStep(b), UNCHANGED reportVars
      PROVE  ReportInv'
  BY <1>2, IngestKeepsReports
<1>3. ASSUME NEW q \in Queries, ReportStep(q)
      PROVE  ReportInv'
  BY <1>3, ReportStepKeepsReports
<1>4. CASE Lifecycle \/ DrainedExit \/ Crash
  BY <1>4, ProcessKeepsReports
<1> QED
  BY <1>1, <1>2, <1>3, <1>4 DEF ServiceNext

(* The inductive invariant of the reports holds in every reachable state:    *)
(* what a handler has left to run, what it has read, and the table agree.    *)
THEOREM ReportInvariant == ServiceSafety => []ReportInv
<1>1. ServiceInit => ReportInv
  BY InitReports
<1>2. ServiceInv /\ ReportInv /\ [ServiceNext]_serviceVars => ReportInv'
  BY NextKeepsReports
<1> QED
  BY <1>1, <1>2, Invariant, PTL DEF ServiceSafety

(* Every statement of a report reads a committed state of the table, none    *)
(* older than the request, in the order the states were reached.             *)
THEOREM ReportsReadCommitted == ServiceSafety => []StatementsReadCommitted
<1>1. ReportInv => StatementsReadCommitted
  BY DEF ReportInv
<1> QED
  BY <1>1, ReportInvariant, PTL

(* A duplicate group is never reported with fewer rows than it was counted   *)
(* to have.                                                                  *)
THEOREM ReportedGroupsNeverShrink == ServiceSafety => []GroupsNeverShrink
<1>1. ReportInv => GroupsNeverShrink
  BY DEF ReportInv
<1> QED
  BY <1>1, ReportInvariant, PTL

-----------------------------------------------------------------------------
(***************************************************************************)
(* A report of a quiet table: one during which nothing is committed and no  *)
(* iteration is cut short.  Its script is what it has run and has left to   *)
(* run.  Each step moves a statement from the one part to the other and     *)
(* puts the groups it has counted behind it, so that at the end every count *)
(* and every group of the table is there, once.                             *)
(***************************************************************************)

CountOps == {"orphaned", "ghost", "keys", "limbo", "unique", "total"}

CountKinds == {"health", "health_breakdown", "alerts", "summary", "summary_breakdown"}

Counting(s, op) == s.stage = "counts" /\ s.op = op

\* The statements of a report: those that have run, then those left.
Script(done, left) ==
  [i \in 1..(Len(done) + Len(left)) |-> IF i <= Len(done) THEN done[i].s ELSE left[i - Len(done)]]

EveryCountPlanned(script) ==
  \A op \in CountOps : \E i \in DOMAIN script : Counting(script[i], op)

KeysCountedOnce(script) ==
  \A i, j \in DOMAIN script : Counting(script[i], "keys") /\ Counting(script[j], "keys") => i = j

GroupsAfterKeys(script, read) ==
  (\E j \in DOMAIN script : Counting(script[j], "rows")) =>
    \E i \in DOMAIN script : i <= read /\ Counting(script[i], "keys")

EveryGroupPlanned(script, read, keys) ==
  (\E i \in DOMAIN script : i <= read /\ Counting(script[i], "keys")) =>
    \A k \in keys : \E j \in DOMAIN script : Counting(script[j], "rows") /\ script[j].key = k

GroupsAreDuplicates(script, keys, tab) ==
  \A j \in DOMAIN script : Counting(script[j], "rows") =>
    script[j].key \in keys /\ script[j].occ = GroupSize(tab, script[j].key)

GroupsOnce(script) ==
  \A i, j \in DOMAIN script :
    /\ Counting(script[i], "rows") /\ Counting(script[j], "rows")
    /\ script[i].key = script[j].key
    => i = j

\* The statements of CountsByWindow are each there once, with one fetch for
\* each group that the query of keys has found on this table.
Faithful(script, read, keys, tab) ==
  /\ KeysCountedOnce(script)
  /\ GroupsAfterKeys(script, read)
  /\ EveryGroupPlanned(script, read, keys)
  /\ GroupsAreDuplicates(script, keys, tab)
  /\ GroupsOnce(script)

Quiet(q) == \A i \in DOMAIN got[q] : got[q][i].seen = start[q] /\ ~got[q][i].cut

ScriptOf(q) == Script(got[q], todo[q])

OkIsComplete ==
  \A q \in Queries :
    /\ reply[q] = "ok" => qpc[q] = "answered" /\ todo[q] = <<>>
    /\ qpc[q] # "idle" => ask[q] \in Asks

\* As long as nothing is committed and nothing cut short.
FaithfulIfQuiet(q) ==
  Quiet(q) =>
    /\ ask[q].kind \in CountKinds => EveryCountPlanned(ScriptOf(q))
    /\ Faithful(ScriptOf(q), Len(got[q]), DuplicateKeys(Prefix(start[q]), ask[q].win), Prefix(start[q]))

QuietInv == OkIsComplete /\ \A q \in Queries : FaithfulIfQuiet(q)

\* new is old with groups inserted behind its first at statements.
Spliced(new, old, at, groups) ==
  /\ \A i \in DOMAIN old : IF i <= at THEN i \in DOMAIN new /\ new[i] = old[i]
                           ELSE i + Len(groups) \in DOMAIN new /\ new[i + Len(groups)] = old[i]
  /\ \A k \in 1..Len(groups) : at + k \in DOMAIN new /\ new[at + k] = groups[k]
  /\ \A i \in DOMAIN new :
       \/ i <= at /\ i \in DOMAIN old /\ new[i] = old[i]
       \/ i > at /\ i - at \in 1..Len(groups) /\ new[i] = groups[i - at]
       \/ i - Len(groups) > at /\ i - Len(groups) \in DOMAIN old /\ new[i] = old[i - Len(groups)]

(* Running a statement moves it from the statements left to those that have  *)
(* run, and puts the groups to fetch between the two.                        *)
LEMMA RunSplices ==
  ASSUME NEW done \in Seq(Reading), NEW left \in Seq(Statement), left # <<>>,
         NEW groups \in Seq(Statement), NEW e, e \in Reading, e.s = Head(left)
  PROVE  /\ Spliced(Script(Append(done, e), groups \o Tail(left)), Script(done, left), Len(done) + 1, groups)
         /\ Len(done) + 1 \in DOMAIN Script(done, left)
         /\ Script(done, left)[Len(done) + 1] = Head(left)
         /\ DOMAIN Script(done, left) \subseteq Nat
         /\ DOMAIN Script(Append(done, e), groups \o Tail(left)) \subseteq Nat
<1> DEFINE c == Len(done)
           l == Len(left)
           g == Len(groups)
           more == Append(done, e)
           rest == groups \o Tail(left)
           old == Script(done, left)
           new == Script(more, rest)
<1>1. c \in Nat /\ g \in Nat /\ l \in Nat /\ l > 0
  OBVIOUS
<1>2. Len(more) = c + 1 /\ more[c + 1] = e /\ \A i \in 1..c : more[i] = done[i]
  OBVIOUS
<1>3. Len(Tail(left)) = l - 1 /\ \A i \in 1..(l - 1) : Tail(left)[i] = left[i + 1]
  OBVIOUS
<1>4. /\ Len(rest) = g + (l - 1)
      /\ \A i \in 1..g : rest[i] = groups[i]
      /\ \A i \in 1..(l - 1) : rest[g + i] = left[i + 1]
  <2>1. Tail(left) \in Seq(Statement)
    OBVIOUS
  <2> QED
    BY <1>3, <2>1, ConcatProperties
<1>5. Head(left) = left[1]
  OBVIOUS
<1> HIDE DEF c, l, g, more, rest
<1>6. /\ old = [i \in 1..(c + l) |-> IF i <= c THEN done[i].s ELSE left[i - c]]
      /\ new = [i \in 1..(c + g + l) |-> IF i <= c + 1 THEN more[i].s ELSE rest[i - (c + 1)]]
  <2>1. Len(more) + Len(rest) = c + g + l /\ Len(more) = c + 1
    BY <1>1, <1>2, <1>4
  <2>2. old = [i \in 1..(c + l) |-> IF i <= c THEN done[i].s ELSE left[i - c]]
    BY DEF Script, c, l
  <2>3. new = [i \in 1..(Len(more) + Len(rest)) |-> IF i <= Len(more) THEN more[i].s ELSE rest[i - Len(more)]]
    BY DEF Script
  <2> QED
    BY <2>1, <2>2, <2>3
<1> HIDE DEF old, new
<1>7. DOMAIN old = 1..(c + l) /\ DOMAIN new = 1..(c + g + l)
  BY <1>6
<1>8. \A i \in 1..(c + 1) : i \in DOMAIN old /\ i \in DOMAIN new /\ new[i] = old[i]
  <2> SUFFICES ASSUME NEW i \in 1..(c + 1)
               PROVE  i \in DOMAIN old /\ i \in DOMAIN new /\ new[i] = old[i]
    OBVIOUS
  <2>1. i \in 1..(c + l) /\ i \in 1..(c + g + l) /\ i <= c + 1
    BY <1>1
  <2>2. new[i] = more[i].s
    BY <1>6, <2>1
  <2>3. CASE i <= c
    BY <1>2, <1>6, <1>7, <2>1, <2>2, <2>3
  <2>4. CASE i = c + 1
    <3>1. ~(i <= c) /\ i - c = 1
      BY <1>1, <2>4
    <3>2. old[i] = left[1]
      BY <1>6, <2>1, <3>1
    <3> QED
      BY <1>2, <1>5, <1>7, <2>1, <2>2, <2>4, <3>2
  <2> QED
    BY <1>1, <2>1, <2>3, <2>4
<1>9. ASSUME NEW k \in 1..g
      PROVE  c + 1 + k \in DOMAIN new /\ new[c + 1 + k] = groups[k]
  <2> DEFINE i == c + 1 + k
  <2>1. i \in 1..(c + g + l) /\ ~(i <= c + 1) /\ i - (c + 1) = k
    BY <1>1
  <2> HIDE DEF i
  <2>2. new[i] = rest[k]
    BY <1>6, <2>1
  <2>3. i \in DOMAIN new /\ new[i] = groups[k]
    BY <1>4, <1>7, <2>1, <2>2
  <2> QED
    BY <2>3 DEF i
<1>10. ASSUME NEW i \in 2..l
       PROVE  /\ c + i \in DOMAIN old /\ old[c + i] = left[i]
              /\ c + g + i \in DOMAIN new /\ new[c + g + i] = left[i]
  <2> DEFINE a == c + i
             b == c + g + i
  <2>1. a \in 1..(c + l) /\ ~(a <= c) /\ a - c = i
    BY <1>1
  <2>2. b \in 1..(c + g + l) /\ ~(b <= c + 1) /\ b - (c + 1) = g + (i - 1)
    BY <1>1
  <2>3. i - 1 \in 1..(l - 1) /\ i - 1 + 1 = i
    BY <1>1
  <2>4. rest[g + (i - 1)] = left[i]
    BY <1>4, <2>3
  <2> HIDE DEF a, b
  <2>5. a \in DOMAIN old /\ old[a] = left[i]
    BY <1>6, <1>7, <2>1
  <2>6. b \in DOMAIN new /\ new[b] = left[i]
    BY <1>6, <1>7, <2>2, <2>4
  <2> QED
    BY <2>5, <2>6 DEF a, b
<1>11. ASSUME NEW i \in DOMAIN old
       PROVE  IF i <= c + 1 THEN i \in DOMAIN new /\ new[i] = old[i]
              ELSE i + g \in DOMAIN new /\ new[i + g] = old[i]
  <2>1. CASE i <= c + 1
    <3>1. i \in 1..(c + 1)
      BY <1>1, <1>7, <2>1
    <3> QED
      BY <1>8, <2>1, <3>1
  <2>2. CASE ~(i <= c + 1)
    <3>1. i - c \in 2..l /\ c + (i - c) = i /\ c + g + (i - c) = i + g
      BY <1>1, <1>7, <2>2
    <3> QED
      BY <1>10, <2>2, <3>1
  <2> QED
    BY <2>1, <2>2
<1>12. ASSUME NEW i \in DOMAIN new
       PROVE  \/ i <= c + 1 /\ i \in DOMAIN old /\ new[i] = old[i]
              \/ i > c + 1 /\ i - (c + 1) \in 1..g /\ new[i] = groups[i - (c + 1)]
              \/ i - g > c + 1 /\ i - g \in DOMAIN old /\ new[i] = old[i - g]
  <2>1. CASE i <= c + 1
    <3>1. i \in 1..(c + 1)
      BY <1>1, <1>7, <2>1
    <3> QED
      BY <1>8, <2>1, <3>1
  <2>2. CASE i > c + 1 /\ i <= c + 1 + g
    <3>1. i - (c + 1) \in 1..g /\ c + 1 + (i - (c + 1)) = i
      BY <1>1, <1>7, <2>2
    <3> QED
      BY <1>9, <2>2, <3>1
  <2>3. CASE i > c + 1 + g
    <3>1. i - g - c \in 2..l /\ c + (i - g - c) = i - g /\ c + g + (i - g - c) = i /\ i - g > c + 1
      BY <1>1, <1>7, <2>3
    <3> QED
      BY <1>10, <3>1
  <2> QED
    BY <1>1, <1>7, <2>1, <2>2, <2>3
<1>13. Spliced(new, old, c + 1, groups)
  BY <1>9, <1>11, <1>12 DEF Spliced, g
<1>14. c + 1 \in DOMAIN old /\ old[c + 1] = Head(left)
  <2> DEFINE i == c + 1
  <2>1. i \in 1..(c + l) /\ ~(i <= c) /\ i - c = 1
    BY <1>1
  <2> HIDE DEF i
  <2>2. i \in DOMAIN old /\ old[i] = left[1]
    BY <1>6, <1>7, <2>1
  <2> QED
    BY <1>5, <2>2 DEF i
<1>15. DOMAIN old \subseteq Nat /\ DOMAIN new \subseteq Nat
  BY <1>1, <1>7
<1> QED
  BY <1>13, <1>14, <1>15 DEF c, more, rest, old, new
\* groups are what is put behind the statement s: one fetch for each of the
\* keys if s counts them, nothing CountsByWindow adds up otherwise.
GroupsBehind(s, groups, keys, tab) ==
  IF Counting(s, "keys")
  THEN /\ \A k \in 1..Len(groups) : /\ Counting(groups[k], "rows") /\ ~Counting(groups[k], "keys")
                                    /\ groups[k].key \in keys
                                    /\ groups[k].occ = GroupSize(tab, groups[k].key)
       /\ \A k, l \in 1..Len(groups) : groups[k].key = groups[l].key => k = l
       /\ \A key \in keys : \E k \in 1..Len(groups) : groups[k].key = key
  ELSE \A k \in 1..Len(groups), op \in Ops : ~Counting(groups[k], op)

(* So the report stays one that counts every row and group once.             *)
LEMMA SpliceIsFaithful ==
  ASSUME NEW new, NEW old, NEW at, NEW groups, NEW keys, NEW tab,
         at \in DOMAIN old, at \in Nat, DOMAIN old \subseteq Nat, DOMAIN new \subseteq Nat,
         Len(groups) \in Nat, Spliced(new, old, at, groups),
         GroupsBehind(old[at], groups, keys, tab), Faithful(old, at - 1, keys, tab)
  PROVE  Faithful(new, at, keys, tab)
<1> DEFINE g == Len(groups)
<1>1. /\ \A i \in DOMAIN old : IF i <= at THEN i \in DOMAIN new /\ new[i] = old[i]
                               ELSE i + g \in DOMAIN new /\ new[i + g] = old[i]
      /\ \A k \in 1..g : at + k \in DOMAIN new /\ new[at + k] = groups[k]
      /\ \A i \in DOMAIN new :
           \/ i <= at /\ i \in DOMAIN old /\ new[i] = old[i]
           \/ i > at /\ i - at \in 1..g /\ new[i] = groups[i - at]
           \/ i - g > at /\ i - g \in DOMAIN old /\ new[i] = old[i - g]
  BY DEF Spliced
<1>2. g \in Nat
  OBVIOUS
<1> HIDE DEF g
<1>3. "keys" \in Ops /\ "rows" \in Ops
  BY DEF Ops
<1>4. KeysCountedOnce(new)
  <2>1. \A k \in 1..g : ~Counting(groups[k], "keys")
    BY <1>3 DEF GroupsBehind, g
  <2>2. \A i \in DOMAIN new : Counting(new[i], "keys") =>
          \/ i <= at /\ i \in DOMAIN old /\ Counting(old[i], "keys")
          \/ i - g > at /\ i - g \in DOMAIN old /\ Counting(old[i - g], "keys")
    BY <1>1, <2>1
  <2>3. \A i, j \in DOMAIN old : Counting(old[i], "keys") /\ Counting(old[j], "keys") => i = j
    BY DEF Faithful, KeysCountedOnce
  <2> SUFFICES ASSUME NEW i \in DOMAIN new, NEW j \in DOMAIN new,
                      Counting(new[i], "keys"), Counting(new[j], "keys")
               PROVE  i = j
    BY DEF KeysCountedOnce
  <2> i \in Nat /\ j \in Nat
    OBVIOUS
  <2>4. \/ i <= at /\ j <= at /\ i = j
        \/ i <= at /\ j - g > at /\ i = j - g
        \/ i - g > at /\ j <= at /\ i - g = j
        \/ i - g > at /\ j - g > at /\ i - g = j - g
    BY <2>2, <2>3
  <2> QED
    BY <1>2, <2>4
<1>5. CASE Counting(old[at], "keys")
  <2>1. /\ \A k \in 1..g : /\ Counting(groups[k], "rows") /\ ~Counting(groups[k], "keys")
                           /\ groups[k].key \in keys
                           /\ groups[k].occ = GroupSize(tab, groups[k].key)
        /\ \A k, l \in 1..g : groups[k].key = groups[l].key => k = l
        /\ \A key \in keys : \E k \in 1..g : groups[k].key = key
    BY <1>5 DEF GroupsBehind, g
  <2>2. \A j \in DOMAIN old : ~Counting(old[j], "rows")
    <3>1. \A i \in DOMAIN old : Counting(old[i], "keys") => i = at
      BY <1>5 DEF Faithful, KeysCountedOnce
    <3>2. ~(at <= at - 1)
      OBVIOUS
    <3> QED
      BY <3>1, <3>2 DEF Faithful, GroupsAfterKeys
  <2>3. \A j \in DOMAIN new : Counting(new[j], "rows") => j - at \in 1..g /\ new[j] = groups[j - at]
    BY <1>1, <2>2
  <2>4. at \in DOMAIN new /\ at <= at /\ Counting(new[at], "keys")
    BY <1>1, <1>5
  <2>5. GroupsAfterKeys(new, at)
    BY <2>4 DEF GroupsAfterKeys
  <2>6. EveryGroupPlanned(new, at, keys)
    BY <1>1, <2>1 DEF EveryGroupPlanned
  <2>7. GroupsAreDuplicates(new, keys, tab)
    BY <2>1, <2>3 DEF GroupsAreDuplicates
  <2>8. GroupsOnce(new)
    <3> SUFFICES ASSUME NEW i \in DOMAIN new, NEW j \in DOMAIN new,
                        Counting(new[i], "rows"), Counting(new[j], "rows"), new[i].key = new[j].key
                 PROVE  i = j
      BY DEF GroupsOnce
    <3>1. i - at = j - at
      BY <2>1, <2>3
    <3>2. i \in Nat /\ j \in Nat
      OBVIOUS
    <3> QED
      BY <3>1, <3>2
  <2> QED
    BY <1>4, <2>5, <2>6, <2>7, <2>8 DEF Faithful
<1>6. CASE ~Counting(old[at], "keys")
  <2>1. \A k \in 1..g : ~Counting(groups[k], "keys") /\ ~Counting(groups[k], "rows")
    BY <1>3, <1>6 DEF GroupsBehind, g
  <2>2. \A i \in DOMAIN new : Counting(new[i], "rows") =>
          \/ i <= at /\ i \in DOMAIN old /\ new[i] = old[i]
          \/ i - g > at /\ i - g \in DOMAIN old /\ new[i] = old[i - g]
    BY <1>1, <2>1
  <2>3. (\E i \in DOMAIN new : i <= at /\ Counting(new[i], "keys"))
          <=> (\E i \in DOMAIN old : i <= at - 1 /\ Counting(old[i], "keys"))
    <3>1. \A i \in DOMAIN new : i <= at /\ Counting(new[i], "keys") =>
            i \in DOMAIN old /\ i <= at - 1 /\ Counting(old[i], "keys")
      <4> SUFFICES ASSUME NEW i \in DOMAIN new, i <= at, Counting(new[i], "keys")
                   PROVE  i \in DOMAIN old /\ i <= at - 1 /\ Counting(old[i], "keys")
        OBVIOUS
      <4>1. i \in Nat /\ ~(i > at) /\ ~(i - g > at)
        BY <1>2
      <4>2. i \in DOMAIN old /\ new[i] = old[i]
        BY <1>1, <4>1
      <4>3. i # at
        BY <1>6, <4>2
      <4> QED
        BY <4>1, <4>2, <4>3
    <3>2. \A i \in DOMAIN old : i <= at - 1 /\ Counting(old[i], "keys") =>
            i \in DOMAIN new /\ i <= at /\ Counting(new[i], "keys")
      BY <1>1
    <3> QED
      BY <3>1, <3>2
  <2>4. \A i \in DOMAIN new : Counting(new[i], "rows") => \E j \in DOMAIN old : new[i] = old[j]
    BY <2>2
  <2>5. \A j \in DOMAIN old : \E i \in DOMAIN new : new[i] = old[j]
    BY <1>1
  <2>6. GroupsAfterKeys(new, at)
    BY <2>3, <2>4 DEF Faithful, GroupsAfterKeys
  <2>7. EveryGroupPlanned(new, at, keys)
    <3> SUFFICES ASSUME \E i \in DOMAIN new : i <= at /\ Counting(new[i], "keys"), NEW k \in keys
                 PROVE  \E j \in DOMAIN new : Counting(new[j], "rows") /\ new[j].key = k
      BY DEF EveryGroupPlanned
    <3>1. \E j \in DOMAIN old : Counting(old[j], "rows") /\ old[j].key = k
      BY <2>3 DEF Faithful, EveryGroupPlanned
    <3> QED
      BY <2>5, <3>1
  <2>8. GroupsAreDuplicates(new, keys, tab)
    BY <2>4 DEF Faithful, GroupsAreDuplicates
  <2>9. GroupsOnce(new)
    <3>1. \A i, j \in DOMAIN old :
            Counting(old[i], "rows") /\ Counting(old[j], "rows") /\ old[i].key = old[j].key => i = j
      BY DEF Faithful, GroupsOnce
    <3> SUFFICES ASSUME NEW i \in DOMAIN new, NEW j \in DOMAIN new,
                        Counting(new[i], "rows"), Counting(new[j], "rows"), new[i].key = new[j].key
                 PROVE  i = j
      BY DEF GroupsOnce
    <3>2. i \in Nat /\ j \in Nat
      OBVIOUS
    <3>3. \/ i <= at /\ j <= at /\ i = j
          \/ i <= at /\ j - g > at /\ i = j - g
          \/ i - g > at /\ j <= at /\ i - g = j
          \/ i - g > at /\ j - g > at /\ i - g = j - g
      BY <2>2, <3>1
    <3> QED
      BY <1>2, <3>2, <3>3
  <2> QED
    BY <1>4, <2>6, <2>7, <2>8, <2>9 DEF Faithful
<1> QED
  BY <1>5, <1>6

(* And it stays one that has every count planned.                            *)
LEMMA SpliceKeepsCounts ==
  ASSUME NEW new, NEW old, NEW at, NEW groups, Spliced(new, old, at, groups), EveryCountPlanned(old)
  PROVE  EveryCountPlanned(new)
<1>1. \A j \in DOMAIN old : \E i \in DOMAIN new : new[i] = old[j]
  BY DEF Spliced
<1> QED
  BY <1>1 DEF EveryCountPlanned
(* The groups a statement leaves to fetch are those it has counted.          *)
LEMMA CloseLeavesGroups ==
  ASSUME NEW s \in Statement, NEW tab, IsFiniteSet(Ids(tab)), NEW w
  PROVE  GroupsBehind(s, IF s.op = "keys" THEN FetchGroups(s.stage, Keys(s.stage, tab, w), tab) ELSE <<>>,
                      DuplicateKeys(tab, w), tab)
<1> DEFINE all == SetToSeq(DuplicateKeys(tab, w))
           keys == Keys(s.stage, tab, w)
           groups == FetchGroups(s.stage, keys, tab)
<1>1. /\ all \in Seq(DuplicateKeys(tab, w)) /\ Len(all) = Cardinality(DuplicateKeys(tab, w))
      /\ all \in Injection(1..Len(all), DuplicateKeys(tab, w))
      /\ all \in Surjection(1..Len(all), DuplicateKeys(tab, w))
  BY FindingsFinite, SetToSeqListed
<1>2. keys \in Seq(DuplicateKeys(tab, w))
  BY KeysListed
<1>3. /\ DOMAIN keys = 1..Len(keys) /\ Len(groups) = Len(keys) /\ Len(keys) \in Nat
      /\ \A k \in 1..Len(keys) :
           groups[k] = [stage |-> s.stage, op |-> "rows", key |-> keys[k], occ |-> GroupSize(tab, keys[k])]
  BY <1>2 DEF FetchGroups, GroupSize
<1> HIDE DEF keys, groups
<1> DEFINE fetch(k) == [stage |-> s.stage, op |-> "rows", key |-> keys[k], occ |-> GroupSize(tab, keys[k])]
<1>4. \A k \in 1..Len(groups) : /\ groups[k].stage = s.stage /\ groups[k].op = "rows"
                                /\ groups[k].key = keys[k] /\ groups[k].occ = GroupSize(tab, keys[k])
  <2> SUFFICES ASSUME NEW k \in 1..Len(groups)
               PROVE  /\ groups[k].stage = s.stage /\ groups[k].op = "rows"
                      /\ groups[k].key = keys[k] /\ groups[k].occ = GroupSize(tab, keys[k])
    OBVIOUS
  <2>1. groups[k] = fetch(k)
    BY <1>3
  <2>2. /\ fetch(k).stage = s.stage /\ fetch(k).op = "rows"
        /\ fetch(k).key = keys[k] /\ fetch(k).occ = GroupSize(tab, keys[k])
    OBVIOUS
  <2> HIDE DEF fetch
  <2> QED
    BY <2>1, <2>2
<1>5. CASE s.op # "keys"
  BY <1>5 DEF GroupsBehind, Counting
<1>6. CASE s.op = "keys" /\ s.stage # "counts"
  <2>1. \A k \in 1..Len(groups) : groups[k].stage # "counts"
    BY <1>6, <1>4
  <2>2. GroupsBehind(s, groups, DuplicateKeys(tab, w), tab)
    BY <1>6, <2>1 DEF GroupsBehind, Counting
  <2> QED
    BY <1>6, <2>2 DEF groups, keys
<1>7. CASE s.op = "keys" /\ s.stage = "counts"
  <2>1. keys = all
    <3>1. Limited(s.stage, Len(all)) = Len(all)
      BY <1>7 DEF Limited
    <3>2. keys = SubSeq(all, 1, Len(all))
      BY <3>1 DEF Keys, keys
    <3> HIDE DEF all
    <3>3. Len(all) \in Nat /\ all = [i \in 1..Len(all) |-> all[i]]
      BY <1>1
    <3> QED
      BY <1>1, <3>2, <3>3
  <2> HIDE DEF all
  <2>2. /\ \A k, l \in 1..Len(keys) : keys[k] = keys[l] => k = l
        /\ \A key \in DuplicateKeys(tab, w) : \E k \in 1..Len(keys) : keys[k] = key
        /\ \A k \in 1..Len(keys) : keys[k] \in DuplicateKeys(tab, w)
    <3>1. DOMAIN all = 1..Len(all)
      BY <1>1
    <3> QED
      BY <1>1, <2>1, <3>1 DEF Injection, IsInjective, Surjection
  <2>3. \A k \in 1..Len(groups) : /\ groups[k].stage = "counts" /\ groups[k].op = "rows"
                                  /\ groups[k].key = keys[k] /\ groups[k].occ = GroupSize(tab, keys[k])
    BY <1>7, <1>4
  <2>4. Counting(s, "keys")
    BY <1>7 DEF Counting
  <2>5. \A k \in 1..Len(groups) : /\ Counting(groups[k], "rows") /\ ~Counting(groups[k], "keys")
                                  /\ groups[k].key \in DuplicateKeys(tab, w)
                                  /\ groups[k].occ = GroupSize(tab, groups[k].key)
    BY <1>3, <2>2, <2>3 DEF Counting
  <2>6. \A k, l \in 1..Len(groups) : groups[k].key = groups[l].key => k = l
    BY <1>3, <2>2, <2>3
  <2>7. \A key \in DuplicateKeys(tab, w) : \E k \in 1..Len(groups) : groups[k].key = key
    BY <1>3, <2>2, <2>3
  <2>8. GroupsBehind(s, groups, DuplicateKeys(tab, w), tab)
    BY <2>4, <2>5, <2>6, <2>7 DEF GroupsBehind
  <2> QED
    BY <1>7, <2>8 DEF groups, keys
<1> QED
  BY <1>5, <1>6, <1>7

\* A plan that has each statement of CountsByWindow, and the query of keys once.
CountsOnce(plan) == EveryCountPlanned(plan) /\ KeysCountedOnce(plan)

CountsNothing(plan) == \A i \in DOMAIN plan : plan[i].stage # "counts"

(* A plan may go on with statements that are not those of CountsByWindow.    *)
LEMMA MorePlanned ==
  ASSUME NEW plan \in Seq(PlanStatement), NEW more \in Seq(PlanStatement), CountsNothing(more)
  PROVE  /\ CountsOnce(plan) => CountsOnce(plan \o more)
         /\ CountsNothing(plan) => CountsNothing(plan \o more)
<1> DEFINE long == plan \o more
           l == Len(plan)
<1>1. /\ l \in Nat /\ Len(more) \in Nat /\ DOMAIN long = 1..(l + Len(more)) /\ DOMAIN plan = 1..l
      /\ DOMAIN more = 1..Len(more)
      /\ \A i \in 1..l : long[i] = plan[i]
      /\ \A i \in 1..Len(more) : long[l + i] = more[i]
  BY ConcatProperties
<1> HIDE DEF long, l
<1>2. ASSUME NEW i \in DOMAIN long
      PROVE  (i \in DOMAIN plan /\ long[i] = plan[i]) \/ long[i].stage # "counts"
  <2>1. CASE i <= l
    BY <1>1, <2>1
  <2>2. CASE ~(i <= l)
    <3>1. i - l \in 1..Len(more) /\ l + (i - l) = i
      BY <1>1, <2>2
    <3>2. long[i] = more[i - l]
      BY <1>1, <3>1
    <3> QED
      BY <1>1, <3>1, <3>2 DEF CountsNothing
  <2> QED
    BY <2>1, <2>2
<1>3. \A i \in DOMAIN plan : i \in DOMAIN long /\ long[i] = plan[i]
  BY <1>1
<1>4. CountsNothing(plan) => CountsNothing(long)
  BY <1>2 DEF CountsNothing
<1>5. EveryCountPlanned(plan) => EveryCountPlanned(long)
  BY <1>3 DEF EveryCountPlanned
<1>6. KeysCountedOnce(plan) => KeysCountedOnce(long)
  BY <1>2 DEF KeysCountedOnce, Counting
<1> QED
  BY <1>4, <1>5, <1>6 DEF CountsOnce, long

(* Every endpoint that reports counts plans them once, the others not at all. *)
LEMMA PlanCounts ==
  ASSUME NEW kind \in Kinds
  PROVE  IF kind \in CountKinds THEN CountsOnce(Plan(kind)) ELSE CountsNothing(Plan(kind))
<1> DEFINE Six == <<"orphaned", "ghost", "keys", "limbo", "unique", "total">>
           Four == <<"orphaned", "ghost", "keys", "limbo">>
<1>1. Six \in Seq(Ops \ {"rows"}) /\ Four \in Seq(Ops \ {"rows"})
  BY DEF Ops
<1>2. /\ CountsByWindow \in Seq(PlanStatement)
      /\ CountsByKey \in Seq(PlanStatement) /\ Samples \in Seq(PlanStatement)
  BY <1>1, StatementsTyped DEF CountsByWindow, CountsByKey, Samples
<1>3. ASSUME NEW stage \in {"breakdown", "samples", "list"}, NEW ops
      PROVE  CountsNothing(Statements(stage, ops))
  BY DEF CountsNothing, Statements
<1>4. /\ CountsNothing(CountsByKey) /\ CountsNothing(Samples)
      /\ CountsNothing(<<>>) /\ <<>> \in Seq(PlanStatement)
  <2>1. CountsNothing(<<>>) /\ <<>> \in Seq(PlanStatement)
    BY DEF CountsNothing
  <2> QED
    BY <1>3, <2>1 DEF CountsByKey, Samples
<1>5. CountsOnce(CountsByWindow)
  <2>1. /\ DOMAIN CountsByWindow = 1..6
        /\ \A i \in 1..6 : CountsByWindow[i].stage = "counts" /\ CountsByWindow[i].op = Six[i]
    <3>1. DOMAIN Six = 1..6
      OBVIOUS
    <3>2. CountsByWindow = [i \in 1..6 |-> [stage |-> "counts", op |-> Six[i], key |-> <<>>, occ |-> 0]]
      BY <3>1 DEF CountsByWindow, Statements
    <3> QED
      BY <3>2
  <2>2. \A i \in 1..6 : \A op : Counting(CountsByWindow[i], op) <=> Six[i] = op
    BY <2>1 DEF Counting
  <2>3. /\ Six[1] = "orphaned" /\ Six[2] = "ghost" /\ Six[3] = "keys" /\ Six[4] = "limbo"
        /\ Six[5] = "unique" /\ Six[6] = "total"
    OBVIOUS
  <2>4. \A i \in 1..6 : i = 1 \/ i = 2 \/ i = 3 \/ i = 4 \/ i = 5 \/ i = 6
    OBVIOUS
  <2> HIDE DEF Six
  <2>5. EveryCountPlanned(CountsByWindow)
    BY <2>1, <2>2, <2>3 DEF EveryCountPlanned, CountOps
  <2>6. KeysCountedOnce(CountsByWindow)
    BY <2>1, <2>2, <2>3, <2>4 DEF KeysCountedOnce
  <2> QED
    BY <2>5, <2>6 DEF CountsOnce
<1>6. \A breakdown \in BOOLEAN : CountsOnce(HealthPlan(breakdown)) /\ CountsOnce(SummaryPlan(breakdown))
  <2>1. /\ CountsByWindow \o Samples \in Seq(PlanStatement) /\ CountsOnce(CountsByWindow \o Samples)
    BY <1>2, <1>4, <1>5, MorePlanned, ConcatProperties
  <2>2. \A more \in {CountsByKey, <<>>} :
          CountsOnce(CountsByWindow \o more) /\ CountsOnce((CountsByWindow \o Samples) \o more)
    BY <1>2, <1>4, <1>5, <2>1, MorePlanned
  <2> QED
    BY <2>2 DEF HealthPlan, SummaryPlan
<1>7. \A type : CountsNothing(ListPlan(type))
  BY <1>3 DEF ListPlan
<1>8. CountsNothing(Probe)
  BY <1>3 DEF Probe
<1> QED
  BY <1>6, <1>7, <1>8 DEF Plan, Kinds, CountKinds

(* A report that has only been planned has nothing to account for.           *)
LEMMA PlannedIsFaithful ==
  ASSUME NEW kind \in Kinds, NEW keys, NEW tab
  PROVE  /\ Faithful(Script(<<>>, Plan(kind)), 0, keys, tab)
         /\ kind \in CountKinds => EveryCountPlanned(Script(<<>>, Plan(kind)))
<1> DEFINE plan == Plan(kind)
<1>1. plan \in Seq(Statement) /\ DOMAIN plan = 1..Len(plan) /\ \A i \in DOMAIN plan : plan[i].op # "rows"
  BY PlannedStatements
<1>2. IF kind \in CountKinds THEN CountsOnce(plan) ELSE CountsNothing(plan)
  BY PlanCounts
<1> HIDE DEF plan
<1>3. Script(<<>>, plan) = plan
  <2>1. /\ Len(<<>>) = 0 /\ Len(plan) \in Nat /\ 0 + Len(plan) = Len(plan)
        /\ \A i \in 1..Len(plan) : ~(i <= 0) /\ i - 0 = i
    BY <1>1
  <2>2. Script(<<>>, plan) = [i \in 1..Len(plan) |-> plan[i]]
    BY <2>1 DEF Script
  <2> QED
    BY <1>1, <2>2
<1>4. KeysCountedOnce(plan)
  BY <1>2 DEF CountsOnce, CountsNothing, KeysCountedOnce, Counting
<1>5. \A i \in DOMAIN plan : ~(i <= 0) /\ ~Counting(plan[i], "rows")
  BY <1>1 DEF Counting
<1>6. Faithful(plan, 0, keys, tab)
  BY <1>4, <1>5 DEF Faithful, GroupsAfterKeys, EveryGroupPlanned, GroupsAreDuplicates, GroupsOnce
<1> QED
  BY <1>2, <1>3, <1>6 DEF plan, CountsOnce
(* Whatever is committed, a report that does nothing stays as it is.         *)
LEMMA StillFaithful ==
  ASSUME ServiceTypeOK, ReportInv, NEW q \in Queries, FaithfulIfQuiet(q),
         NEW tail \in Seq(RowName), rows' = rows \o tail,
         ask'[q] = ask[q], todo'[q] = todo[q], got'[q] = got[q], start'[q] = start[q]
  PROVE  FaithfulIfQuiet(q)'
<1>1. rows \in Seq(RowName) /\ start[q] \in Nat /\ start[q] <= Len(rows)
  BY DEF ServiceTypeOK, ReportInv, SeenIsPast
<1>2. Len(rows) \in Nat /\ start[q] \in 0..Len(rows)
  BY <1>1
<1>3. SubSeq(rows', 1, start[q]) = SubSeq(rows, 1, start[q])
  BY <1>1, <1>2, AppendedRows
<1>4. Prefix(start[q])' = Prefix(start[q])
  BY <1>3 DEF Prefix
<1> QED
  BY <1>4 DEF FaithfulIfQuiet, Quiet, ScriptOf

(* Nor does any other report change.                                         *)
LEMMA QuietStays ==
  ASSUME ServiceTypeOK, ReportInv, QuietInv, NEW tail \in Seq(RowName), rows' = rows \o tail,
         UNCHANGED <<ask, todo, got, start>>, OkIsComplete'
  PROVE  QuietInv'
<1>1. ASSUME NEW q \in Queries PROVE FaithfulIfQuiet(q)'
  BY StillFaithful DEF QuietInv
<1> QED
  BY <1>1 DEF QuietInv

(* A report that is received.                                                *)
LEMMA ReceiveKeepsQuiet ==
  ASSUME ServiceInv, ReportInv, QuietInv, NEW q \in Queries, ReceiveQuery(q)
  PROVE  QuietInv'
<1>1. PICK a \in Asks : /\ ask' = [ask EXCEPT ![q] = a]
                        /\ todo' = [todo EXCEPT ![q] = Plan(a.kind)]
                        /\ QGoto(q, IF Refusal(a) = "none" THEN "waiting" ELSE "refused")
  BY DEF ReceiveQuery
<1>2. /\ rows' = rows /\ got' = got /\ start' = [start EXCEPT ![q] = Len(rows)] /\ reply' = reply
      /\ got[q] = <<>> /\ qpc[q] = "idle" /\ ServiceTypeOK
  BY DEF ReceiveQuery, storeVars, ReportInv, NothingReadYet, ServiceInv
<1>3. /\ ask'[q] = a /\ todo'[q] = Plan(a.kind) /\ start'[q] = Len(rows) /\ got'[q] = <<>>
      /\ qpc'[q] \in {"waiting", "refused"}
      /\ \A p \in Queries \ {q} : /\ ask'[p] = ask[p] /\ todo'[p] = todo[p] /\ got'[p] = got[p]
                                  /\ start'[p] = start[p] /\ qpc'[p] = qpc[p] /\ reply'[p] = reply[p]
  BY <1>1, <1>2 DEF ServiceTypeOK, ReportInv, ReportsTypeOK, QGoto
<1>4. OkIsComplete'
  <2>1. reply'[q] # "ok"
    BY <1>2 DEF QuietInv, OkIsComplete
  <2> QED
    BY <1>3, <2>1 DEF QuietInv, OkIsComplete
<1>5. rows \in Seq(RowName) /\ <<>> \in Seq(RowName) /\ rows' = rows \o <<>>
  BY <1>2, ConcatEmptySeq DEF ServiceTypeOK
<1>6. ASSUME NEW p \in Queries, p # q PROVE FaithfulIfQuiet(p)'
  BY <1>2, <1>3, <1>5, <1>6, StillFaithful DEF QuietInv
<1>7. FaithfulIfQuiet(q)'
  <2> DEFINE keys == DuplicateKeys(Prefix(start[q]), ask[q].win)'
             tab == Prefix(start[q])'
  <2>1. a.kind \in Kinds
    BY QueriesAssumption
  <2>2. /\ Faithful(Script(<<>>, Plan(a.kind)), 0, keys, tab)
        /\ a.kind \in CountKinds => EveryCountPlanned(Script(<<>>, Plan(a.kind)))
    BY <2>1, PlannedIsFaithful
  <2>3. ScriptOf(q)' = Script(<<>>, Plan(a.kind)) /\ Len(got'[q]) = 0
    BY <1>3 DEF ScriptOf
  <2> QED
    BY <1>3, <2>2, <2>3 DEF FaithfulIfQuiet
<1> QED
  BY <1>4, <1>6, <1>7 DEF QuietInv

(* A statement that is read to its end, or cut short.                        *)
LEMMA CursorKeepsQuiet ==
  ASSUME ServiceInv, ReportInv, QuietInv, NEW q \in Queries, CloseCursor(q) \/ KeysCutShort(q)
  PROVE  QuietInv'
<1> DEFINE s == Head(todo[q])
           w == ask[q].win
           tab == Table(rows)
           c == Len(got[q])
<1>1. /\ qpc[q] = "cursor" /\ conn = q /\ rows' = rows /\ UNCHANGED <<ask, start, reply>>
      /\ qpc' = [qpc EXCEPT ![q] = "waiting"]
      /\ \E more : todo' = [todo EXCEPT ![q] = more]
      /\ \E e : got' = [got EXCEPT ![q] = Append(@, e)]
  <2>1. CASE CloseCursor(q)
    BY <2>1 DEF CloseCursor, Release, QGoto, Took
  <2>2. CASE KeysCutShort(q)
    BY <2>2 DEF KeysCutShort, Release, QGoto, Took
  <2> QED
    BY <2>1, <2>2
<1>2. Visible = rows /\ rows \in Seq(RowName) /\ Len(rows) \in Nat /\ ServiceTypeOK
  BY <1>1, ReaderSeesCommitted DEF ServiceInv, ServiceTypeOK
<1>3. /\ todo \in [Queries -> Seq(Statement)] /\ got \in [Queries -> Seq(Reading)]
      /\ todo[q] \in Seq(Statement) /\ got[q] \in Seq(Reading) /\ todo[q] # <<>> /\ s \in Statement
      /\ c \in Nat
  BY <1>1 DEF ReportInv, ReportsTypeOK, CursorHasStatement
<1>4. /\ \A p \in Queries \ {q} : todo'[p] = todo[p] /\ got'[p] = got[p] /\ qpc'[p] = qpc[p]
      /\ qpc'[q] = "waiting"
  BY <1>1, <1>2, <1>3 DEF ServiceTypeOK
<1>5. OkIsComplete'
  BY <1>1, <1>4 DEF QuietInv, OkIsComplete
<1>6. <<>> \in Seq(RowName) /\ rows' = rows \o <<>>
  BY <1>1, <1>2, ConcatEmptySeq
<1>7. ASSUME NEW p \in Queries, p # q PROVE FaithfulIfQuiet(p)'
  BY <1>1, <1>2, <1>4, <1>6, <1>7, StillFaithful DEF QuietInv
<1>8. CASE KeysCutShort(q)
  <2>1. PICK m : got' = [got EXCEPT ![q] = Append(@, Result(s, m, TRUE))]
    BY <1>8 DEF KeysCutShort, Took
  <2>2. got'[q] = Append(got[q], Result(s, m, TRUE))
    BY <1>3, <2>1
  <2>3. c + 1 \in DOMAIN got'[q] /\ got'[q][c + 1].cut
    BY <1>3, <2>2 DEF Result
  <2>4. ~Quiet(q)'
    BY <2>3 DEF Quiet
  <2> QED
    BY <1>5, <1>7, <2>4 DEF QuietInv, FaithfulIfQuiet
<1>9. CASE CloseCursor(q)
  <2> DEFINE groups == IF s.op = "keys" THEN FetchGroups(s.stage, Keys(s.stage, tab, w), tab) ELSE <<>>
             e == Result(s, ResultSize(s, tab, w), FALSE)
             old == ScriptOf(q)
             new == ScriptOf(q)'
             keys == DuplicateKeys(tab, w)
  <2>1. /\ got' = [got EXCEPT ![q] = Append(@, e)]
        /\ todo' = [todo EXCEPT ![q] = groups \o Tail(@)]
    BY <1>2, <1>9 DEF CloseCursor, Took
  <2>2. got'[q] = Append(got[q], e) /\ todo'[q] = groups \o Tail(todo[q])
    BY <1>3, <2>1
  <2>3. IsFiniteSet(Ids(tab))
    BY <1>2, TableProperties
  <2>4. e.s = s /\ e.seen = Len(rows) /\ e \in Reading
    <3>1. s.op \in Ops
      BY <1>3 DEF Statement
    <3>2. ResultSize(s, tab, w) \in Nat
      BY <2>3, <3>1, ResultIsNumber
    <3> QED
      BY <1>2, <1>3, <3>2 DEF Result, Reading
  <2>5. GroupsBehind(s, groups, keys, tab)
    BY <1>3, <2>3, CloseLeavesGroups
  <2>6. groups \in Seq(Statement)
    <3>1. s.stage \in {"counts", "breakdown", "samples", "list"}
      BY <1>3 DEF Statement
    <3>2. Keys(s.stage, tab, w) \in Seq(DuplicateKeys(tab, w))
      BY <2>3, KeysListed
    <3>3. FetchGroups(s.stage, Keys(s.stage, tab, w), tab) \in Seq(Statement)
      BY <1>2, <3>1, <3>2, FetchGroupsTyped
    <3> QED
      BY <3>3
  <2> HIDE DEF groups, e, keys
  <2>7. /\ Len(got'[q]) = c + 1 /\ got'[q][c + 1] = e /\ c + 1 \in DOMAIN got'[q]
        /\ \A i \in DOMAIN got[q] : i \in DOMAIN got'[q] /\ got'[q][i] = got[q][i]
    BY <1>3, <2>2, <2>4
  <2>8. Quiet(q)' => Quiet(q) /\ start[q] = Len(rows)
    BY <1>1, <2>4, <2>7 DEF Quiet
  <2>9. /\ Spliced(new, old, c + 1, groups) /\ c + 1 \in DOMAIN old /\ old[c + 1] = s
        /\ DOMAIN old \subseteq Nat /\ DOMAIN new \subseteq Nat
    BY <1>3, <2>2, <2>4, <2>6, RunSplices DEF ScriptOf
  <2>10. Prefix(Len(rows)) = tab /\ Prefix(Len(rows))' = tab
    BY <1>1, <1>2, WholePrefix DEF Prefix
  <2>11. ASSUME Quiet(q)'
         PROVE  /\ ask[q].kind \in CountKinds => EveryCountPlanned(new)
                /\ Faithful(new, c + 1, keys, tab)
    <3>1. /\ ask[q].kind \in CountKinds => EveryCountPlanned(old)
          /\ Faithful(old, c, keys, tab)
      BY <2>8, <2>10, <2>11 DEF QuietInv, FaithfulIfQuiet, keys
    <3>2. Len(groups) \in Nat /\ c \in Nat /\ c + 1 \in Nat
      BY <1>3, <2>6
    <3> HIDE DEF old, new, c
    <3>3. Faithful(new, c + 1, keys, tab)
      <4> DEFINE at == c + 1
      <4>1. at \in DOMAIN old /\ at \in Nat /\ Spliced(new, old, at, groups) /\ old[at] = s
        BY <2>9, <3>2
      <4>2. at - 1 = c
        BY <3>2
      <4> HIDE DEF at, s, tab
      <4>3. Faithful(new, at, keys, tab)
        BY <2>5, <2>9, <3>1, <3>2, <4>1, <4>2, SpliceIsFaithful
      <4> QED
        BY <4>3 DEF at
    <3> QED
      BY <2>9, <3>1, <3>3, SpliceKeepsCounts
  <2>12. FaithfulIfQuiet(q)'
    <3> SUFFICES ASSUME Quiet(q)'
                 PROVE  /\ (ask[q].kind \in CountKinds)' => EveryCountPlanned(new)
                        /\ Faithful(new, Len(got'[q]), DuplicateKeys(Prefix(start[q]), ask[q].win)', Prefix(start[q])')
      BY DEF FaithfulIfQuiet
    <3>1. Prefix(start[q])' = tab /\ DuplicateKeys(Prefix(start[q]), ask[q].win)' = keys
      BY <1>1, <2>8, <2>10 DEF keys
    <3> QED
      BY <1>1, <2>7, <2>11, <3>1
  <2> QED
    BY <1>5, <1>7, <2>12 DEF QuietInv
<1> QED
  BY <1>8, <1>9
(* Only a report that has run all of its statements is answered 200.         *)
LEMMA AnswerKeepsOk ==
  ASSUME ServiceInv, QuietInv, NEW q \in Queries, AnswerQuery(q)
  PROVE  OkIsComplete'
<1>1. /\ qpc' = [qpc EXCEPT ![q] = "answered"] /\ UNCHANGED <<ask, todo>>
      /\ qpc[q] \in {"refused", "failed"} \/ (qpc[q] = "waiting" /\ todo[q] = <<>>)
      /\ \E a \in {Outcome(q), "lost"} : reply' = [reply EXCEPT ![q] = a]
      /\ qpc \in [Queries -> {"idle", "waiting", "cursor", "refused", "failed", "answered"}]
      /\ DOMAIN reply = Queries
  BY DEF AnswerQuery, QGoto, ServiceInv, ServiceTypeOK
<1>2. qpc[q] \in {"refused", "failed"} => Outcome(q) # "ok"
  <2>1. CASE qpc[q] = "refused"
    BY <2>1 DEF Outcome, Refusal
  <2>2. CASE qpc[q] = "failed"
    BY <2>2 DEF Outcome
  <2> QED
    BY <2>1, <2>2
<1>3. reply'[q] = "ok" => todo[q] = <<>>
  BY <1>1, <1>2
<1>4. \A p \in Queries \ {q} : qpc'[p] = qpc[p] /\ reply'[p] = reply[p]
  BY <1>1
<1>5. qpc'[q] = "answered" /\ qpc[q] # "idle"
  BY <1>1
<1> QED
  BY <1>1, <1>3, <1>4, <1>5 DEF QuietInv, OkIsComplete

(* Every step of a report.                                                   *)
LEMMA ReportStepKeepsQuiet ==
  ASSUME ServiceInv, ReportInv, QuietInv, NEW q \in Queries, ReportStep(q)
  PROVE  QuietInv'
<1>1. /\ ServiceTypeOK /\ rows \in Seq(RowName) /\ <<>> \in Seq(RowName)
      /\ qpc \in [Queries -> {"idle", "waiting", "cursor", "refused", "failed", "answered"}]
  BY DEF ServiceInv, ServiceTypeOK
<1>2. CASE ReceiveQuery(q)
  BY <1>2, ReceiveKeepsQuiet
<1>3. CASE CloseCursor(q) \/ KeysCutShort(q)
  BY <1>3, CursorKeepsQuiet
<1>4. CASE CancelQuery(q) \/ OpenCursor(q) \/ OpenFails(q) \/ CursorFails(q) \/ AnswerQuery(q)
  <2>1. UNCHANGED <<rows, ask, todo, got, start>>
    BY <1>4 DEF CancelQuery, CancelContext, reportVars, OpenCursor, OpenFails, CursorFails, AnswerQuery,
                storeVars
  <2>2. OkIsComplete'
    <3>1. CASE CancelQuery(q)
      BY <3>1 DEF CancelQuery, reportVars, QuietInv, OkIsComplete
    <3>2. CASE OpenCursor(q) \/ OpenFails(q) \/ CursorFails(q)
      <4>1. /\ reply' = reply /\ qpc[q] \in {"waiting", "cursor"}
            /\ \E label \in {"cursor", "failed"} : qpc' = [qpc EXCEPT ![q] = label]
        BY <3>2 DEF OpenCursor, OpenFails, CursorFails, QGoto
      <4>2. \A p \in Queries \ {q} : qpc'[p] = qpc[p]
        BY <1>1, <4>1
      <4> QED
        BY <2>1, <4>1, <4>2 DEF QuietInv, OkIsComplete
    <3>3. CASE AnswerQuery(q)
      BY <3>3, AnswerKeepsOk
    <3> QED
      BY <1>4, <3>1, <3>2, <3>3
  <2>3. rows' = rows \o <<>>
    BY <1>1, <2>1, ConcatEmptySeq
  <2> QED
    BY <1>1, <2>1, <2>2, <2>3, QuietStays
<1> QED
  BY <1>2, <1>3, <1>4 DEF ReportStep, Report

(* The steps of ingest, whether they commit or not.                          *)
LEMMA IngestKeepsQuiet ==
  ASSUME ServiceInv, ReportInv, QuietInv, UNCHANGED reportVars, NEW b \in Batches, IngestStep(b)
  PROVE  QuietInv'
<1>1. UNCHANGED <<qpc, ask, todo, got, start, reply>>
  BY DEF reportVars
<1>2. OkIsComplete'
  BY <1>1 DEF QuietInv, OkIsComplete
<1>3. ServiceTypeOK /\ rows \in Seq(RowName) /\ scratch \in Seq(RowName) /\ <<>> \in Seq(RowName)
  BY DEF ServiceInv, ServiceTypeOK
<1>4. CASE CommitBatch(b)
  <2>1. rows' = rows \o scratch
    BY <1>4 DEF CommitBatch, CommitTx
  <2> QED
    BY <1>1, <1>2, <1>3, <2>1, QuietStays
<1>5. CASE ~CommitBatch(b)
  <2>1. rows' = rows
    BY <1>5 DEF IngestStep, Handle, Receive, BeginBatch, BeginFails, InsertRow, StatementFails,
                DeferredRollback, AwaitDone, RollbackTx, Respond, Cancel, CancelContext, storeVars
  <2>2. rows' = rows \o <<>>
    BY <1>3, <2>1, ConcatEmptySeq
  <2> QED
    BY <1>1, <1>2, <1>3, <2>2, QuietStays
<1> QED
  BY <1>4, <1>5

(* A crash answers nobody.                                                   *)
LEMMA ProcessKeepsQuiet ==
  ASSUME ServiceInv, ReportInv, QuietInv, Lifecycle \/ DrainedExit \/ Crash
  PROVE  QuietInv'
<1>1. UNCHANGED <<rows, ask, todo, got, start>>
  BY DEF Lifecycle, Start, Signal, DrainedExit, Crash, Stop, LoseReports, reportVars
<1>2. OkIsComplete'
  <2>1. CASE Lifecycle \/ DrainedExit
    BY <2>1 DEF Lifecycle, DrainedExit, reportVars, QuietInv, OkIsComplete
  <2>2. CASE Crash
    <3>1. ASSUME NEW q \in Queries
          PROVE  /\ reply'[q] = "ok" => qpc'[q] = "answered" /\ todo[q] = <<>>
                 /\ qpc'[q] # "idle" => ask[q] \in Asks
      <4>1. /\ qpc'[q] = IF Reporting(q) THEN "answered" ELSE qpc[q]
            /\ reply'[q] = IF Reporting(q) THEN "lost" ELSE reply[q]
        BY <2>2 DEF Crash, LoseReports
      <4> QED
        BY <4>1 DEF QuietInv, OkIsComplete, Reporting
    <3> QED
      BY <1>1, <3>1 DEF OkIsComplete
  <2> QED
    BY <2>1, <2>2
<1>3. ServiceTypeOK /\ rows \in Seq(RowName) /\ <<>> \in Seq(RowName)
  BY DEF ServiceInv, ServiceTypeOK
<1>4. rows' = rows \o <<>>
  BY <1>1, <1>3, ConcatEmptySeq
<1> QED
  BY <1>1, <1>2, <1>3, <1>4, QuietStays

(* Nothing is asked, nothing is planned.                                     *)
LEMMA InitQuiet == ServiceInit => QuietInv
<1> SUFFICES ASSUME ServiceInit, NEW q \in Queries
             PROVE  /\ reply[q] = "ok" => qpc[q] = "answered" /\ todo[q] = <<>>
                    /\ qpc[q] # "idle" => ask[q] \in Asks
                    /\ FaithfulIfQuiet(q)
  BY DEF QuietInv, OkIsComplete
<1>1. /\ qpc[q] = "idle" /\ todo[q] = <<>> /\ got[q] = <<>> /\ ask[q] = NoAsk /\ reply[q] = "none"
  BY DEF ServiceInit, ReportsInit
<1>2. ask[q].kind \notin CountKinds
  BY <1>1 DEF NoAsk, CountKinds
<1>3. DOMAIN ScriptOf(q) = {}
  BY <1>1 DEF ScriptOf, Script
<1>4. \A keys, tab : Faithful(ScriptOf(q), Len(got[q]), keys, tab)
  BY <1>3 DEF Faithful, KeysCountedOnce, GroupsAfterKeys, EveryGroupPlanned, GroupsAreDuplicates, GroupsOnce
<1> QED
  BY <1>1, <1>2, <1>4 DEF FaithfulIfQuiet

(* Every step keeps the plans of quiet reports.                              *)
LEMMA NextKeepsQuiet ==
  ASSUME ServiceInv, ReportInv, QuietInv, [ServiceNext]_serviceVars
  PROVE  QuietInv'
<1>1. CASE UNCHANGED serviceVars
  <2>1. UNCHANGED <<rows, qpc, ask, todo, got, start, reply>>
    BY <1>1 DEF serviceVars, storeVars, reportVars
  <2>2. OkIsComplete'
    BY <2>1 DEF QuietInv, OkIsComplete
  <2>3. ServiceTypeOK /\ rows \in Seq(RowName) /\ <<>> \in Seq(RowName)
    BY DEF ServiceInv, ServiceTypeOK
  <2>4. rows' = rows \o <<>>
    BY <2>1, <2>3, ConcatEmptySeq
  <2> QED
    BY <2>1, <2>2, <2>3, <2>4, QuietStays
<1>2. ASSUME NEW b \in Batches, IngestStep(b), UNCHANGED reportVars
      PROVE  QuietInv'
  BY <1>2, IngestKeepsQuiet
<1>3. ASSUME NEW q \in Queries, ReportStep(q)
      PROVE  QuietInv'
  BY <1>3, ReportStepKeepsQuiet
<1>4. CASE Lifecycle \/ DrainedExit \/ Crash
  BY <1>4, ProcessKeepsQuiet
<1> QED
  BY <1>1, <1>2, <1>3, <1>4 DEF ServiceNext
(* What a report of a quiet table has counted.                               *)
Finished(q) == reply[q] = "ok" /\ ask[q].kind \in CountKinds /\ Quiet(q)

(* Its statements have all run.                                              *)
LEMMA FinishedScript ==
  ASSUME ReportInv, QuietInv, NEW q \in Queries, Finished(q)
  PROVE  /\ DOMAIN ScriptOf(q) = DOMAIN got[q] /\ DOMAIN got[q] = 1..Len(got[q]) /\ Len(got[q]) \in Nat
         /\ \A i \in DOMAIN got[q] : ScriptOf(q)[i] = got[q][i].s
<1>1. todo[q] = <<>> /\ got[q] \in Seq(Reading)
  BY DEF Finished, QuietInv, OkIsComplete, ReportInv, ReportsTypeOK
<1>2. DOMAIN got[q] = 1..Len(got[q]) /\ Len(got[q]) \in Nat /\ Len(got[q]) + 0 = Len(got[q])
  BY <1>1
<1>3. ScriptOf(q) = [i \in 1..Len(got[q]) |-> IF i <= Len(got[q]) THEN got[q][i].s ELSE todo[q][i - Len(got[q])]]
  BY <1>1, <1>2 DEF ScriptOf, Script
<1> QED
  BY <1>2, <1>3

(* Each count is that of the table there was when the request came.          *)
LEMMA QuietCount ==
  ASSUME ReportInv, QuietInv, NEW q \in Queries, Finished(q), NEW op \in CountOps
  PROVE  \E s : /\ s.stage = "counts" /\ s.op = op
                /\ CountOf(q, "counts", op) = ResultSize(s, Prefix(start[q]), ask[q].win)
<1>1. /\ DOMAIN ScriptOf(q) = DOMAIN got[q]
      /\ \A i \in DOMAIN got[q] : ScriptOf(q)[i] = got[q][i].s
  BY FinishedScript
<1>2. \E i \in DOMAIN ScriptOf(q) : Counting(ScriptOf(q)[i], op)
  BY DEF Finished, QuietInv, FaithfulIfQuiet, EveryCountPlanned
<1>3. Taken(q, "counts", op) # {}
  BY <1>1, <1>2 DEF Counting, Taken
<1> DEFINE i == CHOOSE i \in Taken(q, "counts", op) : TRUE
<1>4. i \in Taken(q, "counts", op)
  BY <1>3
<1>5. CountOf(q, "counts", op) = got[q][i].n
  BY DEF CountOf
<1> HIDE DEF i
<1>6. i \in DOMAIN got[q] /\ got[q][i].s.stage = "counts" /\ got[q][i].s.op = op
  BY <1>4 DEF Taken
<1>7. got[q][i].seen = start[q] /\ ~got[q][i].cut
  BY <1>6 DEF Finished, Quiet
<1>8. got[q][i].n = ResultSize(got[q][i].s, Prefix(start[q]), ask[q].win)
  BY <1>6, <1>7 DEF ReportInv, StatementsReadCommitted
<1> QED
  BY <1>5, <1>6, <1>8

(* All six of them.                                                          *)
LEMMA QuietCounts ==
  ASSUME ReportInv, QuietInv, NEW q \in Queries, Finished(q), NEW tab, tab = Prefix(start[q]),
         NEW w, w = ask[q].win
  PROVE  /\ CountOf(q, "counts", "orphaned") = Cardinality(Orphaned(tab, w))
         /\ CountOf(q, "counts", "ghost") = Cardinality(Ghosts(tab, w))
         /\ CountOf(q, "counts", "keys") = Cardinality(DuplicateKeys(tab, w))
         /\ CountOf(q, "counts", "limbo") = Cardinality(LimboRows(tab, w, Now))
         /\ CountOf(q, "counts", "unique") = Cardinality(UniqueIn(tab, w))
         /\ CountOf(q, "counts", "total") = Cardinality(RowsInWindow(tab, w))
<1>1. \A op \in CountOps : \E s : /\ s.stage = "counts" /\ s.op = op
                                  /\ CountOf(q, "counts", op) = ResultSize(s, tab, w)
  BY QuietCount
<1>2. \A n : Limited("counts", n) = n
  BY DEF Limited
<1>3. /\ \A s : s.stage = "counts" /\ s.op = "orphaned" => ResultSize(s, tab, w) = Cardinality(Orphaned(tab, w))
      /\ \A s : s.stage = "counts" /\ s.op = "ghost" => ResultSize(s, tab, w) = Cardinality(Ghosts(tab, w))
      /\ \A s : s.stage = "counts" /\ s.op = "keys" => ResultSize(s, tab, w) = Cardinality(DuplicateKeys(tab, w))
      /\ \A s : s.stage = "counts" /\ s.op = "limbo" => ResultSize(s, tab, w) = Cardinality(LimboRows(tab, w, Now))
      /\ \A s : s.op = "unique" => ResultSize(s, tab, w) = Cardinality(UniqueIn(tab, w))
      /\ \A s : s.op = "total" => ResultSize(s, tab, w) = Cardinality(RowsInWindow(tab, w))
  BY <1>2 DEF ResultSize
<1> QED
  BY <1>1, <1>3 DEF CountOps

(* The fetches of a finished report stand for the duplicate groups, one each. *)
LEMMA QuietGroups ==
  ASSUME ReportInv, QuietInv, NEW q \in Queries, Finished(q), NEW tab, tab = Prefix(start[q]),
         NEW keys, keys = DuplicateKeys(tab, ask[q].win), NEW fetched, fetched = Taken(q, "counts", "rows")
  PROVE  /\ fetched \subseteq 1..Len(got[q]) /\ Len(got[q]) \in Nat
         /\ \A i \in fetched : got[q][i].s.key \in keys /\ got[q][i].s.occ = GroupSize(tab, got[q][i].s.key)
         /\ \A i, j \in fetched : got[q][i].s.key = got[q][j].s.key => i = j
         /\ \A k \in keys : \E i \in fetched : got[q][i].s.key = k
<1>1. /\ DOMAIN ScriptOf(q) = DOMAIN got[q] /\ DOMAIN got[q] = 1..Len(got[q]) /\ Len(got[q]) \in Nat
      /\ \A i \in DOMAIN got[q] : ScriptOf(q)[i] = got[q][i].s
  BY FinishedScript
<1> DEFINE script == ScriptOf(q)
<1>2. EveryCountPlanned(script) /\ Faithful(script, Len(got[q]), keys, tab)
  BY DEF Finished, QuietInv, FaithfulIfQuiet
<1> HIDE DEF script
<1>3. \A i : i \in fetched <=> i \in DOMAIN script /\ Counting(script[i], "rows")
  BY <1>1 DEF Counting, Taken, script
<1>4. \A i \in fetched : script[i] = got[q][i].s
  BY <1>1, <1>3 DEF script
<1>5. fetched \subseteq 1..Len(got[q])
  BY <1>1, <1>3 DEF script
<1>6. \A i \in fetched : script[i].key \in keys /\ script[i].occ = GroupSize(tab, script[i].key)
  BY <1>2, <1>3 DEF Faithful, GroupsAreDuplicates
<1>7. \A i, j \in fetched : script[i].key = script[j].key => i = j
  BY <1>2, <1>3 DEF Faithful, GroupsOnce
<1>8. \A k \in keys : \E i \in fetched : script[i].key = k
  <2>1. \E i \in DOMAIN script : Counting(script[i], "keys")
    BY <1>2 DEF EveryCountPlanned, CountOps
  <2>2. \A i \in DOMAIN script : i <= Len(got[q])
    BY <1>1 DEF script
  <2>3. \A k \in keys : \E j \in DOMAIN script : Counting(script[j], "rows") /\ script[j].key = k
    BY <1>2, <2>1, <2>2 DEF Faithful, EveryGroupPlanned
  <2> QED
    BY <1>3, <2>3
<1>9. \A i \in fetched : got[q][i].s.key \in keys /\ got[q][i].s.occ = GroupSize(tab, got[q][i].s.key)
  BY <1>4, <1>6
<1>10. \A i, j \in fetched : got[q][i].s.key = got[q][j].s.key => i = j
  BY <1>4, <1>7
<1>11. \A k \in keys : \E i \in fetched : got[q][i].s.key = k
  BY <1>4, <1>8
<1> QED
  BY <1>1, <1>5, <1>9, <1>10, <1>11

(* DuplicateExtra is a sum.                                                  *)
LEMMA DuplicateExtraAddsUp ==
  ASSUME NEW q, NEW fetched, fetched = Taken(q, "counts", "rows"), IsFiniteSet(fetched),
         \A i \in fetched : got[q][i].s.occ \in Nat \ {0}
  PROVE  \E sum \in [SUBSET fetched -> Nat] :
           /\ AddsUp(sum, [i \in fetched |-> got[q][i].s.occ - 1], fetched)
           /\ DuplicateExtra(q, "counts") = sum[fetched]
<1> DEFINE f == [i \in fetched |-> got[q][i].s.occ - 1]
           Rec(g) == [s \in SUBSET fetched |->
                        IF s = {} THEN 0
                        ELSE (got[q][CHOOSE x \in s : TRUE].s.occ - 1) + g[s \ {CHOOSE x \in s : TRUE}]]
           iter == CHOOSE g : g = Rec(g)
<1>1. f \in [fetched -> Nat]
  OBVIOUS
<1>2. DuplicateExtra(q, "counts") = iter[fetched]
  BY DEF DuplicateExtra, MapThenSumSet, MapThenFoldSet
<1>3. \A g : AddsUp(g, f, fetched) <=> g = Rec(g)
  <2> TAKE g
  <2>1. \A s \in SUBSET fetched : s # {} => First(s) \in fetched /\ f[First(s)] = got[q][First(s)].s.occ - 1
    BY DEF First
  <2>2. Rec(g) = [s \in SUBSET fetched |-> IF s = {} THEN 0 ELSE f[First(s)] + g[s \ {First(s)}]]
    BY <2>1 DEF First
  <2> QED
    BY <2>2 DEF AddsUp
<1>4. PICK sum \in [SUBSET fetched -> Nat] : AddsUp(sum, f, fetched)
  BY <1>1, SumExists
<1> HIDE DEF Rec
<1>5. iter = Rec(iter)
  <2>1. sum = Rec(sum)
    BY <1>3, <1>4
  <2> QED
    BY <2>1
<1>6. iter = sum
  BY <1>3, <1>4, <1>5, SumUnique
<1> QED
  BY <1>2, <1>4, <1>6

(* The redundant rows a finished report adds up are those of the table.      *)
LEMMA QuietExtra ==
  ASSUME ServiceTypeOK, ReportInv, QuietInv, NEW q \in Queries, Finished(q)
  PROVE  DuplicateExtra(q, "counts")
           = ExtraOf(Prefix(start[q]), DuplicateKeys(Prefix(start[q]), ask[q].win))
<1> DEFINE tab == Prefix(start[q])
           keys == DuplicateKeys(tab, ask[q].win)
           fetched == Taken(q, "counts", "rows")
           f == [i \in fetched |-> got[q][i].s.occ - 1]
           part == [k \in keys |-> Cardinality(GroupRows(tab, k)) - 1]
           g == [i \in fetched |-> got[q][i].s.key]
<1>1. /\ fetched \subseteq 1..Len(got[q]) /\ Len(got[q]) \in Nat
      /\ \A i \in fetched : got[q][i].s.key \in keys /\ got[q][i].s.occ = GroupSize(tab, got[q][i].s.key)
      /\ \A i, j \in fetched : got[q][i].s.key = got[q][j].s.key => i = j
      /\ \A k \in keys : \E i \in fetched : got[q][i].s.key = k
  BY QuietGroups
<1>2. IsFiniteSet(Ids(tab))
  <2>1. SubSeq(rows, 1, start[q]) \in Seq(RowName)
    <3>1. rows \in Seq(RowName) /\ start[q] \in Nat /\ start[q] <= Len(rows) /\ Len(rows) \in Nat
      BY DEF ServiceTypeOK, ReportInv, SeenIsPast
    <3>2. \A i \in 1..start[q] : rows[i] \in RowName
      BY <3>1
    <3> QED
      BY <3>1, <3>2, SubSeqProperties
  <2> QED
    BY <2>1, TableProperties DEF Prefix
<1>3. /\ IsFiniteSet(keys)
      /\ \A k \in keys : Cardinality(GroupRows(tab, k)) \in Nat \ {0}
  BY <1>2, DuplicateGroups
<1>4. IsFiniteSet(fetched)
  <2>1. IsFiniteSet(1..Len(got[q]))
    BY <1>1, FS_Interval
  <2> QED
    BY <1>1, <2>1, FS_Subset
<1> HIDE DEF tab, keys, fetched
<1>5. \A i \in fetched : got[q][i].s.occ \in Nat \ {0}
  BY <1>1, <1>3 DEF GroupSize
<1>6. PICK sum \in [SUBSET fetched -> Nat] : AddsUp(sum, f, fetched) /\ DuplicateExtra(q, "counts") = sum[fetched]
  BY <1>4, <1>5, DuplicateExtraAddsUp DEF fetched
<1>7. PICK total \in [SUBSET keys -> Nat] : AddsUp(total, part, keys) /\ ExtraOf(tab, keys) = total[keys]
  BY <1>3, ExtraAddsUp
<1>8. f \in [fetched -> Nat] /\ part \in [keys -> Nat] /\ g \in [fetched -> keys]
  BY <1>1, <1>3, <1>5
<1>9. /\ \A x, y \in fetched : g[x] = g[y] => x = y
      /\ \A k \in keys : \E x \in fetched : g[x] = k
  BY <1>1
<1>10. \A x \in fetched : f[x] = part[g[x]]
  BY <1>1 DEF GroupSize
<1> HIDE DEF f, part, g
<1>11. IsTotal(sum, f, fetched) /\ IsTotal(total, part, keys) /\ Renames(g, f, fetched, part, keys)
  BY <1>3, <1>4, <1>6, <1>7, <1>8, <1>9, <1>10 DEF IsTotal, Renames
<1>12. sum[fetched] = total[keys]
  BY ONLY <1>11, SumOfRenamed
<1> QED
  BY <1>6, <1>7, <1>12 DEF keys, tab

(* A finished report of a quiet table reports the counts of that table.      *)
LEMMA FinishedIsExact ==
  ASSUME ServiceTypeOK, ReportInv, QuietInv, NEW q \in Queries, Finished(q)
  PROVE  ReportedCounts(q) = Counts(Prefix(start[q]), ask[q].win, Now)
<1> DEFINE tab == Prefix(start[q])
           w == ask[q].win
<1>1. DuplicateExtra(q, "counts") = ExtraOf(tab, DuplicateKeys(tab, w))
  BY QuietExtra
<1>2. /\ CountOf(q, "counts", "orphaned") = Cardinality(Orphaned(tab, w))
      /\ CountOf(q, "counts", "ghost") = Cardinality(Ghosts(tab, w))
      /\ CountOf(q, "counts", "keys") = Cardinality(DuplicateKeys(tab, w))
      /\ CountOf(q, "counts", "limbo") = Cardinality(LimboRows(tab, w, Now))
      /\ CountOf(q, "counts", "unique") = Cardinality(UniqueIn(tab, w))
      /\ CountOf(q, "counts", "total") = Cardinality(RowsInWindow(tab, w))
  BY QuietCounts
<1> HIDE DEF tab, w
<1>3. ReportedCounts(q) = Counts(tab, w, Now)
  BY <1>1, <1>2 DEF ReportedCounts, Counts, ExtraOf
<1> QED
  BY <1>3 DEF tab, w

(* A report during which nothing is committed and nothing cut short is exact, *)
(* however many statements, and requests beside it, it was made of.           *)
THEOREM QuietReportsAreExact == ServiceSafety => []QuietReportIsExact
<1>1. ServiceInit => QuietInv
  BY InitQuiet
<1>2. ServiceInv /\ ReportInv /\ QuietInv /\ [ServiceNext]_serviceVars => QuietInv'
  BY NextKeepsQuiet
<1>3. ServiceInv /\ ReportInv /\ QuietInv => QuietReportIsExact
  <2> SUFFICES ASSUME ServiceInv, ReportInv, QuietInv, NEW q \in Queries,
                      reply[q] = "ok", Quiet(q),
                      ask[q].kind \notin {"duplicate", "healthz", "orphaned", "ghost", "limbo"}
               PROVE  ReportedCounts(q) = Counts(Prefix(start[q]), ask[q].win, Now)
    BY DEF QuietReportIsExact, Quiet
  <2>1. ask[q] \in Asks
    BY DEF QuietInv, OkIsComplete
  <2>2. ask[q].kind \in CountKinds
    BY <2>1, QueriesAssumption DEF Kinds, CountKinds
  <2>3. Finished(q) /\ ServiceTypeOK
    BY <2>2 DEF Finished, ServiceInv
  <2> QED
    BY <2>3, FinishedIsExact
<1> QED
  BY <1>1, <1>2, <1>3, Invariant, ReportInvariant, PTL DEF ServiceSafety
=============================================================================
