------------------------------ MODULE Reports ------------------------------
(***************************************************************************)
(* GET /v1/health, /v1/anomalies, /v1/alerts and /healthz: the handlers,    *)
(* the services behind them and the queries of Repo.                        *)
(*                                                                          *)
(* A report is not one transaction.  It is a list of SELECT statements, and *)
(* each takes the pooled connection, holds it while its rows are iterated,  *)
(* and gives it back; other requests run between two of them.  todo is what *)
(* the handler has left to run, got what it has read.                       *)
(***************************************************************************)
EXTENDS Store, Detection, SequencesExt

CONSTANTS Queries,    \* report requests
          Asks,       \* what a query may ask: [kind |-> endpoint, win |-> window, form |-> how it is written]
          Now,        \* the instant clock.Now() returns
          SampleLimit \* defaultSample

Kinds == {"health", "health_breakdown", "alerts", "summary", "summary_breakdown",
          "orphaned", "ghost", "duplicate", "limbo", "healthz"}

ASSUME QueriesAssumption ==
  /\ Queries \subseteq Requests
  /\ \A a \in Asks : a.kind \in Kinds
  /\ SampleLimit \in Nat

VARIABLES qpc, ask, todo, got,
          start,      \* history: how many rows were committed when q was received
          reply       \* the status the client got, or "lost"

reportVars == <<qpc, ask, todo, got, start, reply>>

NoAsk == [kind |-> "none", win |-> [from |-> NoBound, to |-> NoBound], form |-> "fine"]

ReportsInit ==
  /\ qpc = [q \in Queries |-> "idle"]
  /\ ask = [q \in Queries |-> NoAsk]
  /\ todo = [q \in Queries |-> <<>>]
  /\ got = [q \in Queries |-> <<>>]
  /\ start = [q \in Queries |-> 0]
  /\ reply = [q \in Queries |-> "none"]

QGoto(q, label) == qpc' = [qpc EXCEPT ![q] = label]

Reporting(q) == qpc[q] \notin {"idle", "answered"}

-----------------------------------------------------------------------------
(* The statements of each endpoint, in the order the code runs them. *)

Statements(stage, ops) ==
  [i \in DOMAIN ops |-> [stage |-> stage, op |-> ops[i], key |-> <<>>, occ |-> 0]]

CountsByWindow ==
  Statements("counts", <<"orphaned", "ghost", "keys", "limbo", "unique", "total">>)

CountsByKey == Statements("breakdown", <<"orphaned", "ghost", "keys", "limbo">>)

Samples == Statements("samples", <<"orphaned", "ghost", "keys", "limbo">>)

\* HealthService.Compute, and AlertsService.Evaluate on top of it.
HealthPlan(breakdown) == CountsByWindow \o (IF breakdown THEN CountsByKey ELSE <<>>)

\* AnomaliesService.Summary
SummaryPlan(breakdown) ==
  CountsByWindow \o Samples \o (IF breakdown THEN CountsByKey ELSE <<>>)

\* AnomaliesService.List
ListPlan(type) == Statements("list", IF type = "duplicate" THEN <<"keys">> ELSE <<type>>)

\* livenessHandler
Probe == Statements("list", <<"ping">>)

Plan(kind) ==
  CASE kind \in {"health", "alerts"} -> HealthPlan(FALSE)
    [] kind = "health_breakdown"     -> HealthPlan(TRUE)
    [] kind = "summary"              -> SummaryPlan(FALSE)
    [] kind = "summary_breakdown"    -> SummaryPlan(TRUE)
    [] kind = "healthz"              -> Probe
    [] OTHER                         -> ListPlan(kind)

\* fetchGroupRows, once per group the first query of FindDuplicates returned.
FetchGroups(stage, keys, tab) ==
  [i \in DOMAIN keys |-> [stage |-> stage, op |-> "rows", key |-> keys[i],
                          occ |-> Cardinality(GroupRows(tab, keys[i]))]]

-----------------------------------------------------------------------------
Table(names) == [i \in DOMAIN names |-> Payload[names[i].req][names[i].n]]

\* LIMIT: the samples of a summary are cut, the counts are not.
Limited(stage, n) == IF stage = "samples" /\ n > SampleLimit THEN SampleLimit ELSE n

Keys(stage, tab, w) ==
  LET all == SetToSeq(DuplicateKeys(tab, w))
  IN  SubSeq(all, 1, Limited(stage, Len(all)))

\* Mutant of GroupSize: the group is read with SELECT DISTINCT.
GroupSizeDistinct(tab, k) == Cardinality({tab[i] : i \in GroupRows(tab, k)})

GroupSize(tab, k) == Cardinality(GroupRows(tab, k))

\* How many rows (or which count) a statement returns on a table.
ResultSize(s, tab, w) ==
  CASE s.op = "orphaned" -> Limited(s.stage, Cardinality(Orphaned(tab, w)))
    [] s.op = "ghost"    -> Limited(s.stage, Cardinality(Ghosts(tab, w)))
    [] s.op = "keys"     -> Limited(s.stage, Cardinality(DuplicateKeys(tab, w)))
    [] s.op = "rows"     -> GroupSize(tab, s.key)
    [] s.op = "limbo"    -> Limited(s.stage, Cardinality(LimboRows(tab, w, Now)))
    [] s.op = "unique"   -> Cardinality(UniqueIn(tab, w))
    [] s.op = "total"    -> Cardinality(RowsInWindow(tab, w))
    [] s.op = "ping"     -> 0

\* A result: the statement, what it returned, how many rows the table had, and
\* whether the iteration ended early without the handler noticing.
Result(s, n, cut) == [s |-> s, n |-> n, seen |-> Len(Visible), cut |-> cut]

-----------------------------------------------------------------------------
(***************************************************************************)
(* How a query string is read, before any statement: first from and to      *)
(* ("bad_stamp": one is not RFC 3339), then their order, then, if the        *)
(* endpoint has any, breakdown, or type, limit and offset ("bad_args": one   *)
(* is not what the endpoint takes).  /healthz reads none of it.              *)
(***************************************************************************)
Refusal(a) ==
  IF a.kind = "healthz" THEN "none"
  ELSE IF a.form = "bad_stamp" THEN "bad_request"
  ELSE IF ~WindowValid(a.win) THEN "unprocessable"
  ELSE IF a.form = "bad_args" /\ a.kind # "alerts" THEN "bad_request"
  ELSE "none"

ReceiveQuery(q) ==
  /\ server # "down"
  /\ qpc[q] = "idle"
  /\ \E a \in Asks :
       /\ ask' = [ask EXCEPT ![q] = a]
       /\ todo' = [todo EXCEPT ![q] = Plan(a.kind)]
       /\ QGoto(q, IF Refusal(a) = "none" THEN "waiting" ELSE "refused")
  /\ start' = [start EXCEPT ![q] = Len(rows)]
  /\ UNCHANGED <<got, reply, storeVars>>

\* QueryContext gets the connection.
OpenCursor(q) ==
  /\ qpc[q] = "waiting"
  /\ todo[q] # <<>>
  /\ Acquire(q)
  /\ QGoto(q, "cursor")
  /\ UNCHANGED <<ask, todo, got, start, reply, server, ctx, rows, scratch>>

\* QueryContext returns an error: the context is done, or SQLite's.
OpenFails(q) ==
  /\ qpc[q] = "waiting"
  /\ todo[q] # <<>>
  /\ ctx[q] = "done" \/ conn = Free
  /\ QGoto(q, "failed")
  /\ UNCHANGED <<ask, todo, got, start, reply, storeVars>>

Took(q, s, n, cut) == got' = [got EXCEPT ![q] = Append(@, Result(s, n, cut))]

\* Mutant of CloseCursor: the next statement is run inside the loop, with the cursor still open.
CloseCursorKeepsConn(q) ==
  /\ qpc[q] = "cursor"
  /\ LET s   == Head(todo[q])
         tab == Table(Visible)
     IN  /\ Took(q, s, ResultSize(s, tab, ask[q].win), FALSE)
         /\ todo' = [todo EXCEPT ![q] =
              (IF s.op = "keys" THEN FetchGroups(s.stage, Keys(s.stage, tab, ask[q].win), tab)
                                ELSE <<>>) \o Tail(@)]
  /\ QGoto(q, "waiting")
  /\ UNCHANGED <<ask, start, reply, storeVars>>

\* The rows are read to the end, the cursor is closed.
CloseCursor(q) ==
  /\ qpc[q] = "cursor"
  /\ LET s   == Head(todo[q])
         tab == Table(Visible)
     IN  /\ Took(q, s, ResultSize(s, tab, ask[q].win), FALSE)
         /\ todo' = [todo EXCEPT ![q] =
              (IF s.op = "keys" THEN FetchGroups(s.stage, Keys(s.stage, tab, ask[q].win), tab)
                                ELSE <<>>) \o Tail(@)]
  /\ Release(q)
  /\ QGoto(q, "waiting")
  /\ UNCHANGED <<ask, start, reply, server, ctx, rows, scratch>>

\* The iteration ends early and the finder says so: Scan failed or, but for the first query of
\* FindDuplicates, rs.Err() tells that the context is done or SQLite failed.
CursorFails(q) ==
  /\ qpc[q] = "cursor"
  /\ Release(q)
  /\ QGoto(q, "failed")
  /\ UNCHANGED <<ask, todo, got, start, reply, server, ctx, rows, scratch>>

\* FindDuplicates' first query asks nobody why rs.Next() ended: it goes on with
\* the keys it has.
KeysCutShort(q) ==
  /\ qpc[q] = "cursor"
  /\ LET s    == Head(todo[q])
         tab  == Table(Visible)
         keys == Keys(s.stage, tab, ask[q].win)
     IN  /\ s.op = "keys"
         /\ \E m \in 0..Len(keys) :
              /\ Took(q, s, m, TRUE)
              /\ todo' = [todo EXCEPT ![q] =
                   FetchGroups(s.stage, SubSeq(keys, 1, m), tab) \o Tail(@)]
  /\ Release(q)
  /\ QGoto(q, "waiting")
  /\ UNCHANGED <<ask, start, reply, server, ctx, rows, scratch>>

-----------------------------------------------------------------------------
Outcome(q) ==
  CASE qpc[q] = "waiting" -> "ok"
    [] qpc[q] = "refused" -> Refusal(ask[q])
    [] qpc[q] = "failed"  -> IF ask[q].kind = "healthz" THEN "unavailable" ELSE "server_error"

\* respondJSON 200, or respondError; the client gets it or is gone.
AnswerQuery(q) ==
  /\ qpc[q] \in {"refused", "failed"} \/ (qpc[q] = "waiting" /\ todo[q] = <<>>)
  /\ \E a \in {Outcome(q), "lost"} : reply' = [reply EXCEPT ![q] = a]
  /\ QGoto(q, "answered")
  /\ UNCHANGED <<ask, todo, got, start, storeVars>>

CancelQuery(q) ==
  /\ Reporting(q)
  /\ CancelContext(q)
  /\ UNCHANGED reportVars

LoseReports ==
  /\ qpc' = [q \in Queries |-> IF Reporting(q) THEN "answered" ELSE qpc[q]]
  /\ reply' = [q \in Queries |-> IF Reporting(q) THEN "lost" ELSE reply[q]]
  /\ UNCHANGED <<ask, todo, got, start>>

Report(q) ==
  \/ OpenCursor(q) \/ OpenFails(q)
  \/ CloseCursor(q) \/ CursorFails(q) \/ KeysCutShort(q)
  \/ AnswerQuery(q)

ReportStep(q) == ReceiveQuery(q) \/ Report(q) \/ CancelQuery(q)

-----------------------------------------------------------------------------
(* CountsByWindow adds up what its statements returned. *)

Taken(q, stage, op) == {i \in DOMAIN got[q] : got[q][i].s.stage = stage /\ got[q][i].s.op = op}

CountOf(q, stage, op) == got[q][CHOOSE i \in Taken(q, stage, op) : TRUE].n

\* Mutant of DuplicateExtra: every row of a group counts as redundant.
DuplicateExtraAll(q, stage) ==
  MapThenSumSet(LAMBDA i : got[q][i].s.occ, Taken(q, stage, "rows"))

DuplicateExtra(q, stage) ==
  MapThenSumSet(LAMBDA i : got[q][i].s.occ - 1, Taken(q, stage, "rows"))

ReportedCounts(q) ==
  [orphaned |-> CountOf(q, "counts", "orphaned"),
   ghost    |-> CountOf(q, "counts", "ghost"),
   groups   |-> CountOf(q, "counts", "keys"),
   extra    |-> DuplicateExtra(q, "counts"),
   limbo    |-> CountOf(q, "counts", "limbo"),
   unique   |-> CountOf(q, "counts", "unique"),
   total    |-> CountOf(q, "counts", "total")]
=============================================================================
