----------------------------- MODULE Detection -----------------------------
(***************************************************************************)
(* The anomaly queries of internal/repository/sqlite, as operators over one *)
(* state of the transactions table.                                         *)
(*                                                                          *)
(* A table is a sequence of transactions: the position of a row is its      *)
(* AUTOINCREMENT id, so positions order rows by insertion.  occurred_at is  *)
(* an integer; the code compares fixed-width UTC text, which orders like    *)
(* the instants it prints.  A window is closed, and NoBound is a nil end.   *)
(***************************************************************************)
EXTENDS Domain, Sequences, FiniteSets, FiniteSetsExt

CONSTANTS NoBound,          \* a nil Window.From or Window.To
          PixThreshold,     \* PendingLimboThresholds, in units of occurred_at
          BoletoThreshold

ASSUME ThresholdsAssumption == PixThreshold \in Nat /\ BoletoThreshold \in Nat

\* Mutant of InWindow: the upper end is excluded.
InWindowHalfOpen(w, at) ==
  /\ w.from # NoBound => w.from <= at
  /\ w.to # NoBound => at < w.to

InWindow(w, at) ==
  /\ w.from # NoBound => w.from <= at
  /\ w.to # NoBound => at <= w.to

\* Window.Validate
WindowValid(w) == w.from # NoBound /\ w.to # NoBound => w.from <= w.to

-----------------------------------------------------------------------------
(* Rows are named by their ids. *)

Ids(tab) == DOMAIN tab

OfSource(tab, src) == {i \in Ids(tab) : tab[i].source = src}

TxOf(tab, ids) == {tab[i].id : i \in ids}

(***************************************************************************)
(* proc_latest keeps, per transaction, the processor row that is last by    *)
(* (occurred_at, id).                                                       *)
(***************************************************************************)
\* Mutant of ProcLatest: ordered by id alone, the row inserted last wins.
ProcLatestById(tab, i) ==
  /\ tab[i].source = "processor"
  /\ \A j \in OfSource(tab, "processor") : tab[j].id = tab[i].id => j <= i

ProcLatest(tab, i) ==
  /\ tab[i].source = "processor"
  /\ \A j \in OfSource(tab, "processor") :
       tab[j].id = tab[i].id =>
         tab[j].at < tab[i].at \/ (tab[j].at = tab[i].at /\ j <= i)

(***************************************************************************)
(* FindOrphanedApprovals: approved processor rows in the window whose       *)
(* transaction has no merchant row anywhere in the table; one result per    *)
(* transaction.                                                             *)
(***************************************************************************)
\* Mutant of OrphanRows: the window also limits the search for a merchant row.
OrphanRowsWindowed(tab, w) ==
  {i \in OfSource(tab, "processor") :
     /\ tab[i].status = "approved"
     /\ InWindow(w, tab[i].at)
     /\ tab[i].id \notin TxOf(tab, {j \in OfSource(tab, "merchant_order_system") :
                                     InWindow(w, tab[j].at)})}

\* Mutant of OrphanRows: only the processor's latest row counts.
OrphanRowsLatest(tab, w) ==
  {i \in OfSource(tab, "processor") :
     /\ tab[i].status = "approved"
     /\ ProcLatest(tab, i)
     /\ InWindow(w, tab[i].at)
     /\ tab[i].id \notin TxOf(tab, OfSource(tab, "merchant_order_system"))}

OrphanRows(tab, w) ==
  {i \in OfSource(tab, "processor") :
     /\ tab[i].status = "approved"
     /\ InWindow(w, tab[i].at)
     /\ tab[i].id \notin TxOf(tab, OfSource(tab, "merchant_order_system"))}

Orphaned(tab, w) == TxOf(tab, OrphanRows(tab, w))

(***************************************************************************)
(* FindGhostOrders: approved merchant rows in the window whose transaction  *)
(* has no processor row, or whose latest one is declined or failed.         *)
(***************************************************************************)
ProcDenies(tab, tx) ==
  \A i \in Ids(tab) :
    tab[i].id = tx /\ ProcLatest(tab, i) => tab[i].status \in {"declined", "failed"}

GhostRows(tab, w) ==
  {i \in OfSource(tab, "merchant_order_system") :
     /\ tab[i].status = "approved"
     /\ InWindow(w, tab[i].at)
     /\ ProcDenies(tab, tab[i].id)}

Ghosts(tab, w) == TxOf(tab, GhostRows(tab, w))

(***************************************************************************)
(* FindDuplicates: groups of more than one row with the same transaction    *)
(* and source, at least one row of which is in the window.  The first query *)
(* returns the keys and counts, fetchGroupRows the rows of one key.         *)
(***************************************************************************)
KeyOf(tab, i) == <<tab[i].id, tab[i].source>>

GroupRows(tab, k) == {i \in Ids(tab) : KeyOf(tab, i) = k}

\* Mutant of DuplicateKeys: HAVING COUNT(*) > 2.
DuplicateKeysOverTwo(tab, w) ==
  {k \in {KeyOf(tab, i) : i \in {j \in Ids(tab) : InWindow(w, tab[j].at)}} :
     Cardinality(GroupRows(tab, k)) > 2}

DuplicateKeys(tab, w) ==
  {k \in {KeyOf(tab, i) : i \in {j \in Ids(tab) : InWindow(w, tab[j].at)}} :
     Cardinality(GroupRows(tab, k)) > 1}

(***************************************************************************)
(* FindPendingLimbo: pending pix and boleto rows of the processor that      *)
(* occurred strictly before the cutoff now - threshold.                     *)
(***************************************************************************)
Cutoff(method, now) ==
  now - (IF method = "pix" THEN PixThreshold ELSE BoletoThreshold)

\* Mutant of LimboRows: a row counts only while it is the processor's latest.
LimboRowsLatest(tab, w, now) ==
  {i \in OfSource(tab, "processor") :
     /\ tab[i].status = "pending" /\ ProcLatest(tab, i)
     /\ tab[i].method \in {"pix", "boleto"}
     /\ tab[i].at < Cutoff(tab[i].method, now)
     /\ InWindow(w, tab[i].at)}

LimboRows(tab, w, now) ==
  {i \in OfSource(tab, "processor") :
     /\ tab[i].status = "pending"
     /\ tab[i].method \in {"pix", "boleto"}
     /\ tab[i].at < Cutoff(tab[i].method, now)
     /\ InWindow(w, tab[i].at)}

\* totalRowsInWindow and UniqueTransactionIDsCount
RowsInWindow(tab, w) == {i \in Ids(tab) : InWindow(w, tab[i].at)}

\* Mutant of UniqueIn: transactions only the merchant knows are not counted.
UniqueInProcessor(tab, w) == TxOf(tab, RowsInWindow(tab, w) \cap OfSource(tab, "processor"))

UniqueIn(tab, w) == TxOf(tab, RowsInWindow(tab, w))

(***************************************************************************)
(* CountsByWindow, had all its statements read this one table.              *)
(***************************************************************************)
Counts(tab, w, now) ==
  [orphaned |-> Cardinality(Orphaned(tab, w)),
   ghost    |-> Cardinality(Ghosts(tab, w)),
   groups   |-> Cardinality(DuplicateKeys(tab, w)),
   extra    |-> MapThenSumSet(LAMBDA k : Cardinality(GroupRows(tab, k)) - 1,
                              DuplicateKeys(tab, w)),
   limbo    |-> Cardinality(LimboRows(tab, w, now)),
   unique   |-> Cardinality(UniqueIn(tab, w)),
   total    |-> Cardinality(RowsInWindow(tab, w))]

(***************************************************************************)
(* computeScore.  The score is clamped to [0,1]; it is kept as the pair     *)
(* <<numerator, denominator>> of the float64 the code computes.             *)
(***************************************************************************)
\* Mutant of Score: redundant rows do not lower it.
ScoreWithoutExtra(c) ==
  LET anomalies == c.orphaned + c.ghost + c.limbo
  IN  IF c.unique = 0 THEN <<1, 1>>
      ELSE IF anomalies > c.unique THEN <<0, 1>>
      ELSE <<c.unique - anomalies, c.unique>>

Score(c) ==
  LET anomalies == c.orphaned + c.ghost + c.extra + c.limbo
  IN  IF c.unique = 0 THEN <<1, 1>>
      ELSE IF anomalies > c.unique THEN <<0, 1>>
      ELSE <<c.unique - anomalies, c.unique>>
=============================================================================
