------------------------------ MODULE Dataset ------------------------------
(***************************************************************************)
(* What the anomaly queries promise of a dataset that grows: rows arrive in *)
(* any order (a transaction's events may be ingested late or out of order)  *)
(* and the injected clock advances.  Rows are never updated or deleted.     *)
(***************************************************************************)
EXTENDS Detection

CONSTANTS Rows,      \* the transactions that may be ingested
          Times,     \* the ends a bounded window may have
          MaxRows,   \* bound: rows in the table
          MaxNow     \* bound: how far the clock advances

ASSUME InstantsAssumption ==
  /\ \A row \in Rows : row.at \in Int
  /\ Times \subseteq Int /\ NoBound \notin Int
  /\ MaxNow \in Nat

VARIABLES table, now

datasetVars == <<table, now>>

DatasetInit == table = <<>> /\ now = 0

\* Mutant of Insert: the row reaches the table without Validate.
InsertUnvalidated(row) ==
  /\ Len(table) < MaxRows
  /\ SchemaAccepts(row)
  /\ table' = Append(table, row)
  /\ UNCHANGED now

\* Single (or InsertBatch of one row): validation, then an INSERT.
Insert(row) ==
  /\ Len(table) < MaxRows
  /\ Valid(row) /\ SchemaAccepts(row)
  /\ table' = Append(table, row)
  /\ UNCHANGED now

\* clock.Fake.Advance, or the passing of real time between two requests.
Advance ==
  /\ now < MaxNow
  /\ now' = now + 1
  /\ UNCHANGED table

DatasetNext == (\E row \in Rows : Insert(row)) \/ Advance

DatasetSpec == DatasetInit /\ [][DatasetNext]_datasetVars

-----------------------------------------------------------------------------
Windows == {w \in [from : Times \cup {NoBound}, to : Times \cup {NoBound}] : WindowValid(w)}

Everything == [from |-> NoBound, to |-> NoBound]

\* Every stored row passed Validate (types.go, validation.go).
DatasetTypeOK ==
  /\ table \in Seq({row \in Rows : Valid(row)})
  /\ now \in 0..MaxNow

(* No transaction is reported as an orphaned approval and as a ghost order,  *)
(* whatever windows the two queries use: the first has no merchant row, the  *)
(* second has one (transactions.go FindOrphanedApprovals, FindGhostOrders).  *)
OrphanGhostDisjoint ==
  \A v, w \in Windows : Orphaned(table, v) \cap Ghosts(table, w) = {}

(* Cutting a window in two loses nothing and invents nothing: per-slice      *)
(* reports cover what the whole window reports (windowClause is closed at    *)
(* both ends, and counterpart rows are looked up in the whole dataset).      *)
WindowsSplit ==
  \A from, mid, to \in Times :
    from <= mid /\ mid < to =>
      LET whole == [from |-> from, to |-> to]
          left  == [from |-> from, to |-> mid]
          right == [from |-> mid + 1, to |-> to]
      IN  /\ Orphaned(table, whole) = Orphaned(table, left) \cup Orphaned(table, right)
          /\ Ghosts(table, whole) = Ghosts(table, left) \cup Ghosts(table, right)
          /\ DuplicateKeys(table, whole)
               = DuplicateKeys(table, left) \cup DuplicateKeys(table, right)
          /\ LimboRows(table, whole, now)
               = LimboRows(table, left, now) \cup LimboRows(table, right, now)

Swap(tab, i) == [tab EXCEPT ![i] = tab[i + 1], ![i + 1] = tab[i]]

(* Ingestion order does not matter, but for one case: two processor events   *)
(* of one transaction with the same occurred_at, which id DESC decides.      *)
(* Rows delivered late or out of order give the same anomalies.              *)
OrderIndependent ==
  \A i \in 1..(Len(table) - 1) :
    LET tied == /\ table[i].source = "processor" /\ table[i + 1].source = "processor"
                /\ table[i].id = table[i + 1].id /\ table[i].at = table[i + 1].at
        swapped == Swap(table, i)
    IN  ~tied => \A w \in Windows :
          /\ Counts(swapped, w, now) = Counts(table, w, now)
          /\ Ghosts(swapped, w) = Ghosts(table, w)

(* Over the whole dataset the extra rows of duplicate groups are the rows    *)
(* that a UNIQUE (transaction_id, source) would have refused, as the health  *)
(* score counts them (CountsByWindow).                                       *)
ExtraRowsAreRedundant ==
  LET c == Counts(table, Everything, now)
  IN  c.extra = c.total - Cardinality({KeyOf(table, i) : i \in Ids(table)})

(* A health score of 1 and a report without anomalies are the same thing: no *)
(* anomaly escapes the score through an empty denominator or a group with no *)
(* redundant row (computeScore, CountsByWindow).                             *)
PerfectIffClean ==
  \A w \in Windows :
    LET c == Counts(table, w, now)
        s == Score(c)
    IN  s[1] = s[2] <=> c.orphaned + c.ghost + c.groups + c.limbo = 0

(* An orphaned approval is cleared only by a merchant row of its own         *)
(* transaction, whatever the window (NOT EXISTS in FindOrphanedApprovals).   *)
MerchantClears ==
  \A w \in Windows : \A tx \in Orphaned(table, w) \ Orphaned(table', w) :
    \E i \in Ids(table') \ Ids(table) :
      table'[i].id = tx /\ table'[i].source = "merchant_order_system"

OrphanClearedByMerchant == [][MerchantClears]_datasetVars

(* A ghost order is cleared only by a processor row of its transaction that  *)
(* is not older than any before it and does not deny the payment: a late,    *)
(* older approval changes nothing (proc_latest in FindGhostOrders).          *)
NewestClears ==
  \A w \in Windows : \A tx \in Ghosts(table, w) \ Ghosts(table', w) :
    \E i \in Ids(table') \ Ids(table) :
      /\ table'[i].id = tx /\ table'[i].source = "processor"
      /\ table'[i].status \notin {"declined", "failed"}
      /\ \A j \in OfSource(table, "processor") :
           table[j].id = tx => table[j].at <= table'[i].at

GhostClearedByNewest == [][NewestClears]_datasetVars

(* Nothing ever leaves pending limbo, neither a later status of the same     *)
(* transaction nor time: FindPendingLimbo looks at the pending row alone.    *)
LimboStays ==
  \A w \in Windows : LimboRows(table, w, now) \subseteq LimboRows(table', w, now')

LimboNeverClears == [][LimboStays]_datasetVars
=============================================================================
