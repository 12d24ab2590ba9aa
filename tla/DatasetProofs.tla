--------------------------- MODULE DatasetProofs ---------------------------
(***************************************************************************)
(* Theorems about the anomaly queries over a growing dataset, for any rows, *)
(* any windows and any thresholds, and about the alerts over it, for any    *)
(* environments the process may be started in.                              *)
(***************************************************************************)
EXTENDS Alerts, DetectionProofs

(* No step stores a row that Validate refuses.                               *)
LEMMA DatasetStepTypes ==
  ASSUME DatasetTypeOK, [DatasetNext]_datasetVars
  PROVE  DatasetTypeOK'
<1>1. ASSUME NEW row \in Rows, Insert(row) PROVE DatasetTypeOK'
  BY <1>1 DEF Insert, DatasetTypeOK
<1>2. CASE Advance
  BY <1>2, InstantsAssumption DEF Advance, DatasetTypeOK
<1>3. CASE UNCHANGED datasetVars
  BY <1>3 DEF datasetVars, DatasetTypeOK
<1> QED
  BY <1>1, <1>2, <1>3 DEF DatasetNext

(* Every stored row passed Validate.                                         *)
THEOREM DatasetTypes == DatasetSpec => []DatasetTypeOK
<1>1. DatasetInit => DatasetTypeOK
  BY InstantsAssumption DEF DatasetInit, DatasetTypeOK
<1> QED
  BY <1>1, DatasetStepTypes, PTL DEF DatasetSpec

(* No step changes or removes a row, and time does not go back.              *)
LEMMA DatasetGrows ==
  ASSUME DatasetTypeOK, [DatasetNext]_datasetVars
  PROVE  /\ table \in Seq(Rows) /\ table' \in Seq(Rows)
         /\ Ids(table) \subseteq Ids(table')
         /\ \A i \in Ids(table) : table'[i] = table[i]
         /\ \A i \in Ids(table') \ Ids(table) : i \in Nat /\ \A j \in Ids(table) : j < i
         /\ \A i, j \in Ids(table') \ Ids(table) : i = j
         /\ now \in Int /\ now' \in Int /\ now <= now'
<1>1. table \in Seq(Rows) /\ now \in 0..MaxNow
  BY DEF DatasetTypeOK
<1>2. ASSUME NEW row \in Rows, table' = Append(table, row)
      PROVE  /\ table' \in Seq(Rows)
             /\ Ids(table) \subseteq Ids(table')
             /\ \A i \in Ids(table) : table'[i] = table[i]
             /\ \A i \in Ids(table') \ Ids(table) : i = Len(table) + 1
             /\ \A j \in Ids(table) : j < Len(table) + 1
  BY <1>1, <1>2 DEF Ids
<1>3. CASE \E row \in Rows : Insert(row)
  <2>1. PICK row \in Rows : Insert(row)
    BY <1>3
  <2>2. table' = Append(table, row) /\ now' = now
    BY <2>1 DEF Insert
  <2>3. Len(table) + 1 \in Nat /\ now \in Int
    BY <1>1, InstantsAssumption
  <2>4. /\ table' \in Seq(Rows)
        /\ Ids(table) \subseteq Ids(table')
        /\ \A i \in Ids(table) : table'[i] = table[i]
        /\ \A i \in Ids(table') \ Ids(table) : i = Len(table) + 1
        /\ \A j \in Ids(table) : j < Len(table) + 1
    BY <1>2, <2>2
  <2>5. \A i \in Ids(table') \ Ids(table) : i \in Nat /\ \A j \in Ids(table) : j < i
    BY <2>3, <2>4
  <2>6. \A i, j \in Ids(table') \ Ids(table) : i = j
    BY <2>4
  <2>7. now' \in Int /\ now <= now'
    BY <2>2, <2>3
  <2> QED
    BY <1>1, <2>3, <2>4, <2>5, <2>6, <2>7
<1>4. CASE Advance \/ UNCHANGED datasetVars
  BY <1>1, <1>4, InstantsAssumption DEF Advance, datasetVars
<1> QED
  BY <1>3, <1>4 DEF DatasetNext

-----------------------------------------------------------------------------
(* An orphaned approval has no merchant row and a ghost order has one, so no *)
(* transaction is both, in any two windows.                                  *)
THEOREM NeverOrphanAndGhost == DatasetSpec => []OrphanGhostDisjoint
<1>1. OrphanGhostDisjoint
  <2> SUFFICES ASSUME NEW v \in Windows, NEW w \in Windows,
                      NEW tx \in Orphaned(table, v), tx \in Ghosts(table, w)
               PROVE  FALSE
    BY DEF OrphanGhostDisjoint
  <2>1. tx \notin TxOf(table, OfSource(table, "merchant_order_system"))
    BY DEF Orphaned, OrphanRows, TxOf
  <2>2. tx \in TxOf(table, OfSource(table, "merchant_order_system"))
    BY DEF Ghosts, GhostRows, TxOf
  <2> QED
    BY <2>1, <2>2
<1> QED
  BY <1>1, PTL

(* A closed window is the disjoint union of the two it is cut into.          *)
LEMMA WindowSplit ==
  ASSUME NEW from \in Times, NEW mid \in Times, NEW to \in Times, from <= mid, mid < to,
         NEW at \in Int
  PROVE  InWindow([from |-> from, to |-> to], at)
           <=> \/ InWindow([from |-> from, to |-> mid], at)
               \/ InWindow([from |-> mid + 1, to |-> to], at)
<1>1. /\ from \in Int /\ mid \in Int /\ to \in Int /\ mid + 1 \in Int
      /\ from # NoBound /\ mid # NoBound /\ to # NoBound /\ mid + 1 # NoBound
  BY InstantsAssumption
<1>2. InWindow([from |-> from, to |-> to], at) <=> from <= at /\ at <= to
  BY <1>1 DEF InWindow
<1>3. InWindow([from |-> from, to |-> mid], at) <=> from <= at /\ at <= mid
  BY <1>1 DEF InWindow
<1>4. InWindow([from |-> mid + 1, to |-> to], at) <=> mid + 1 <= at /\ at <= to
  BY <1>1 DEF InWindow
<1> QED
  BY <1>1, <1>2, <1>3, <1>4

(* What a window is the union of, its report is the union of.                *)
LEMMA ReportOfUnion ==
  ASSUME DatasetTypeOK, NEW whole, NEW left, NEW right,
         \A at \in Int : InWindow(whole, at) <=> InWindow(left, at) \/ InWindow(right, at)
  PROVE  /\ Orphaned(table, whole) = Orphaned(table, left) \cup Orphaned(table, right)
         /\ Ghosts(table, whole) = Ghosts(table, left) \cup Ghosts(table, right)
         /\ DuplicateKeys(table, whole)
              = DuplicateKeys(table, left) \cup DuplicateKeys(table, right)
         /\ LimboRows(table, whole, now)
              = LimboRows(table, left, now) \cup LimboRows(table, right, now)
<1>1. \A i \in Ids(table) : table[i].at \in Int
  BY InstantsAssumption DEF DatasetTypeOK, Ids
<1>2. \A i \in Ids(table) : InWindow(whole, table[i].at)
                              <=> InWindow(left, table[i].at) \/ InWindow(right, table[i].at)
  BY <1>1
<1>3. Orphaned(table, whole) = Orphaned(table, left) \cup Orphaned(table, right)
  BY <1>2 DEF Orphaned, OrphanRows, OfSource, TxOf
<1>4. Ghosts(table, whole) = Ghosts(table, left) \cup Ghosts(table, right)
  BY <1>2 DEF Ghosts, GhostRows, OfSource, TxOf
<1>5. DuplicateKeys(table, whole) = DuplicateKeys(table, left) \cup DuplicateKeys(table, right)
  BY <1>2 DEF DuplicateKeys
<1>6. LimboRows(table, whole, now) = LimboRows(table, left, now) \cup LimboRows(table, right, now)
  BY <1>2 DEF LimboRows, OfSource
<1> QED
  BY <1>3, <1>4, <1>5, <1>6

(* Reports over the two halves of a window find what the report over the     *)
(* whole window finds.                                                       *)
THEOREM ReportsSplit == DatasetSpec => []WindowsSplit
<1>1. ASSUME DatasetTypeOK, NEW from \in Times, NEW mid \in Times, NEW to \in Times,
             from <= mid, mid < to,
             NEW whole, whole = [from |-> from, to |-> to],
             NEW left, left = [from |-> from, to |-> mid],
             NEW right, right = [from |-> mid + 1, to |-> to]
      PROVE  /\ Orphaned(table, whole) = Orphaned(table, left) \cup Orphaned(table, right)
             /\ Ghosts(table, whole) = Ghosts(table, left) \cup Ghosts(table, right)
             /\ DuplicateKeys(table, whole)
                  = DuplicateKeys(table, left) \cup DuplicateKeys(table, right)
             /\ LimboRows(table, whole, now)
                  = LimboRows(table, left, now) \cup LimboRows(table, right, now)
  <2>1. \A at \in Int : InWindow(whole, at) <=> InWindow(left, at) \/ InWindow(right, at)
    BY <1>1, WindowSplit
  <2>2. DatasetTypeOK
    BY <1>1
  <2> QED
    BY ONLY <2>1, <2>2, ReportOfUnion
<1>2. DatasetTypeOK => WindowsSplit
  BY <1>1 DEF WindowsSplit
<1> QED
  BY <1>2, DatasetTypes, PTL

-----------------------------------------------------------------------------
(* In one step, an orphaned approval is cleared by a merchant row of its     *)
(* transaction only.                                                         *)
LEMMA MerchantStep ==
  ASSUME DatasetTypeOK, [DatasetNext]_datasetVars
  PROVE  MerchantClears
<1> SUFFICES ASSUME NEW w \in Windows,
                    NEW tx \in Orphaned(table, w), tx \notin Orphaned(table', w)
             PROVE  \E i \in Ids(table') \ Ids(table) :
                      table'[i].id = tx /\ table'[i].source = "merchant_order_system"
  BY DEF MerchantClears
<1>1. /\ Ids(table) \subseteq Ids(table')
      /\ \A i \in Ids(table) : table'[i] = table[i]
  BY DatasetGrows
<1>2. PICK i \in OrphanRows(table, w) : table[i].id = tx
  BY DEF Orphaned, TxOf
<1>3. i \in Ids(table) /\ tx \notin TxOf(table, OfSource(table, "merchant_order_system"))
  BY <1>2 DEF OrphanRows, OfSource
<1>4. i \notin OrphanRows(table', w)
  BY <1>1, <1>2, <1>3 DEF Orphaned, TxOf
<1>5. tx \in TxOf(table', OfSource(table', "merchant_order_system"))
  BY <1>1, <1>2, <1>3, <1>4 DEF OrphanRows, OfSource
<1>6. PICK j \in Ids(table') : table'[j].id = tx /\ table'[j].source = "merchant_order_system"
  BY <1>5 DEF TxOf, OfSource
<1>7. j \notin Ids(table)
  BY <1>1, <1>3, <1>6 DEF TxOf, OfSource
<1> QED
  BY <1>6, <1>7

(* An orphaned approval is cleared by a merchant row of its transaction only. *)
THEOREM OnlyMerchantClearsOrphans == DatasetSpec => OrphanClearedByMerchant
<1>1. DatasetTypeOK /\ [DatasetNext]_datasetVars => [MerchantClears]_datasetVars
  BY MerchantStep
<1> QED
  BY <1>1, DatasetTypes, PTL DEF DatasetSpec, OrphanClearedByMerchant

(* In one step, a ghost order is cleared by a newest row only.               *)
LEMMA NewestStep ==
  ASSUME DatasetTypeOK, [DatasetNext]_datasetVars
  PROVE  NewestClears
<1> SUFFICES ASSUME NEW w \in Windows,
                    NEW tx \in Ghosts(table, w), tx \notin Ghosts(table', w)
             PROVE  \E i \in Ids(table') \ Ids(table) :
                      /\ table'[i].id = tx /\ table'[i].source = "processor"
                      /\ table'[i].status \notin {"declined", "failed"}
                      /\ \A j \in OfSource(table, "processor") :
                           table[j].id = tx => table[j].at <= table'[i].at
  BY DEF NewestClears
<1>1. /\ Ids(table) \subseteq Ids(table')
      /\ \A i \in Ids(table) : table'[i] = table[i]
      /\ table \in Seq(Rows) /\ table' \in Seq(Rows)
  BY DatasetGrows
<1>2. PICK g \in GhostRows(table, w) : table[g].id = tx
  BY DEF Ghosts, TxOf
<1>3. g \in Ids(table) /\ ProcDenies(table, tx) /\ g \in Ids(table')
  BY <1>1, <1>2 DEF GhostRows, OfSource
<1>4. g \notin GhostRows(table', w)
  BY <1>1, <1>2, <1>3 DEF Ghosts, TxOf
<1>5. ~ProcDenies(table', tx)
  BY <1>1, <1>2, <1>3, <1>4 DEF GhostRows, OfSource
<1>6. PICK n \in Ids(table') : /\ table'[n].id = tx /\ ProcLatest(table', n)
                               /\ table'[n].status \notin {"declined", "failed"}
  BY <1>5 DEF ProcDenies
<1>7. n \notin Ids(table)
  <2> SUFFICES ASSUME n \in Ids(table) PROVE FALSE
    OBVIOUS
  <2>1. ProcLatest(table, n)
    BY <1>1, <1>6 DEF ProcLatest, OfSource
  <2> QED
    BY <1>1, <1>3, <1>6, <2>1 DEF ProcDenies
<1>8. ASSUME NEW j \in OfSource(table, "processor"), table[j].id = tx
      PROVE  table[j].at <= table'[n].at
  <2>1. j \in Ids(table) /\ j \in OfSource(table', "processor") /\ table'[j].id = tx
    BY <1>1, <1>8 DEF OfSource
  <2>2. table'[j].at \in Int /\ table'[n].at \in Int
    BY <1>1, <1>6, <2>1, InstantsAssumption DEF Ids, OfSource
  <2>3. table'[j].at < table'[n].at \/ table'[j].at = table'[n].at
    BY <1>6, <2>1 DEF ProcLatest
  <2> QED
    BY <1>1, <2>1, <2>2, <2>3
<1> QED
  BY <1>6, <1>7, <1>8 DEF ProcLatest

(* A ghost order is cleared only by a processor row that is not older than   *)
(* the others and does not deny the payment.                                 *)
THEOREM OnlyNewestClearsGhosts == DatasetSpec => GhostClearedByNewest
<1>1. DatasetTypeOK /\ [DatasetNext]_datasetVars => [NewestClears]_datasetVars
  BY NewestStep
<1> QED
  BY <1>1, DatasetTypes, PTL DEF DatasetSpec, GhostClearedByNewest

(* What is in pending limbo stays there.                                     *)
THEOREM LimboIsForever == DatasetSpec => LimboNeverClears
<1>1. DatasetTypeOK /\ [DatasetNext]_datasetVars => [LimboStays]_datasetVars
  <2> SUFFICES ASSUME DatasetTypeOK, [DatasetNext]_datasetVars, NEW w \in Windows,
                      NEW i \in LimboRows(table, w, now)
               PROVE  i \in LimboRows(table', w, now')
    BY DEF LimboStays
  <2>1. /\ Ids(table) \subseteq Ids(table')
        /\ \A k \in Ids(table) : table'[k] = table[k]
        /\ table \in Seq(Rows)
        /\ now \in Int /\ now' \in Int /\ now <= now'
    BY DatasetGrows
  <2>2. i \in Ids(table) /\ table[i].at < Cutoff(table[i].method, now) /\ table[i].at \in Int
    BY <2>1, InstantsAssumption DEF LimboRows, OfSource, Ids
  <2>3. table[i].at < Cutoff(table[i].method, now')
    BY <2>1, <2>2, ThresholdsAssumption DEF Cutoff
  <2> QED
    BY <2>1, <2>2, <2>3 DEF LimboRows, OfSource
<1> QED
  BY <1>1, DatasetTypes, PTL DEF DatasetSpec, LimboNeverClears
-----------------------------------------------------------------------------
(* The table is finite, so everything found in it can be counted.            *)
LEMMA TableFinite ==
  ASSUME DatasetTypeOK
  PROVE  table \in Seq(Rows) /\ Ids(table) = 1..Len(table) /\ IsFiniteSet(Ids(table))
<1>1. table \in Seq(Rows) /\ Len(table) \in Nat /\ Ids(table) = 1..Len(table)
  BY DEF DatasetTypeOK, Ids
<1> QED
  BY <1>1, FS_Interval

(* The health score of a window is 1 if and only if it has no anomaly.       *)
THEOREM PerfectMeansClean == DatasetSpec => []PerfectIffClean
<1>1. DatasetTypeOK => PerfectIffClean
  BY TableFinite, ScoreProperties DEF PerfectIffClean
<1> QED
  BY <1>1, DatasetTypes, PTL
(* The redundant rows of the whole dataset are those a UNIQUE constraint on  *)
(* transaction and source would have refused.                                *)
THEOREM ExtraMeansRedundant == DatasetSpec => []ExtraRowsAreRedundant
<1>1. DatasetTypeOK => ExtraRowsAreRedundant
  <2> SUFFICES ASSUME DatasetTypeOK PROVE ExtraRowsAreRedundant
    OBVIOUS
  <2> DEFINE all == {KeyOf(table, i) : i \in Ids(table)}
             c == Counts(table, Everything, now)
  <2>1. IsFiniteSet(Ids(table))
    BY TableFinite
  <2>2. \A at : InWindow(Everything, at)
    BY DEF InWindow, Everything
  <2>3. /\ Cardinality(all) \in Nat
        /\ Cardinality(Ids(table)) = Cardinality(all) + ExtraOf(table, DuplicateKeys(table, Everything))
    BY <2>1, <2>2, ExtraOfWholeTable
  <2>4. /\ c.extra = ExtraOf(table, DuplicateKeys(table, Everything)) /\ c.extra \in Nat
        /\ c.total = Cardinality(RowsInWindow(table, Everything))
    BY <2>1, CountsAreNumbers
  <2>5. RowsInWindow(table, Everything) = Ids(table)
    BY <2>2 DEF RowsInWindow
  <2>6. c.extra = c.total - Cardinality(all)
    BY <2>3, <2>4, <2>5
  <2> QED
    BY <2>6 DEF ExtraRowsAreRedundant
<1> QED
  BY <1>1, DatasetTypes, PTL
-----------------------------------------------------------------------------
(* Ingestion order. *)

(* Two neighbours that no query compares by id may change places.            *)
LEMMA SwapKeepsLatest ==
  ASSUME DatasetTypeOK, NEW i \in 1..(Len(table) - 1), NEW swapped, swapped = Swap(table, i),
         ~ /\ table[i].source = "processor" /\ table[i + 1].source = "processor"
           /\ table[i].id = table[i + 1].id /\ table[i].at = table[i + 1].at,
         NEW from,
         from = [j \in Ids(table) |-> IF j = i THEN i + 1 ELSE IF j = i + 1 THEN i ELSE j]
  PROVE  /\ Reordered(swapped, table, from)
         /\ \A j \in Ids(table) : ProcLatest(swapped, j) <=> ProcLatest(table, from[j])
<1> DEFINE ids == Ids(table)
<1>1. /\ table \in Seq(Rows) /\ Len(table) \in Nat /\ ids = 1..Len(table)
      /\ i \in ids /\ i + 1 \in ids /\ i \in Nat
  BY DEF DatasetTypeOK, Ids
<1>2. /\ Ids(swapped) = ids
      /\ \A j \in ids : from[j] \in ids /\ from[from[j]] = j /\ swapped[j] = table[from[j]]
  BY <1>1 DEF Swap, Ids
<1>3. from \in Bijection(ids, ids)
  <2>1. from \in [ids -> ids]
    BY <1>1
  <2> QED
    BY <1>2, <2>1 DEF Bijection, Injection, Surjection, IsInjective
<1>4. Reordered(swapped, table, from)
  BY <1>2, <1>3 DEF Reordered
<1> DEFINE Rivals(t, j, k) == /\ t[j].source = "processor" /\ t[k].source = "processor"
                              /\ t[j].id = t[k].id /\ t[j].at = t[k].at
<1>5. ASSUME NEW j \in ids, NEW k \in ids, Rivals(table, from[j], from[k])
      PROVE  k <= j <=> from[k] <= from[j]
  <2>1. ~Rivals(table, i, i + 1) /\ ~Rivals(table, i + 1, i)
    OBVIOUS
  <2>2. ~(j = i /\ k = i + 1) /\ ~(j = i + 1 /\ k = i)
    BY <1>1, <1>5, <2>1
  <2> HIDE DEF Rivals
  <2> QED
    BY <1>1, <2>2
<1>6. ASSUME NEW j \in ids
      PROVE  ProcLatest(swapped, j) <=> ProcLatest(table, from[j])
  <2> HIDE DEF ids
  <2>0. j \in ids /\ Ids(table) = ids
    BY DEF ids
  <2>1. ProcLatest(swapped, j)
          <=> /\ table[from[j]].source = "processor"
              /\ \A k \in ids :
                   table[from[k]].source = "processor" /\ table[from[k]].id = table[from[j]].id =>
                     \/ table[from[k]].at < table[from[j]].at
                     \/ table[from[k]].at = table[from[j]].at /\ k <= j
    BY ONLY <1>2, <2>0 DEF ProcLatest, OfSource
  <2>2. ProcLatest(table, from[j])
          <=> /\ table[from[j]].source = "processor"
              /\ \A k \in ids :
                   table[from[k]].source = "processor" /\ table[from[k]].id = table[from[j]].id =>
                     \/ table[from[k]].at < table[from[j]].at
                     \/ table[from[k]].at = table[from[j]].at /\ from[k] <= from[j]
    <3>1. \A k \in ids : from[k] \in ids /\ from[from[k]] = k
      BY <1>2
    <3> QED
      BY ONLY <2>0, <3>1 DEF ProcLatest, OfSource
  <2>3. \A k \in ids : Rivals(table, from[j], from[k]) => (k <= j <=> from[k] <= from[j])
    BY <1>5
  <2> QED
    BY <2>1, <2>2, <2>3
<1> QED
  BY <1>4, <1>6

(* The anomalies of a dataset do not depend on the order it was ingested in, *)
(* but where two processor events of a transaction have the same instant.    *)
THEOREM OrderIsIrrelevant == DatasetSpec => []OrderIndependent
<1>1. DatasetTypeOK => OrderIndependent
  <2> SUFFICES ASSUME DatasetTypeOK, NEW i \in 1..(Len(table) - 1),
                      ~ /\ table[i].source = "processor" /\ table[i + 1].source = "processor"
                        /\ table[i].id = table[i + 1].id /\ table[i].at = table[i + 1].at,
                      NEW w \in Windows
               PROVE  /\ Counts(Swap(table, i), w, now) = Counts(table, w, now)
                      /\ Ghosts(Swap(table, i), w) = Ghosts(table, w)
    BY DEF OrderIndependent
  <2> DEFINE swapped == Swap(table, i)
             from == [j \in Ids(table) |-> IF j = i THEN i + 1 ELSE IF j = i + 1 THEN i ELSE j]
  <2>1. /\ Reordered(swapped, table, from)
        /\ \A j \in Ids(table) : ProcLatest(swapped, j) <=> ProcLatest(table, from[j])
    BY SwapKeepsLatest
  <2>2. IsFiniteSet(Ids(table))
    BY TableFinite
  <2> HIDE DEF swapped, from
  <2>3. Counts(swapped, w, now) = Counts(table, w, now) /\ Ghosts(swapped, w) = Ghosts(table, w)
    BY <2>1, <2>2, OrderDoesNotMatter
  <2> QED
    BY <2>3 DEF swapped
<1> QED
  BY <1>1, DatasetTypes, PTL

-----------------------------------------------------------------------------
(* What Load accepts. *)

(* Where FirstOf finds nothing, there is nothing.                            *)
LEMMA NothingFound ==
  ASSUME NEW list, NEW n \in Nat, DOMAIN list = 1..n, \A i \in 1..n : list[i] # "",
         NEW bad, FirstOf(list, bad) = ""
  PROVE  \A i \in 1..n : list[i] \notin bad
<1> DEFINE found == {i \in 1..n : list[i] \in bad}
<1> SUFFICES ASSUME found # {} PROVE FALSE
  OBVIOUS
<1>1. found \subseteq 1..n
  OBVIOUS
<1> HIDE DEF found
<1>2. found \subseteq Nat
  BY ONLY <1>1
<1>3. \E i \in found : \A j \in found : i <= j
  BY <1>2, LeastNumber
<1> DEFINE first == CHOOSE k \in found : \A j \in found : k <= j
<1>4. first \in found
  BY <1>3
<1>5. FirstOf(list, bad) = list[first]
  BY <1>3 DEF FirstOf, found
<1> HIDE DEF first
<1> QED
  BY <1>4, <1>5 DEF found

(* A process serves only with thresholds that make sense: a minimum score    *)
(* between 0 and 1, unless it is no number, no negative count, and limbo     *)
(* thresholds that are numbers.                                              *)
LEMMA ServedThresholds ==
  ASSUME NEW c \in Served
  PROVE  /\ c["ALERT_ORPHANED_THRESHOLD"] \in Nat
         /\ c["ALERT_GHOST_THRESHOLD"] \in Nat
         /\ c["ALERT_HEALTH_MIN"] \in 0..100 \cup {NaN}
         /\ NaN \notin Int
         /\ c["PIX_PENDING_THRESHOLD"] \in Int /\ c["BOLETO_PENDING_THRESHOLD"] \in Int
<1>1. PICK env \in Environments : LoadError(env) = "" /\ c = Loaded(env)
  BY DEF Served
<1> DEFINE unparsed == {s \in Settings : ~Parses(s, env[s])}
           outside == {s \in Settings : OutOfRange(s, Value(env, s))}
           Limbo == {"PIX_PENDING_THRESHOLD", "BOLETO_PENDING_THRESHOLD"}
           Alert == {"ALERT_ORPHANED_THRESHOLD", "ALERT_GHOST_THRESHOLD", "ALERT_HEALTH_MIN"} \cup Limbo
<1>2. FirstOf(Parsed, unparsed) = "" /\ FirstOf(Checked, outside) = ""
  BY <1>1 DEF LoadError
<1>3. /\ DOMAIN Parsed = 1..10 /\ DOMAIN Checked = 1..10
      /\ \A i \in 1..10 : Parsed[i] # "" /\ Checked[i] # ""
  <2>1. /\ Parsed[1] # "" /\ Parsed[2] # "" /\ Parsed[3] # "" /\ Parsed[4] # "" /\ Parsed[5] # ""
        /\ Parsed[6] # "" /\ Parsed[7] # "" /\ Parsed[8] # "" /\ Parsed[9] # "" /\ Parsed[10] # ""
    BY DEF Parsed
  <2>2. /\ Checked[1] # "" /\ Checked[2] # "" /\ Checked[3] # "" /\ Checked[4] # "" /\ Checked[5] # ""
        /\ Checked[6] # "" /\ Checked[7] # "" /\ Checked[8] # "" /\ Checked[9] # "" /\ Checked[10] # ""
    BY DEF Checked
  <2>3. \A i \in 1..10 : \/ i = 1 \/ i = 2 \/ i = 3 \/ i = 4 \/ i = 5
                         \/ i = 6 \/ i = 7 \/ i = 8 \/ i = 9 \/ i = 10
    OBVIOUS
  <2>4. DOMAIN Parsed = 1..10 /\ DOMAIN Checked = 1..10
    BY DEF Parsed, Checked
  <2> QED
    BY <2>1, <2>2, <2>3, <2>4
<1> HIDE DEF unparsed, outside
<1>4. /\ \A i \in 1..10 : Parsed[i] \notin unparsed
      /\ \A i \in 1..10 : Checked[i] \notin outside
  BY <1>2, <1>3, NothingFound
<1>5. /\ Parsed[4] = "ALERT_ORPHANED_THRESHOLD" /\ Parsed[5] = "ALERT_GHOST_THRESHOLD"
      /\ Parsed[6] = "ALERT_HEALTH_MIN" /\ Checked[8] = "ALERT_HEALTH_MIN"
      /\ Checked[9] = "ALERT_ORPHANED_THRESHOLD" /\ Checked[10] = "ALERT_GHOST_THRESHOLD"
      /\ Parsed[2] = "PIX_PENDING_THRESHOLD" /\ Parsed[3] = "BOLETO_PENDING_THRESHOLD"
      /\ Checked[2] = "PIX_PENDING_THRESHOLD" /\ Checked[3] = "BOLETO_PENDING_THRESHOLD"
  BY DEF Parsed, Checked
<1>6. Alert \subseteq Settings
  <2>1. \A s \in Alert : \E i \in 1..10 : Parsed[i] = s
    BY <1>5
  <2> QED
    BY <1>3, <2>1 DEF Settings
<1>7. \A s \in Alert : s \notin unparsed /\ s \notin outside
  BY <1>4, <1>5
<1>8. \A s \in Alert : Parses(s, env[s]) /\ ~OutOfRange(s, Value(env, s))
  BY <1>6, <1>7 DEF unparsed, outside
<1>9. \A s \in Alert : /\ env[s] \in Int \cup {Unset, Garbage, NaN} /\ Default[s] \in Int
                       /\ c[s] = Value(env, s)
  BY <1>1, <1>6, EnvironmentsAssumption DEF Loaded
<1>10. Unset \notin Int /\ Garbage \notin Int /\ NaN \notin Int
  BY EnvironmentsAssumption
<1>11. \A s \in Alert : c[s] \in Int \cup {NaN} /\ (c[s] = NaN => s = "ALERT_HEALTH_MIN")
  BY <1>8, <1>9, <1>10 DEF Parses, Value
<1>12. /\ ~OutOfRange("ALERT_ORPHANED_THRESHOLD", c["ALERT_ORPHANED_THRESHOLD"])
       /\ ~OutOfRange("ALERT_GHOST_THRESHOLD", c["ALERT_GHOST_THRESHOLD"])
       /\ ~OutOfRange("ALERT_HEALTH_MIN", c["ALERT_HEALTH_MIN"])
  BY <1>8, <1>9
<1>13. /\ ~(c["ALERT_ORPHANED_THRESHOLD"] < 0) /\ ~(c["ALERT_GHOST_THRESHOLD"] < 0)
       /\ ~FloatLess(c["ALERT_HEALTH_MIN"], 0) /\ ~FloatLess(100, c["ALERT_HEALTH_MIN"])
  BY <1>12 DEF OutOfRange, Durations
<1> QED
  BY <1>10, <1>11, <1>13 DEF FloatLess

-----------------------------------------------------------------------------
(* The counts a configured process takes.                                    *)
LEMMA LimboFinite ==
  ASSUME NEW c, NEW tab, IsFiniteSet(Ids(tab)), NEW w, NEW at
  PROVE  /\ IsFiniteSet(LimboUnder(c, tab, w, at)) /\ Cardinality(LimboUnder(c, tab, w, at)) \in Nat
         /\ UniqueIn(tab, w) = {} => LimboUnder(c, tab, w, at) = {}
<1>1. LimboUnder(c, tab, w, at) \subseteq Ids(tab)
  BY DEF LimboUnder, OfSource
<1>2. LimboUnder(c, tab, w, at) \subseteq RowsInWindow(tab, w)
  BY DEF LimboUnder, OfSource, RowsInWindow
<1>3. UniqueIn(tab, w) = {} => RowsInWindow(tab, w) = {}
  BY DEF UniqueIn, TxOf
<1> QED
  BY <1>1, <1>2, <1>3, FS_Subset, FS_CardinalityType

LEMMA ConfiguredCounts ==
  ASSUME NEW c, NEW tab, IsFiniteSet(Ids(tab)), NEW w, NEW at,
         NEW counts, counts = Configured(c, Counts(tab, w, at), tab, w, at)
  PROVE  /\ AreCounts(counts)
         /\ counts.orphaned = Cardinality(Orphaned(tab, w))
         /\ counts.ghost = Cardinality(Ghosts(tab, w))
         /\ counts.extra = ExtraOf(tab, DuplicateKeys(tab, w))
         /\ counts.limbo = Cardinality(LimboUnder(c, tab, w, at))
         /\ counts.unique = Cardinality(UniqueIn(tab, w))
         /\ counts.extra = 0 <=> counts.groups = 0
         /\ counts.unique = 0 =>
              counts.orphaned = 0 /\ counts.ghost = 0 /\ counts.groups = 0 /\ counts.limbo = 0
<1> DEFINE plain == Counts(tab, w, at)
<1>1. /\ counts.orphaned = plain.orphaned /\ counts.ghost = plain.ghost
      /\ counts.groups = plain.groups /\ counts.extra = plain.extra
      /\ counts.unique = plain.unique
      /\ counts.limbo = Cardinality(LimboUnder(c, tab, w, at))
  BY DEF Configured, Counts
<1>2. /\ plain.orphaned = Cardinality(Orphaned(tab, w)) /\ plain.orphaned \in Nat
      /\ plain.ghost = Cardinality(Ghosts(tab, w)) /\ plain.ghost \in Nat
      /\ plain.groups \in Nat
      /\ plain.extra = ExtraOf(tab, DuplicateKeys(tab, w)) /\ plain.extra \in Nat
      /\ plain.unique = Cardinality(UniqueIn(tab, w)) /\ plain.unique \in Nat
  BY CountsAreNumbers
<1>3. /\ plain.extra = 0 <=> plain.groups = 0
      /\ plain.unique = 0 => plain.orphaned = 0 /\ plain.ghost = 0 /\ plain.groups = 0
  BY CleanCounts
<1> HIDE DEF plain
<1>4. Cardinality(LimboUnder(c, tab, w, at)) \in Nat
  BY LimboFinite
<1>5. counts.unique = 0 => counts.limbo = 0
  <2> SUFFICES ASSUME counts.unique = 0 PROVE counts.limbo = 0
    OBVIOUS
  <2>1. IsFiniteSet(UniqueIn(tab, w)) /\ Cardinality(UniqueIn(tab, w)) = 0
    BY <1>1, <1>2, FindingsFinite
  <2>2. UniqueIn(tab, w) = {}
    BY <2>1, FS_EmptySet
  <2>3. LimboUnder(c, tab, w, at) = {}
    BY <2>2, LimboFinite
  <2> QED
    BY <1>1, <2>3, FS_EmptySet
<1> QED
  BY <1>1, <1>2, <1>3, <1>4, <1>5 DEF AreCounts

-----------------------------------------------------------------------------
(* A window without anomalies never alerts; with a minimum score of 1, any   *)
(* other does.                                                               *)
THEOREM AlertsMeanAnomalies == DatasetSpec => []AlertsFollowAnomalies
<1>1. DatasetTypeOK => AlertsFollowAnomalies
  <2> SUFFICES ASSUME DatasetTypeOK, NEW w \in Windows, NEW c \in Served,
                      NEW counts, counts = Configured(c, Counts(table, w, now), table, w, now)
               PROVE  IF Anomalies(counts) = 0 THEN Triggered(c, counts) = {}
                      ELSE c["ALERT_HEALTH_MIN"] = 100 => "score" \in Triggered(c, counts)
    BY DEF AlertsFollowAnomalies
  <2>1. /\ c["ALERT_ORPHANED_THRESHOLD"] \in Nat
        /\ c["ALERT_GHOST_THRESHOLD"] \in Nat
        /\ c["ALERT_HEALTH_MIN"] \in 0..100 \cup {NaN}
        /\ NaN \notin Int
    BY ServedThresholds
  <2> DEFINE won == Score(counts)[1]
             of  == Score(counts)[2]
             min == c["ALERT_HEALTH_MIN"]
  <2>2. IsFiniteSet(Ids(table))
    BY TableFinite
  <2>3. /\ won \in Nat /\ of \in Nat \ {0} /\ won <= of
        /\ won = of <=> Anomalies(counts) = 0
    BY <2>2, ConfiguredCounts, ScoreIsFraction DEF Anomalies
  <2>4. counts.orphaned \in Nat /\ counts.ghost \in Nat /\ counts.groups \in Nat /\ counts.limbo \in Nat
    BY <2>2, ConfiguredCounts DEF AreCounts
  <2>5. "score" \in Triggered(c, counts) <=> min # NaN /\ won * 100 < min * of
    BY DEF Triggered
  <2>6. CASE Anomalies(counts) = 0
    <3>1. counts.orphaned = 0 /\ counts.ghost = 0
      <4> DEFINE o == counts.orphaned  g == counts.ghost  d == counts.groups  l == counts.limbo
      <4>1. o \in Nat /\ g \in Nat /\ d \in Nat /\ l \in Nat /\ o + g + d + l = 0
        BY <2>4, <2>6 DEF Anomalies
      <4> HIDE DEF o, g, d, l
      <4>2. o = 0 /\ g = 0
        BY <4>1
      <4> QED
        BY <4>2 DEF o, g
    <3>2. ~(counts.orphaned > c["ALERT_ORPHANED_THRESHOLD"]) /\ ~(counts.ghost > c["ALERT_GHOST_THRESHOLD"])
      BY <2>1, <3>1
    <3>3. "score" \notin Triggered(c, counts)
      <4>1. min \in 0..100 => min * of <= won * 100
        <5> HIDE DEF won, of, min
        <5> QED
          BY <2>3, <2>6
      <4>2. min \in 0..100 => ~(won * 100 < min * of)
        <5> HIDE DEF won, of, min
        <5>1. min \in 0..100 => min * of \in Nat /\ won * 100 \in Nat
          BY <2>3
        <5> QED
          BY <4>1, <5>1
      <4> QED
        BY <2>1, <2>5, <4>2
    <3> QED
      BY <2>6, <3>2, <3>3 DEF Triggered
  <2>7. CASE Anomalies(counts) # 0
    <3>1. ASSUME min = 100 PROVE min # NaN /\ won * 100 < min * of
      <4> HIDE DEF won, of, min
      <4> QED
        BY <2>1, <2>3, <2>7, <3>1
    <3> QED
      BY <2>5, <2>7, <3>1
  <2> QED
    BY <2>6, <2>7
<1> QED
  BY <1>1, DatasetTypes, PTL

-----------------------------------------------------------------------------
(* Findings that became fewer have lost one.                                 *)
LEMMA FewerLostOne ==
  ASSUME NEW before, IsFiniteSet(before), NEW after, IsFiniteSet(after), NEW limit \in Nat,
         Cardinality(before) > limit, ~(Cardinality(after) > limit)
  PROVE  \E tx \in before : tx \notin after
<1> SUFFICES ASSUME before \subseteq after PROVE FALSE
  OBVIOUS
<1>1. Cardinality(before) <= Cardinality(after)
  BY FS_Subset
<1>2. Cardinality(before) \in Nat /\ Cardinality(after) \in Nat
  BY FS_CardinalityType
<1> QED
  BY <1>1, <1>2

(* The rows of a step that grows the table, under any thresholds.            *)
LEMMA StepIsFinite ==
  ASSUME DatasetTypeOK, [DatasetNext]_datasetVars
  PROVE  IsFiniteSet(Ids(table)) /\ IsFiniteSet(Ids(table'))
<1>1. table \in Seq(Rows) /\ table' \in Seq(Rows)
  BY DatasetGrows
<1>2. /\ Ids(table) = 1..Len(table) /\ Len(table) \in Nat
      /\ Ids(table') = 1..Len(table') /\ Len(table') \in Nat
  BY <1>1 DEF Ids
<1> QED
  BY <1>2, FS_Interval

LEMMA LimboOnlyGrows ==
  ASSUME DatasetTypeOK, [DatasetNext]_datasetVars, NEW w, NEW c \in Served
  PROVE  LimboUnder(c, table, w, now) \subseteq LimboUnder(c, table', w, now')
<1> SUFFICES ASSUME NEW i \in LimboUnder(c, table, w, now)
             PROVE  i \in LimboUnder(c, table', w, now')
  OBVIOUS
<1> DEFINE pix == c["PIX_PENDING_THRESHOLD"]
           boleto == c["BOLETO_PENDING_THRESHOLD"]
<1>1. /\ Ids(table) \subseteq Ids(table')
      /\ \A k \in Ids(table) : table'[k] = table[k]
      /\ table \in Seq(Rows)
      /\ now \in Int /\ now' \in Int /\ now <= now'
  BY DatasetGrows
<1>2. pix \in Int /\ boleto \in Int
  BY ServedThresholds
<1>3. i \in Ids(table) /\ table[i].at \in Int /\ table'[i] = table[i]
  BY <1>1, InstantsAssumption DEF LimboUnder, OfSource, Ids
<1> HIDE DEF pix, boleto
<1>4. /\ table[i].at < now - pix => table[i].at < now' - pix
      /\ table[i].at < now - boleto => table[i].at < now' - boleto
  BY <1>1, <1>2, <1>3
<1> QED
  BY <1>1, <1>3, <1>4 DEF LimboUnder, OfSource, pix, boleto

(* Without an answer, and without a new transaction, nothing gets better.    *)
LEMMA NothingImproves ==
  ASSUME DatasetTypeOK, [DatasetNext]_datasetVars, NEW w \in Windows, NEW c \in Served,
         ~MerchantAnswered(w), ~ProcessorAnswered(w), ~Diluted(w),
         NEW before, before = Configured(c, Counts(table, w, now), table, w, now),
         NEW after, after = Configured(c, Counts(table', w, now'), table', w, now')
  PROVE  AtLeastAsBad(before, after)
<1>1. IsFiniteSet(Ids(table)) /\ IsFiniteSet(Ids(table'))
  BY StepIsFinite
<1>2. /\ before.orphaned = Cardinality(Orphaned(table, w))
      /\ before.ghost = Cardinality(Ghosts(table, w))
      /\ before.extra = ExtraOf(table, DuplicateKeys(table, w))
      /\ before.limbo = Cardinality(LimboUnder(c, table, w, now))
      /\ before.unique = Cardinality(UniqueIn(table, w))
  BY <1>1, ConfiguredCounts
<1>3. /\ after.orphaned = Cardinality(Orphaned(table', w))
      /\ after.ghost = Cardinality(Ghosts(table', w))
      /\ after.extra = ExtraOf(table', DuplicateKeys(table', w))
      /\ after.limbo = Cardinality(LimboUnder(c, table', w, now'))
      /\ after.unique = Cardinality(UniqueIn(table', w))
  BY <1>1, ConfiguredCounts
<1>4. /\ IsFiniteSet(Orphaned(table', w)) /\ IsFiniteSet(Ghosts(table', w))
      /\ IsFiniteSet(LimboUnder(c, table', w, now'))
  BY <1>1, FindingsFinite, LimboFinite
<1>5. Orphaned(table, w) \subseteq Orphaned(table', w)
  BY MerchantStep DEF MerchantClears, MerchantAnswered
<1>6. Ghosts(table, w) \subseteq Ghosts(table', w)
  BY NewestStep DEF NewestClears, ProcessorAnswered
<1>7. LimboUnder(c, table, w, now) \subseteq LimboUnder(c, table', w, now')
  BY LimboOnlyGrows
<1>8. /\ Cardinality(Orphaned(table, w)) <= Cardinality(Orphaned(table', w))
      /\ Cardinality(Ghosts(table, w)) <= Cardinality(Ghosts(table', w))
      /\ Cardinality(LimboUnder(c, table, w, now)) <= Cardinality(LimboUnder(c, table', w, now'))
  BY <1>4, <1>5, <1>6, <1>7, FS_Subset
<1>9. Ids(table) \subseteq Ids(table') /\ \A i \in Ids(table) : table'[i] = table[i]
  BY DatasetGrows
<1>10. ExtraOf(table, DuplicateKeys(table, w)) <= ExtraOf(table', DuplicateKeys(table', w))
  BY <1>1, <1>9, ExtraGrows
<1>11. UniqueIn(table', w) = UniqueIn(table, w)
  BY DEF Diluted
<1> QED
  BY <1>2, <1>3, <1>8, <1>10, <1>11 DEF AtLeastAsBad

(* An alert on orphaned approvals or ghost orders is silenced only by the    *)
(* arrival of the row that was missing; the one on the score also by a       *)
(* transaction the window did not know, and by nothing else.                 *)
THEOREM OnlyAnswersSilence == DatasetSpec => AlertsNeedAnAnswer
<1>1. DatasetTypeOK /\ [DatasetNext]_datasetVars => [Answered]_datasetVars
  <2> SUFFICES ASSUME DatasetTypeOK, [DatasetNext]_datasetVars, NEW w \in Windows,
                      NEW c \in Served,
                      NEW before, before = Configured(c, Counts(table, w, now), table, w, now),
                      NEW after, after = Configured(c, Counts(table', w, now'), table', w, now'),
                      NEW rule \in Triggered(c, before), rule \notin Triggered(c, after)
               PROVE  /\ rule = "orphaned" => MerchantAnswered(w)
                      /\ rule = "ghost" => ProcessorAnswered(w)
                      /\ rule = "score" =>
                           MerchantAnswered(w) \/ ProcessorAnswered(w) \/ Diluted(w)
    BY DEF Answered
  <2>1. /\ c["ALERT_ORPHANED_THRESHOLD"] \in Nat /\ c["ALERT_GHOST_THRESHOLD"] \in Nat
        /\ c["ALERT_HEALTH_MIN"] \in 0..100 \cup {NaN}
    BY ServedThresholds
  <2>2. IsFiniteSet(Ids(table)) /\ IsFiniteSet(Ids(table'))
    BY StepIsFinite
  <2>3. /\ AreCounts(before) /\ AreCounts(after)
        /\ before.orphaned = Cardinality(Orphaned(table, w))
        /\ before.ghost = Cardinality(Ghosts(table, w))
        /\ after.orphaned = Cardinality(Orphaned(table', w))
        /\ after.ghost = Cardinality(Ghosts(table', w))
    BY <2>2, ConfiguredCounts
  <2>4. /\ IsFiniteSet(Orphaned(table, w)) /\ IsFiniteSet(Ghosts(table, w))
        /\ IsFiniteSet(Orphaned(table', w)) /\ IsFiniteSet(Ghosts(table', w))
    BY <2>2, FindingsFinite
  <2>5. \A counts : /\ "orphaned" \in Triggered(c, counts)
                         <=> counts.orphaned > c["ALERT_ORPHANED_THRESHOLD"]
                    /\ "ghost" \in Triggered(c, counts)
                         <=> counts.ghost > c["ALERT_GHOST_THRESHOLD"]
                    /\ "score" \in Triggered(c, counts)
                         <=> /\ c["ALERT_HEALTH_MIN"] # NaN
                             /\ Score(counts)[1] * 100 < c["ALERT_HEALTH_MIN"] * Score(counts)[2]
    BY DEF Triggered
  <2>6. ASSUME rule = "orphaned" PROVE MerchantAnswered(w)
    <3>1. /\ Cardinality(Orphaned(table, w)) > c["ALERT_ORPHANED_THRESHOLD"]
          /\ ~(Cardinality(Orphaned(table', w)) > c["ALERT_ORPHANED_THRESHOLD"])
      BY <2>3, <2>5, <2>6
    <3>2. \E tx \in Orphaned(table, w) : tx \notin Orphaned(table', w)
      BY <2>1, <2>4, <3>1, FewerLostOne
    <3> QED
      BY <3>2, MerchantStep DEF MerchantClears, MerchantAnswered
  <2>7. ASSUME rule = "ghost" PROVE ProcessorAnswered(w)
    <3>1. /\ Cardinality(Ghosts(table, w)) > c["ALERT_GHOST_THRESHOLD"]
          /\ ~(Cardinality(Ghosts(table', w)) > c["ALERT_GHOST_THRESHOLD"])
      BY <2>3, <2>5, <2>7
    <3>2. \E tx \in Ghosts(table, w) : tx \notin Ghosts(table', w)
      BY <2>1, <2>4, <3>1, FewerLostOne
    <3> QED
      BY <3>2, NewestStep DEF NewestClears, ProcessorAnswered
  <2>8. ASSUME rule = "score", ~MerchantAnswered(w), ~ProcessorAnswered(w), ~Diluted(w)
        PROVE  FALSE
    <3>1. AtLeastAsBad(before, after)
      BY <2>8, NothingImproves
    <3>2. /\ c["ALERT_HEALTH_MIN"] \in 0..100
          /\ Score(before)[1] * 100 < c["ALERT_HEALTH_MIN"] * Score(before)[2]
          /\ ~(Score(after)[1] * 100 < c["ALERT_HEALTH_MIN"] * Score(after)[2])
      BY <2>1, <2>5, <2>8
    <3> QED
      BY <2>3, <3>1, <3>2, WorseScore
  <2> QED
    BY <2>6, <2>7, <2>8
<1> QED
  BY <1>1, DatasetTypes, PTL DEF DatasetSpec, AlertsNeedAnAnswer
=============================================================================
