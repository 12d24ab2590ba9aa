------------------------------ MODULE Listing ------------------------------
(***************************************************************************)
(* What a report shows of the anomalies: the lists of the finders with      *)
(* their ORDER BY, LIMIT and OFFSET, and the counts per processor or        *)
(* payment method (transactions.go).                                        *)
(***************************************************************************)
EXTENDS Detection, SequencesExt

CONSTANT TextRank   \* the place of each transaction id in the order of text

ASSUME TextRankAssumption ==
  /\ TextRank \in [DOMAIN TextRank -> Int]
  /\ \A x, y \in DOMAIN TextRank : TextRank[x] = TextRank[y] => x = y

\* ORDER BY, and sort.Slice of the fake: each element after those that come before it.
SortedBy(S, Before(_, _)) ==
  [n \in 1..Cardinality(S) |-> CHOOSE x \in S : Cardinality({y \in S : Before(y, x)}) = n - 1]

(***************************************************************************)
(* Orphaned approvals and ghost orders: GROUP BY transaction_id, one item   *)
(* with MIN(occurred_at), ORDER BY occurred_at, transaction_id.             *)
(***************************************************************************)
Item(tab, ids, tx) ==
  [tx |-> tx, at |-> Min({tab[i].at : i \in {j \in ids : tab[j].id = tx}})]

ItemList(tab, ids) ==
  SortedBy({Item(tab, ids, tx) : tx \in TxOf(tab, ids)},
           LAMBDA x, y : \/ x.at < y.at
                         \/ x.at = y.at /\ TextRank[x.tx] < TextRank[y.tx])

OrphanList(tab, w) == ItemList(tab, OrphanRows(tab, w))

GhostList(tab, w) == ItemList(tab, GhostRows(tab, w))

(***************************************************************************)
(* Rows themselves: ORDER BY occurred_at, id.                               *)
(***************************************************************************)
RowList(tab, ids) ==
  SortedBy(ids, LAMBDA i, j : tab[i].at < tab[j].at \/ (tab[i].at = tab[j].at /\ i < j))

LimboList(tab, w, now) == RowList(tab, LimboRows(tab, w, now))

\* ListByWindow
WindowList(tab, w) == RowList(tab, RowsInWindow(tab, w))

\* FindDuplicates: ORDER BY transaction_id, source; fetchGroupRows gives the rows.
SourceRank == [merchant_order_system |-> 1, processor |-> 2]

KeyBefore(k, l) ==
  \/ TextRank[k[1]] < TextRank[l[1]]
  \/ k[1] = l[1] /\ SourceRank[k[2]] < SourceRank[l[2]]

GroupList(tab, w) == SortedBy(DuplicateKeys(tab, w), KeyBefore)

GroupDetail(tab, k) == RowList(tab, GroupRows(tab, k))

\* Mutant of Page: the page number is taken for the offset.
PageByNumber(list, limit, offset) ==
  IF limit <= 0 THEN list
  ELSE SubSeq(list, limit * offset + 1, Min({Len(list), limit * (offset + 1)}))

\* Mutant of Page: the last item of a page is the first of the next one.
PageOverlaps(list, limit, offset) ==
  IF limit <= 0 THEN list
  ELSE SubSeq(list, Max({1, offset}), Min({Len(list), Max({1, offset}) + limit - 1}))

\* limitOffsetClause: without a limit there is no OFFSET either.
Page(list, limit, offset) ==
  IF limit <= 0 THEN list
  ELSE SubSeq(list, offset + 1, Min({Len(list), offset + limit}))

-----------------------------------------------------------------------------
(***************************************************************************)
(* countsByKey bumps one key per anomaly, taken from its detail: a row in   *)
(* limbo itself, the first row of a group, and of an orphan or a ghost the  *)
(* row the bare columns of the GROUP BY come from.  With MIN() that is an   *)
(* earliest row, and SQLite may take any of several.                        *)
(***************************************************************************)
BareRows(tab, ids) ==
  {f \in [TxOf(tab, ids) -> ids] :
     \A tx \in DOMAIN f : tab[f[tx]].id = tx /\ tab[f[tx]].at = Item(tab, ids, tx).at}

\* Mutant of Extra: every row of a group is redundant.
ExtraEveryRow(tab, k) == Cardinality(GroupRows(tab, k))

Extra(tab, k) == Cardinality(GroupRows(tab, k)) - 1

\* The breakdown, given the row that stands for each orphan, ghost and group.
Bumped(tab, field, orphan, ghost, group, limbo) ==
  LET Of(f, k) == {x \in DOMAIN f : tab[f[x]][field] = k}
      named == {tab[i][field] : i \in Range(orphan) \cup Range(ghost) \cup Range(group) \cup limbo}
  IN  [k \in named |->
        [orphaned |-> Cardinality(Of(orphan, k)),
         ghost    |-> Cardinality(Of(ghost, k)),
         groups   |-> Cardinality(Of(group, k)),
         extra    |-> MapThenSumSet(LAMBDA g : Extra(tab, g), Of(group, k)),
         limbo    |-> Cardinality({i \in limbo : tab[i][field] = k})]]

\* Mutant of FirstRows: a group is credited to the row inserted last.
FirstRowsLast(tab, keys) == [k \in keys |-> Max(GroupRows(tab, k))]

FirstRows(tab, keys) == [k \in keys |-> GroupDetail(tab, k)[1]]

\* Every map CountsByProcessor (or CountsByPaymentMethod) may return.
Breakdowns(tab, w, now, field) ==
  {Bumped(tab, field, orphan, ghost, FirstRows(tab, DuplicateKeys(tab, w)), LimboRows(tab, w, now)) :
     orphan \in BareRows(tab, OrphanRows(tab, w)), ghost \in BareRows(tab, GhostRows(tab, w))}

SumOver(breakdown, column) == MapThenSumSet(LAMBDA k : breakdown[k][column], DOMAIN breakdown)
=============================================================================
