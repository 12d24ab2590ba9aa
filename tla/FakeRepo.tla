------------------------------ MODULE FakeRepo ------------------------------
(***************************************************************************)
(* The in-memory repository of the service tests (internal/repository/      *)
(* fake.go): the same interface, decided by loops over a slice of rows.     *)
(* Lists are sequences of positions in the slice.                           *)
(***************************************************************************)
EXTENDS Listing

\* inWindow: not before From, not after To.
FakeInWindow(w, at) ==
  /\ ~(w.from # NoBound /\ at < w.from)
  /\ ~(w.to # NoBound /\ at > w.to)

\* sort.SliceStable by OccurredAt over rows in the order of the slice.
StableByTime(tab, ids) ==
  SortedBy(ids, LAMBDA i, j : tab[i].at < tab[j].at \/ (tab[i].at = tab[j].at /\ i < j))

\* The map "seen": only the first row of each transaction gets through.
FirstSeen(tab, ids) == {i \in ids : \A j \in ids : tab[j].id = tab[i].id => i <= j}

FakeOrphans(tab, w) ==
  StableByTime(tab, FirstSeen(tab,
    {i \in OfSource(tab, "processor") :
       /\ tab[i].status = "approved"
       /\ FakeInWindow(w, tab[i].at)
       /\ tab[i].id \notin TxOf(tab, OfSource(tab, "merchant_order_system"))}))

\* procLatest is replaced by a strictly later row only: of equals the first stays.
FakeLatest(tab, tx) ==
  {i \in OfSource(tab, "processor") :
     /\ tab[i].id = tx
     /\ \A j \in OfSource(tab, "processor") :
          tab[j].id = tx =>
            tab[j].at < tab[i].at \/ (tab[j].at = tab[i].at /\ i <= j)}

FakeGhosts(tab, w) ==
  StableByTime(tab, FirstSeen(tab,
    {i \in OfSource(tab, "merchant_order_system") :
       /\ tab[i].status = "approved"
       /\ FakeInWindow(w, tab[i].at)
       /\ \A j \in FakeLatest(tab, tab[i].id) : tab[j].status \in {"declined", "failed"}}))

FakeGroups(tab, w) ==
  SortedBy({k \in {KeyOf(tab, i) : i \in Ids(tab)} :
              /\ Cardinality(GroupRows(tab, k)) >= 2
              /\ \E i \in GroupRows(tab, k) : FakeInWindow(w, tab[i].at)},
           KeyBefore)

FakeGroupDetail(tab, k) == StableByTime(tab, GroupRows(tab, k))

\* Mutant of FakeLimbo: at the threshold a row is already in limbo.
FakeLimboAtThreshold(tab, w, now) ==
  StableByTime(tab,
    {i \in OfSource(tab, "processor") :
       /\ tab[i].status = "pending"
       /\ FakeInWindow(w, tab[i].at)
       /\ \/ tab[i].method = "pix" /\ now - tab[i].at >= PixThreshold
          \/ tab[i].method = "boleto" /\ now - tab[i].at >= BoletoThreshold})

FakeLimbo(tab, w, now) ==
  StableByTime(tab,
    {i \in OfSource(tab, "processor") :
       /\ tab[i].status = "pending"
       /\ FakeInWindow(w, tab[i].at)
       /\ \/ tab[i].method = "pix" /\ now - tab[i].at > PixThreshold
          \/ tab[i].method = "boleto" /\ now - tab[i].at > BoletoThreshold})

FakeListByWindow(tab, w) == StableByTime(tab, {i \in Ids(tab) : FakeInWindow(w, tab[i].at)})

\* Mutant of FakePage: cut to the limit before the offset is skipped.
FakePageLimitFirst(list, limit, offset) ==
  LET cut == IF limit > 0 /\ Len(list) > limit THEN SubSeq(list, 1, limit) ELSE list
  IN  SubSeq(cut, offset + 1, Len(cut))

\* paginate: the offset counts even without a limit.
FakePage(list, limit, offset) ==
  LET rest == SubSeq(list, offset + 1, Len(list))
  IN  IF limit > 0 /\ Len(rest) > limit THEN SubSeq(rest, 1, limit) ELSE rest

\* CountsByWindow and UniqueTransactionIDsCount
FakeCounts(tab, w, now) ==
  LET inside == ToSet(FakeListByWindow(tab, w))
      groups == FakeGroups(tab, w)
  IN  [orphaned |-> Len(FakeOrphans(tab, w)),
       ghost    |-> Len(FakeGhosts(tab, w)),
       groups   |-> Len(groups),
       extra    |-> MapThenSumSet(LAMBDA k : Len(FakeGroupDetail(tab, k)) - 1, ToSet(groups)),
       limbo    |-> Len(FakeLimbo(tab, w, now)),
       unique   |-> Cardinality(TxOf(tab, inside)),
       total    |-> Cardinality(inside)]

\* The detail of each transaction in a list.
ByTx(tab, list) ==
  [tx \in TxOf(tab, ToSet(list)) |-> CHOOSE i \in ToSet(list) : tab[i].id = tx]

\* countsByKey
FakeBreakdown(tab, w, now, field) ==
  LET groups == ToSet(FakeGroups(tab, w))
  IN  Bumped(tab, field, ByTx(tab, FakeOrphans(tab, w)), ByTx(tab, FakeGhosts(tab, w)),
             [k \in groups |-> FakeGroupDetail(tab, k)[1]], ToSet(FakeLimbo(tab, w, now)))
=============================================================================
