---------------------------- MODULE Repositories ----------------------------
(***************************************************************************)
(* The two implementations of repository.Repository side by side: the       *)
(* SQLite one the server uses, and the fake its service tests use.  What    *)
(* may a test learn from the fake?  Fake.InsertBatch appends the rows that  *)
(* Repo.InsertBatch inserts, so the table stands for Fake.rows as well.     *)
(***************************************************************************)
EXTENDS Dataset, FakeRepo

CONSTANTS Fields,   \* what a breakdown can be by: "processor", "method"
          Limits    \* bound: the limits and offsets of the pages compared

ASSUME FieldsAssumption == Fields \subseteq {"processor", "method"} /\ Limits \subseteq Nat

\* The ids that occur are ordered as texts.
ASSUME RanksAssumption == \A row \in Rows : Valid(row) => row.id \in DOMAIN TextRank

Denies(row) == row.status \in {"declined", "failed"}

\* Two processor events of one transaction at one instant, of which one denies the payment.
Conflict ==
  \E i, j \in OfSource(table, "processor") :
    /\ table[i].id = table[j].id /\ table[i].at = table[j].at
    /\ Denies(table[i]) /\ ~Denies(table[j])

\* Every transaction's events arrived in the order they occurred in.
InTimeOrder ==
  \A i, j \in Ids(table) :
    i < j /\ table[i].id = table[j].id => table[i].at < table[j].at

(* Counts, and with them health scores and alerts, are the same from the     *)
(* fake and from SQLite for every window, unless two processor events of one *)
(* instant contradict each other (fake.go:149, transactions.go:216-219).     *)
FakeCountsTheSame ==
  ~Conflict => \A w \in Windows : FakeCounts(table, w, now) = Counts(table, w, now)

(* Rows in limbo, duplicate groups with their rows, and listed transactions  *)
(* come in the same order and in the same pages.  Without a limit they       *)
(* differ, and just so: SQLite forgets the offset with it and gives the      *)
(* whole list, the fake what is left of it behind the offset (paginate,      *)
(* limitOffsetClause).                                                       *)
FakePagesTheSame ==
  \A w \in Windows :
    LET fakes == <<FakeLimbo(table, w, now), FakeGroups(table, w), FakeListByWindow(table, w)>>
        lists == <<LimboList(table, w, now), GroupList(table, w), WindowList(table, w)>>
    IN  /\ \A limit, offset \in Limits, i \in 1..3 :
             LET page == Page(lists[i], limit, offset)
             IN  FakePage(fakes[i], limit, offset)
                   = IF limit > 0 THEN page ELSE SubSeq(page, offset + 1, Len(page))
        /\ \A k \in DuplicateKeys(table, w) : FakeGroupDetail(table, k) = GroupDetail(table, k)

Shown(tab, list) == {[tx |-> tab[i].id, at |-> tab[i].at] : i \in ToSet(list)}

(* As long as events arrive in time order, the details agree too: orphans    *)
(* and ghosts are dated alike, and the fake breaks the counts down as SQLite *)
(* does (FakeRepo takes the first row of the slice, MIN() the earliest).     *)
FakeDetailsTheSame ==
  InTimeOrder => \A w \in Windows :
    /\ Shown(table, FakeOrphans(table, w)) = ToSet(OrphanList(table, w))
    /\ Shown(table, FakeGhosts(table, w)) = ToSet(GhostList(table, w))
    /\ \A field \in Fields :
         Breakdowns(table, w, now, field) = {FakeBreakdown(table, w, now, field)}

(* A breakdown divides the counts up, it loses and invents nothing: whatever *)
(* row SQLite takes for a transaction whose events name several processors,  *)
(* the keys' counts add up to those of the whole (countsByKey against        *)
(* CountsByWindow).                                                          *)
BreakdownsAddUp ==
  \A w \in Windows :
    LET counts == Counts(table, w, now)
    IN  \A field \in Fields : \A breakdown \in Breakdowns(table, w, now, field) :
          \A column \in {"orphaned", "ghost", "groups", "extra", "limbo"} :
            SumOver(breakdown, column) = counts[column]
=============================================================================
