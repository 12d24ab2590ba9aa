------------------------------- MODULE Paging -------------------------------
(***************************************************************************)
(* A client reads a list of anomalies page by page (GET /v1/anomalies with  *)
(* type, limit and offset) while rows are ingested and time passes.  Each   *)
(* page is a SELECT of its own with LIMIT and OFFSET, on the list as it is  *)
(* then; nothing ties the pages of one client together.                     *)
(***************************************************************************)
EXTENDS Dataset, Listing

CONSTANTS PageWindows,  \* windows a client may ask for
          LimitArgs,    \* what "limit" may say; Absent if the parameter is missing
          Absent,
          DefaultLimit  \* anomaliesHandler: parseLimit(r, 50)

ASSUME LimitsAssumption ==
  /\ LimitArgs \subseteq Nat \cup {Absent}
  /\ DefaultLimit \in Nat \ {0}

\* The ids that occur are ordered as texts.
ASSUME PagedRanksAssumption == \A row \in Rows : Valid(row) => row.id \in DOMAIN TextRank

VARIABLES query,        \* what the client reads, or Idle
          offset,       \* where its next page starts
          shown,        \* the items it was given, in the order of its pages
          finished,     \* it got the last page
          start,        \* history: the list when the first page was read
          arrivals,     \* history: items that came into the list since, or moved forward in it
          departures,   \* history: items that left it since
          moved         \* history: the items that moved forward

pagingVars == <<query, offset, shown, finished, start, arrivals, departures, moved>>

Types == {"orphaned", "ghost", "duplicate", "pending_limbo"}

Idle == [type |-> "none"]

\* AnomaliesService.List: the repository's whole list, and what names an item of it.
ListOf(q, tab, at) ==
  CASE q.type = "orphaned"      -> OrphanList(tab, q.win)
    [] q.type = "ghost"         -> GhostList(tab, q.win)
    [] q.type = "duplicate"     -> GroupList(tab, q.win)
    [] q.type = "pending_limbo" -> LimboList(tab, q.win, at)

Name(q, item) == IF q.type \in {"orphaned", "ghost"} THEN item.tx ELSE item

Names(q, list) == {Name(q, list[i]) : i \in DOMAIN list}

LimitOf(arg) == IF arg = Absent THEN DefaultLimit ELSE arg

PagingInit ==
  /\ DatasetInit
  /\ query = Idle /\ offset = 0 /\ shown = <<>> /\ finished = FALSE
  /\ start = <<>> /\ arrivals = 0 /\ departures = 0 /\ moved = {}

\* One request: a page is added to what was shown; a short one was the last.
Read(q, from) ==
  LET page == Page(ListOf(q, table, now), q.limit, from)
  IN  /\ shown' = shown \o page
      /\ offset' = from + q.limit
      /\ finished' = (q.limit = 0 \/ Len(page) < q.limit)

FirstPage ==
  /\ query = Idle
  /\ \E type \in Types, win \in PageWindows, arg \in LimitArgs :
       LET q == [type |-> type, win |-> win, limit |-> LimitOf(arg)]
       IN  /\ query' = q
           /\ start' = ListOf(q, table, now)
           /\ Read(q, 0)
  /\ UNCHANGED <<table, now, arrivals, departures, moved>>

NextPage ==
  /\ query # Idle /\ ~finished
  /\ Read(query, offset)
  /\ UNCHANGED <<table, now, query, start, arrivals, departures, moved>>

\* History of the list while it is being read.
Watch ==
  LET old  == ListOf(query, table, now)
      new  == ListOf(query, table', now')
      here == Names(query, old) \cap Names(query, new)
      forward == {n \in here :
                    query.type \in {"orphaned", "ghost"} /\
                    \E i \in DOMAIN old, j \in DOMAIN new :
                      old[i].tx = n /\ new[j].tx = n /\ new[j].at < old[i].at}
  IN  IF query = Idle THEN UNCHANGED <<arrivals, departures, moved>>
      ELSE /\ arrivals' = arrivals + Cardinality(Names(query, new) \ here) + Cardinality(forward)
           /\ departures' = departures + Cardinality(Names(query, old) \ here)
           /\ moved' = moved \cup forward

\* Bound: what happens after the last page is no longer of interest.
Change ==
  /\ ~finished
  /\ DatasetNext
  /\ Watch
  /\ UNCHANGED <<query, offset, shown, finished, start>>

PagingNext == FirstPage \/ NextPage \/ Change

PagingSpec == PagingInit /\ [][PagingNext]_<<datasetVars, pagingVars>>

-----------------------------------------------------------------------------
Seen == Names(query, shown)

Skipped == Names(query, start) \ Seen

(* What was there when the client began and its last page still has not      *)
(* shown: never a row in limbo or a duplicate group, for these lists only    *)
(* grow and an offset into them jumps over nothing.  An orphan or ghost can  *)
(* be skipped though it never stopped being one: at most one for each other  *)
(* that was cleared meanwhile, and one whose earlier event was ingested late *)
(* and moved it in front of the offset (LIMIT and OFFSET of the finders).    *)
SkipsAreExplained ==
  finished =>
    /\ query.type \in {"duplicate", "pending_limbo"} => Skipped = {}
    /\ Cardinality(Skipped \ moved) <= departures

(* An item is shown twice only because another came into the list, or moved  *)
(* forward in it, while it was read; one repetition for each.                *)
RepeatsAreExplained ==
  Len(shown) - Cardinality(Seen) <= arrivals
=============================================================================
