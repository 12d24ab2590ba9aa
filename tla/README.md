# Verification of the transaction health monitor

TLA+ models of the transaction health monitor (Go, one HTTP server over SQLite), the TLC runs
that check them on small instances, and TLAPS proofs for every instance. Paths are relative to
the repository root; `transactions.go` is `internal/repository/sqlite/transactions.go`.

## 1. Inventory

The server ingests payment events from two sources (the processor and the merchant's order
system) and reports, on demand, four kinds of anomaly and a health score. It keeps one SQLite
table, inserts into it only, and recomputes every report from it.

| part | state | operations | correct when |
|---|---|---|---|
| domain (`internal/domain`) | none | `Validate` | what it accepts, the schema accepts |
| clock (`internal/clock`) | the time | `Now`, `Advance` | - |
| anomaly queries (`transactions.go`, `schema.sql`) | the table | four finders, counts, per-key counts | late and reordered events give the same anomalies; windows cut nothing |
| connection pool (`sqlite.go`, database/sql) | holder of the one connection, open transaction, request contexts | begin, commit, rollback, query, close | nobody sees uncommitted rows; nobody waits for himself |
| ingest (`service/ingest.go`, POST handlers) | loop index, where the handler is | `Single`, `Batch` -> `InsertBatch` | all or nothing; the answer tells the truth |
| reports (`service/health.go`, `anomalies.go`, `alerts.go`, GET handlers) | statements left, results so far | health, anomalies (list, summary, breakdown), alerts, healthz | each statement reads a committed state; a report of a quiet table is exact |
| lifecycle (`cmd/server/main.go`) | down, up, draining | start, SIGTERM, `Shutdown`, end | a drained server stops; a crash loses nothing acknowledged |
| seeder (`test/seed/main.go`, `docker-compose.yml`) | sentinel file | generate, POST, write sentinel | the sentinel is never ahead of the data |
| fake repository (`internal/repository/fake.go`) | a slice | the same interface in memory, `Reset` | agrees with SQLite |
| configuration (`internal/config`) | none after start | `Load`, `validate` | what is out of range does not start |
| acceptance (`Makefile`, `scripts/wait-*.sh`, `docker-compose.yml`, `cmd/healthcheck`) | containers, a volume | reset, up, wait, verify | verify meets exactly one seed, and in the end |
| demo script, samples | none | - | - |

Interaction. Each request is a goroutine with a context that ends after 30 s or when the client
leaves. Handlers call a service, services call the repository, and every statement of the
repository goes through a pool of exactly one connection (`SetMaxOpenConns(1)`). An ingest holds
it from `BeginTx` to the commit or rollback; a report takes and returns it for every statement.
That single shared resource is where handlers meet, so it is what `Store` models; there are no
locks, queues or background jobs of the program's own. The one goroutine that works beside a
handler is database/sql's `awaitDone`, which rolls a transaction back when its context ends. The
seeder is a client in another container, meeting the API on a volume and over HTTP.

Hard behaviours: a context that ends anywhere in a batch; statements of one report interleaved
with commits; a process that dies with a transaction open; answers that are lost; events that
arrive late, twice or out of order; windows whose end separates two rows of one transaction; lists
that change while a client pages through them; timestamps whose text does not sort like the time; a
seeder killed between its POST and its sentinel, or still running when the next demo begins. `PROJECT.json` lists each at its line.

## 2. Modules

| module | what it is |
|---|---|
| `Domain` | transactions, `Validate` (rules in order), the schema's CHECKs |
| `Detection` | the finders, `CountsByWindow` and `computeScore` as operators on one table |
| `Dataset` | a growing table and an advancing clock, with what the queries promise of them |
| `Store` | server life, contexts, the connection, committed rows (`rows`), open transaction (`scratch`) |
| `Ingest` | the POST handlers, one action per call that can fail or be interleaved |
| `Reports` | the GET handlers: a list of statements (`todo`) run one at a time |
| `Service` | `Ingest` and `Reports` over one `Store`, shutdown and crash, fairness, properties |
| `AtomicIngest` | the abstract promise of ingest: stored in one step, at most once, honest answers |
| `Listing` | what a report shows: order, pages and details of the lists, counts per processor or method |
| `FakeRepo` | the queries of the in-memory repository, loop by loop |
| `Repositories` | what the two repositories give of the same rows, compared |
| `Paging` | a client that reads a list page by page while it changes |
| `Config`, `Alerts` | `config.Load` as operators; the alert rules over a growing table, under every configuration it accepts |
| `Seeder` | the runs of the seeder beside an API that keeps `AtomicIngest` |
| `SeedOracle` | `generate`, family by family, and `buildExpected` |
| `Acceptance` | `make acceptance`: the seeder's containers, the API's health, the two wait scripts |
| `TimeText` | timestamps from the client's text to the stored text and back |
| `MC...` | small instances of the module of that name |
| `ServiceProofs` | theorems about the server: ingest and its refinement, then reports |
| `DetectionProofs`, `DatasetProofs` | theorems about the queries' operators; about the growing table and the alert rules over it |
| `RepositoryProofs`, `PagingProofs` | theorems about the fake and SQLite: lists, counts, details, breakdowns; about pages of a changing list |
| `SeedOracleProofs`, `AcceptanceProofs` | theorems about the generator and its oracle; about the seeder alone and inside `make acceptance` |
| `TimeTextProofs` | theorems about the text of timestamps |

`Dataset` extends `Detection` extends `Domain`. `Service` extends `Ingest` (`Store`, `Domain`) and
`Reports` (`Store`, `Detection`), and refines `AtomicIngest`; `Seeder` extends `AtomicIngest`, so
the chain is: server implements promise, seeder needs only the promise; `Acceptance` extends `Seeder`
by the volume and the scripts around it. `Listing` extends `Detection`; `Repositories` and `Paging` are
`Dataset` seen through it, `Alerts` is `Dataset` seen through `Config` and the score, and `SeedOracle`
applies `Detection` to generated rows. `Alerts` and `Repositories` add no state to `Dataset`, so
`MCDataset` extends both and one run checks all three. `TimeText` stands alone: it justifies that everywhere else an
instant is an integer (under the hypothesis of `TextGoesByTime`, section 3). No module uses a RECURSIVE
operator. Definitions whose comment begins "Mutant of" are not part of any specification: they are
plausible bugs, one for each property, used to see that the property notices.

### Correspondence

*Data.* A transaction is a record. Blank text is `""`, any value outside an enumeration is
`"unknown"`, Go's zero time is 0, instants are integers (the code compares UTC text of fixed width,
which has the order of the instants). A row's AUTOINCREMENT id is its position in the table. In
`Service` a row is named `[req, n]`, the n-th transaction of request `req`, and `Table` looks the
payload up, so that whose row it is stays visible.

*Ingest.* `Receive` is decoding and validation (`ingest.go:53-69`); `BeginBatch`, `InsertRow`,
`CommitBatch` are the successful calls of `InsertBatch` (`transactions.go:14-51`);
`BeginFails` and `StatementFails` are every error return of it; `DeferredRollback` is the `defer`;
`AwaitDone` is database/sql's own rollback; `Respond` writes the answer, which may be lost. A body
that cannot be decoded is refused like an invalid row. `Single` is a batch of one.

*Reports.* `Plan` is the list of statements of an endpoint in the order the services call them.
`OpenCursor` takes the connection, `CloseCursor` reads to the end and gives it back, and for the
first query of `FindDuplicates` puts one `fetchGroupRows` per key in front of the rest.
`CursorFails` is an error that `Scan` or `rs.Err()` reports; `KeysCutShort` is the one loop whose error nobody
reads (`transactions.go:324-332`). The statement reads `Visible`, which includes the open
transaction of the connection: that no report sees one is a result, not an assumption.

`Refusal` is the order in which a query string is refused: an unreadable `from` or `to` (400), an
inverted window (422), then the other parameters of the endpoint (400).

*Lists.* `Page` is `limitOffsetClause` (no limit, no OFFSET). `Item` is one group of a `GROUP BY
transaction_id` with `MIN(occurred_at)`; SQLite takes the bare columns from a row with that minimum and
may choose among several, so `Breakdowns` is the set of all results it may give. In `Repositories` the
table stands for the fake's slice too: `Fake.InsertBatch` appends what `Repo.InsertBatch` inserts
(`Fake.Reset` is called by nobody). In `Paging` the client's next offset is its
last one plus the limit; `start`, `arrivals`, `departures` and `moved` are history.

*Configuration.* An environment maps each setting to a text, which is a number, unset, garbage, or
"NaN". `Served` is the configurations a process runs with, `run` being over when `Load` fails; it never
loads again, so an action property over one of them is about one process. `Triggered` is the rules of
`Evaluate`; what is in limbo depends on the process's own `PIX_PENDING_THRESHOLD` and
`BOLETO_PENDING_THRESHOLD` (`LimboUnder`), whereas `Detection` has the defaults as constants. The score is an exact fraction there and a float64 in the code: where both are equal as
numbers, rounding can make the float smaller (0.93 with 7 anomalies of 100 transactions). The default of
0.95 is not affected.

*Seed.* The program's constants `NumOrphaned` and so on become a `plan`; one action per loop of
`generate` draws times, methods and outcomes; `Shuffle` is one transposition of the final shuffle.
Identifiers are pairs of a family and a number.

*Time.* Base 2 instead of 10, years of two digits, one digit for everything from the month to the
second, two digits of fraction. `formatTime` converts to UTC and prints fixed widths, as time.Format does
(more digits if the year needs them, a sign below 0); `parseTime` accepts what its three layouts accept.

*Acceptance.* `Reset` is `docker compose down -v`, which removes the containers of all earlier runs,
exit codes and all, with the volume; `UpReturns` is `up -d`, which waits for the API's
health before it starts the seeder; `WaitHealthy`, `Poll` and `ExitCode` are the scripts' loops, with
`docker inspect` failing whenever it likes. `ProbeSucceeds` and `ProbesFail` are the healthcheck binary
as Docker counts its exit codes.

*Process.* While draining, the listener is closed, but `Shutdown` waits for connections accepted just
before, whose request may still come: `Receive` and `ReceiveQuery` need a process, not one that is up. `DrainedExit` is a `Shutdown` that returned nil; `Crash` is a kill, or a `Shutdown` that
gave up while handlers ran. Both undo what was not committed, as SQLite's journal does; only
`Crash` takes handlers with it. `Start` follows either.

*Seeder.* One run per container start, never two at a time (one container of that name, `restart:
"no"`). Each run posts its own batch; the API goes on with it after the run was killed.

### Runs

| run | what it asks | bounds, and why they are enough |
|---|---|---|
| `dataset` | what queries, score, alert rules and breakdowns promise over a growing table; where the fake and SQLite agree | up to 3 rows of 2 transactions at instants 1 and 2, two processors, every window with ends in {1, 2, none}, limits and offsets 0 to 2, 8 kinds of invalid row; each setting alone out of range, at its edge and unreadable, alert settings at 0, 1, 50 %, 100 % and NaN, limbo thresholds with and against their defaults. Three rows are what a property needs to go wrong: two events of one transaction and a counterpart or a third event |
| `ingest` | atomicity, truth of answers, refinement of `AtomicIngest` | 4 requests: a batch of two, its retry, a batch whose second row is invalid, a row the schema refuses. Two batches race, each can be cut between its rows; more add orders, not cases. An empty batch, answered without a statement, is left to the proofs |
| `reports` | what the statements of a report read | two batches (2 and 3 rows) and one report of the health counts or duplicate groups. Two commits can fall into one report, before and after any statement |
| `endpoints` | every endpoint and every refusal: quiet reports are exact, handlers end, shutdown ends | one batch of five rows and one report: any report is either quiet or torn by it, and two requests are what it takes for one to wait for the other |
| `paging` | what pages of a changing list may miss or repeat | up to 4 rows of 2 transactions, limits 0, 1, and the default (2 for 50), two windows. A skip takes two items and one clearing row |
| `time_text` | text order and time order | 10 local times around a change of year, offsets of -1, 0 and 1 s, up to 2 rows and every window |
| `seed_oracle` | the oracle against the queries | 14 plans with one or two transactions of each family, and a window of three instants that every lag can cross. Transactions have ids of their own, so a pair of families meets whatever more would |
| `acceptance` | what the sentinel and the exit code mean; what verify sees; that the target ends | 3 runs of the seeder: one that fails late, one that succeeds, one that finds the sentinel; or two before the target and its own; 2 polls |
| `torn_groups`, `silent_cut`, `seeded_twice`, `time_edge` | the four findings | as the runs above; `seeded_twice` is the seeder without the target, `time_edge` takes the first and last seconds of the calendar |

Bounds are `MaxRows` and `MaxNow` in `Dataset`, `Limits` in `Repositories`, `MaxSwaps` in `SeedOracle`
(the queries do not depend on the order but through ties, which no plan has), `MaxStored` and the
calendar's `Base`, `YearWidth`, `FracWidth` in `TimeText`, `Timeout` in `Acceptance`; the other modules
are bounded by their finite sets of requests and runs, each used once. `SampleLimit = 1` stands for `defaultSample = 5`, so that a sample
can be cut. `CHECK_DEADLOCK FALSE` is set in every run because a system whose requests have all been
served, or whose runs are over, rightly has nothing to do; that nobody is stuck is `EveryRequestEnds`.

### Properties

* `Dataset`: a transaction is never both an orphaned approval and a ghost order, whatever the two
  windows (`OrphanGhostDisjoint`); the reports of the two halves of a window cover the whole
  (`WindowsSplit`); the order of ingestion does not matter but between two processor events of equal
  time (`OrderIndependent`); duplicates count the rows a UNIQUE key would refuse
  (`ExtraRowsAreRedundant`); a score of 1 means no anomaly and the reverse (`PerfectIffClean`); an
  orphan is cleared only by its merchant row, a ghost only by a newest non-denying processor row, a row
  in limbo by nothing (`OrphanClearedByMerchant`, `GhostClearedByNewest`, `LimboNeverClears`).
* `Service`, ingest: whoever holds the connection is at a step that returns it
  (`HolderUsesConnection`); uncommitted rows are their writer's (`UncommittedIsPrivate`); batches are
  whole and once (`BatchesWhole`); 201 means stored for good, 400 and 500 mean not stored
  (`AcknowledgedIsStored`, `RefusedIsNotStored`); no invalid row is stored, no valid one refused by
  the schema (`InvalidNeverStored`, `ValidRowsFitSchema`); `AtomicSpec`.
* `Service`, reports: statements read committed states in order (`StatementsReadCommitted`); a report
  nothing was committed during has the counts of that state (`QuietReportIsExact`); groups only grow
  between the two queries (`GroupsNeverShrink`).
* `Repositories`: counts agree unless two processor events of one instant contradict each other
  (`FakeCountsTheSame`); pages agree, and with a limit of 0 the fake gives what SQLite's whole list has behind the offset
  (`FakePagesTheSame`);
  details agree while events arrive in time order (`FakeDetailsTheSame`); a breakdown adds up to the
  whole, whatever row SQLite picked (`BreakdownsAddUp`). The hypotheses are where the two really differ.
* `Alerts`: a window without anomalies never alerts under a configuration that `Load` accepts, and with
  a minimum score of 1 any anomaly does (`AlertsFollowAnomalies`; a bound that `validate` forgot would
  break it, but for NaN's, see below); the count rules stop only when somebody answered, the score rule
  also when a transaction comes that the window did not know, since it divides by them, and neither stops
  for anything else (`AlertsNeedAnAnswer`).
* `Paging`: rows in limbo and duplicate groups are never skipped (new ones come in, none leaves, but the
  order is not that of arrival, so it is not obvious), and skipped orphans and ghosts are at most as many
  as left the list (`SkipsAreExplained`); repeated ones are at most as many as came
  (`RepeatsAreExplained`).
* `SeedOracle`: counts, score and ids of the oracle are those of the queries (`OracleCounts`,
  `OracleIDs`).
* `TimeText`: lists and the latest row are those of the instants (`QueriesGoByTime`).
* `Seeder`: the sentinel and an exit code of 0 mean the seed is stored (`SentinelMeansSeeded`,
  `ExitZeroMeansSeeded`); a second copy is one of a run that failed (`ExtraCopiesAreFailures`).
  `Acceptance` keeps all three through its reset; verify sees one seed (`VerifySeesOneSeed`); the target
  ends, or gets as far as the start of `verify.sh`, which is not modelled (`AcceptanceEnds`). `AcceptanceInv` is the inductive invariant behind them.

### Findings

1. `GroupsCarryAllRows` fails: a batch committed between the two queries of `FindDuplicates` gives a
   group with more rows than `occurrences` (README "each group carries all of its rows",
   `sqlite_test.go:172`). `GroupsNeverShrink` is what does hold.
2. `FailuresAreReported` fails: `transactions.go:332` drops `rs.Err()`, so a cut iteration over the
   group keys is answered 200 with groups missing. If the context ended, the next statement fails and
   hides it, unless no key had been read.
3. `SeededOnce` fails: a seeder killed or cut off between sending the POST and writing the sentinel may
   have its batch stored, before or after it is gone, and is followed by a run that posts everything again. `ExtraCopiesAreFailures` is what does hold.
4. `TextSortsLikeTime` fails: an offset can carry a timestamp's year out of 0..9999 in UTC; its text then
   sorts wrongly and cannot be read back. `QueriesGoByTime` is what holds of all other years.

Two more disagreements have no run of their own, since the models show them by construction. Of two
processor events of one instant the fake takes the first and SQL the last (`fake.go:149`, against
"the row inserted last wins" in `docs/ARCHITECTURE.md:139-140`): hence the hypothesis of
`FakeCountsTheSame`. And `ALERT_HEALTH_MIN=NaN` passes `config.go:88`, both comparisons with NaN being
false; the score rule of such a process never fires, though `config.go:89` speaks of a range.

### Fairness

`EveryRequestEnds` and `ShutdownEnds` assume weak fairness of three things. The handlers' own steps
(`Handle`, `Report`): goroutines are scheduled. The end of a request's context (`Cancel`,
`CancelQuery`): `middleware.Timeout` starts a 30 s timer for every request, and it fires while the
request is being handled. `DrainedExit`: `Shutdown` polls for idle connections. Nothing is assumed of
clients, signals, restarts, or of the order in which the pool serves its waiters; a request that is
never served the connection ends by its own timeout. `ShutdownEnds` does not use `SHUTDOWN_TIMEOUT`.

`AcceptanceEnds` assumes that make goes on to its next line, that the scripts' loops turn, and that
Docker, every two seconds, sees a healthcheck succeed or counts one more of 30 failures (`WF` of each
step of the target and of `ProbeSucceeds \/ ProbesFail`). Nothing is assumed of the seeder, whose POST
has no timeout, nor of the API. The reset that begins the target is not fair: it is a person's decision.

### What is assumed of code outside the repository

database/sql: a connection is given to one caller; `Commit` refuses once the context is done; a
rollback is finished before the connection is given on. SQLite: a committed row survives a crash of
the process, an uncommitted one does not; a COMMIT that fails has stored nothing and leaves no transaction open (so it
is for a full disk or an I/O error, which roll back; SQLITE_BUSY would take a second process writing to
the same file); a SELECT reads one
state of the table (no writer can run while its cursor holds the only connection). The database file
is on the volume that `docker-compose.yml` mounts.

SQLite compares TEXT byte by byte and, with `MIN()` alone in a `GROUP BY`, takes bare columns from a row
that has the minimum. encoding/json takes RFC 3339 timestamps whose local year has four digits. Docker:
`down -v` ends the containers and removes the volume; a request a killed seeder had sent is dropped with
the API's container. The file system: the seeder's `os.Stat` fails only on a sentinel that is absent (the code takes any error
for absence, `test/seed/main.go:142`).

## 3. Proofs

Assumptions on constants: `Requests` is the disjoint union of `Batches` and `Queries`, payloads are
sequences, `Free` is no request, instants and thresholds are integers, a report has one of the ten
kinds of `Reports`, `SampleLimit` is a number, the settings of an environment are integers or one of the
three values that stand for other texts, the ids that occur are ranked as texts by distinct integers
(`TextRank`; twice, for `Repositories` and for `Paging`), the limits a client may send are numbers and the
default one is positive, the lags of a seed (`GhostLead`, `DupLag`) are not negative, whatever is pending in
its window is overdue when it is posted, a seed has at least one row, and a calendar has a base of 2 or more, at least
one digit of year and fraction, and a value for "unreadable" that is no instant. None bounds a set; TLC
evaluates each. One theorem, `TextGoesByTime`, has a hypothesis besides.

`ServiceProofs`. `BatchesWhole` and the two properties about answers are not inductive: that a batch
which was not answered is not in the table depends on where its handler is, and that a commit stores
the whole batch depends on `scratch` being exactly what the loop has inserted. `ServiceInv` adds these
two facts: `LoopAccountsForScratch` (the holder's loop index describes `scratch`; without a writer
holding the connection it is empty) and `HandlerKnowsOutcome` (handlers before their commit have
nothing in the table; a handler at "stored" has everything). With types and `HolderUsesConnection` it
is inductive. The induction step is cut by what an action touches: handlers that only move on,
transactions that touch `scratch`, the commit, the answer, reports, and the end of the process.
Lemmas about committed rows say that appending one batch, not stored before, keeps every other batch
whole. `Invariant` gives `TypeCorrect`, `ConnectionIsUsed`, `NoDirtyReads`, `IngestIsAtomic`,
`AcknowledgedIsDurable`, `RefusedLeavesNothing`, `SchemaNeverRefuses` and, since a handler only ever
inserts what passed `Validate`, `InvalidStaysOut`. `IngestRefinesAtomic` maps
`CommitBatch` to `StoreBatch`, `Respond` to `Accept`, `Refuse` or `Lose`, `Crash` to `Lose` and the
rest to stuttering.

`ServiceProofs`, reports. What a report has read is history, so `ReportInv` speaks of `got`: each result was read
where the committed rows then ended, which is a boundary between whole batches, not after what is
committed now, and not before the result that precedes it; a `fetchGroupRows` still in `todo` has an
`occ` that was counted in a table no longer than today's. The last part is what `GroupsNeverShrink`
needs, and it is inductive because the rows only grow and a commit appends a whole batch (from
`ServiceInv`, which also says that nothing uncommitted is visible when a cursor opens). One lemma
treats the two actions that take a statement off `todo`, one the commit; all other actions leave
reports alone or only append to other variables. `ReportInv` was model-checked on the `reports`
instance before it was proved; two of the properties the run lists follow from it.

The third, `QuietReportIsExact`, needs to know that a report asks everything once. Put what it has run and
what it has left to run behind one another: that is its `Script`. Running a statement moves it from the
one part to the other and puts the groups it has counted behind it (`RunSplices`); it changes nothing
else. `QuietInv` says of a report during which nothing was committed or cut short that its script has all
six counts, the keys once, and, once the keys are read, one fetch for each duplicate key with the size of
that group in the table at the start (`Faithful`). It holds of every plan (`PlanCounts`) and of a splice
(`SpliceIsFaithful`), because `SetToSeq` lists each key once and the counts have no LIMIT. At the end the
fetches are in bijection with the duplicate keys, so the two sums of redundant rows have the same terms
under other names (`SumOfRenamed`). `QuietInv` too was model-checked, on the `reports` and `endpoints`
instances.

`DetectionProofs`. Facts about the operators for any table, and that `Validate` implies the schema's
CHECKs. A duplicate sum is a fold whose meaning TLA+
gives by CHOOSE over recursive functions, so the first lemmas say that such a function exists and
that its value does not depend on the order in which the set is consumed, both by induction over subsets
of a finite set. Such a sum is additive on disjoint subsets (`SumIsAdditive`, `PartsAddUp`). From them: the counts are numbers, the extra rows of a window without duplicate keys are
0 and of any other are positive, and over the whole table they are the rows minus the distinct keys
(partition of the rows by key). Swapping two neighbouring rows that are not tied is a
bijection of positions under which every finder's result is the image of what it was.

`DatasetProofs`, the table. The state invariants that hold of every table (`NeverOrphanAndGhost`, `ReportsSplit`,
`PerfectMeansClean`, `ExtraMeansRedundant`, `OrderIsIrrelevant`) are those lemmas, applied to a table of
validated rows (`DatasetTypes`); the three action properties come from what appending one row, or a later
`now`, does to each finder. `OrderIsIrrelevant` needs the type invariant: only with integer times does
"at least as late as every other" have one winner in either order.

`RepositoryProofs`. An ORDER BY is `SortedBy`: the n-th element is the one that n - 1 others come before.
For an order of a finite set, the number of elements before an element is a bijection onto the places, so
the list is well defined and holds every element once (`ListedInOrder`); times with ids, ranks with sources
and times with ranks are such orders. Where the fake's loop and the SQL find the same set, their lists and
pages are therefore equal (`PagesAreTheSame`). The rows that pass the fake's map `seen` are in
bijection with the transactions, and the last of the latest processor rows denies a payment exactly if
the first does, unless there is a conflict (`CountsAreTheSame`). If events arrive in time order, the row
first seen is the only one with the minimal time, so SQLite has no choice
(`DetailsAreTheSame`). Sums are additive, and the transactions of a breakdown are divided by their keys, so its columns add up to the counts (`BreakdownsDivideTheCounts`). All
four need of a reachable state only that its rows passed `Validate`. For `PagingProofs` the module also says,
of any table, in which order each list has its elements and that each is named once (`KeysListed`,
`RowsListed`, `ItemsListed`).

`DatasetProofs`, alerts. `AlertsMeanAnomalies` combines the lemmas on counts and score with what `Load` lets
through: each threshold in its range, or the default. `OnlyAnswersSilence` uses the step lemmas for
the table: if no answering row came, the orphans of a window are a superset of what they were, and
a count that did not fall cannot stop exceeding a fixed threshold. The score needs all of them: orphans
and ghosts are supersets, rows in limbo and duplicate groups never leave, more groups of more rows have
more redundant rows (`ExtraGrows`), and among as many transactions no fewer anomalies give no better
score (`NothingImproves`, `WorseScore`).

`AcceptanceProofs`, the seeder. That good runs seed once is not inductive: a run that is still posting has to be
excluded while another one ends well. `SeederInv` says that at most one run is *unfailed* (running, or
ended well after posting), since a run starts only when none is running and the sentinel is absent,
and every run that ended well left the sentinel.

`AcceptanceProofs`, the target. `SeederInv` survives the target's reset but does not exclude that a POST of an earlier
demo arrives in the new volume. `AcceptanceInv` adds that once the target has reset, every run but the
current one is dead with nothing under way (`EarlierRunsAreOver`) and that the database is empty or holds
the current run's rows (`OnlyCurrentStores`); `VerifyMeetsOneSeed` follows because an exit code of 0 needs
the sentinel, which the reset removed with the volume.

`SeedOracleProofs`. `OracleCounts` and `OracleIDs` speak of a finished seed only, so the invariant has to
say what is known of a half-made one. `SeedInv` has three parts beside the types: a row carries the family
and number of a transaction already made, and its time, status and method are ones `generate` may draw for
that family (`RowsFit`); a transaction that was made has all rows of its family from each source, and no
others (`GroupsAreWhole`: a denied ghost order with its denial, three rows of a tripled processor event, and
so on); the two rows of a healthy order agree (`PairsAgree`). A loop's turn appends one whole transaction
under a fresh id, which is one lemma for all seven loops (`Emission`); a transposition of the shuffle is a
bijection of positions, and no part of `SeedInv` looks at positions. When all is made, each finder is
evaluated family by family; the transactions found are the ids below the plan's constants, and counting
those numbers gives the oracle's. Where the oracle could have been wrong is ties that the shuffle
decides: there are none that matter, as no transaction has two processor rows that contradict each other. `SeedInv` was model-checked on the `seed_oracle`
instance (300548 states) before it was proved.

`PagingProofs`. Both properties speak of what was shown, but they are kept by what is *going to be* shown.
`PagingInv` says that while the client reads, what it has not been shown and will not find behind its
offset is at most what left the list (`LostAreExplained`), and that what it was shown twice, with what
it was shown and will find again behind its offset, is at most what came or moved forward
(`AgainAreExplained`). A page moves items from behind the offset to what was shown and so changes neither
account (`PageKeepsAccounts`). A change of the list can: the offset stays where it is while items come and
go in front of it. `Shift` is the counting argument: when a list without repetitions becomes another, of the elements
that do not overtake one another no more are carried across the offset than other elements stood in
front of it before. What has to be known of the four lists is that an item that stays in one only ever moves
forward: new rows can only make a transaction's first event earlier, and duplicate groups and rows in
limbo have an order that depends on the row alone (`ListInStep`, `ItemsInStep`); that these two lists lose
nothing (`GrowingStays`) gives the first half of `SkipsAreExplained`. `PagingInv` was model-checked on
the `paging` instance (668872 states) before it was proved.

`TimeTextProofs`. The text of an instant has the same length for every year that has `YearWidth` digits in UTC,
with the marks at fixed places (`TextIsDigits`). Its first p digits, read as a number, are `Front`, the
instant divided by a power of the base; one digit more multiplies by the base and adds the digit
(`FrontSteps`). Division keeps order, so at the first place where two instants' `Front` differ the earlier has
the smaller digit (`FirstDifference`): text order is time order. Reading digits is a recursion whose
value is again `Front` (`ReadsDigits`), so a text is read back as what was written. Powers, too, are a
recursive function, whose existence is proved. `TextGoesByTime` assumes `InnerYears`: no offset a client
sends carries a timestamp it is accepted with out of the years 0..9999. That is finding 4, not a technicality:
the `time_edge` run shows the text order to be wrong without it. The timestamps of the `time_text` run satisfy it.
Base, year and fraction may be the code's (10, four digits, nine); what lies between, from the month
to the second, stays one digit of the model.

Only model-checked: the liveness properties `EveryRequestEnds`, `ShutdownEnds` and `AcceptanceEnds`, which rest
on fairness and ENABLED, which the prover does not handle. Every other property of a passing run is a
theorem. Not proved either are the four findings, each a counterexample that TLC finds.

## 4. Not modelled

Text (JSON, problem details, messages, logging), content types and sizes of bodies (any body that is
not decoded is one refusal), request ids, recovered panics, `ReadTimeout` and friends of the HTTP server
(they end a connection, which is `Cancel` and a lost answer), `SQLITE_DSN`, the demo scripts and recorded
answers, `verify.sh` among them. Of a detail, the amount, currency and reason text are not told apart. The rounding of float64
scores (see *Configuration*). The fake's mutex: tests that call it from several goroutines compare nothing
that depends on their order. `Fake.Set` of the clock, which only tests call, may go back in time; the
model's clock does not.

## 5. Plan

Done: all modules of section 2 and the proofs of section 3. Every part of the system that changes state
is modelled, and every safety and action property that a run checks is proved, but for those the findings
refute. Should the code change, the order of work is: the action, its run, then the step of the
inductive invariant that it disturbs. What would come next is

1. months, days and the clock in `TimeText`, which would need `Base` to differ by place;
2. the rounding of the score, for thresholds other than the default (*Configuration*).
