# A TLA+ model of trade-trace

trade-trace is a local journal for trading agents. Agents call *tools*
(`forecast.add`, `resolution.add`, `memory.retain`, ...) through a CLI or an MCP
server; every call goes through `core.dispatch` and, when it writes, through one
SQLite transaction that appends an event and the ledger rows it stands for.
Everything a report says is derived from these append-only rows. This directory
models the parts of that system whose correctness depends on order, on
interleaving and on failure, checks them with TLC and proves central properties of
the write path and of the migrations with TLAPS.

Paths below are relative to `src/src/trade_trace/` unless they start with `src/`;
names of documents are those of `src/docs/`.

## 1. Inventory

| Component | State | Operations | What is hard |
|---|---|---|---|
| Dispatch and idempotency (`core.py`, `tools/_helpers.py`, `events/semantic_keys.py`) | context variable `DRY_RUN_FLAG`, retry counter | `dispatch`: key contract, derived keys, dry run, one retry of a busy lock | re-sent calls, a flag that outlives its request |
| Event log (`events/log.py`, `events/unit_of_work.py`) | `events`, ledger rows, `outbox`, `config` | `UnitOfWork` enter / commit / rollback, `EventWriter.write` | several processes, lookup-then-insert, failing statements, crashes |
| JSONL export (`exporter.py`, `tools/export.py`) | `outbox.state`, `attempt_count`, `*.jsonl`, `*.jsonl.tmp` | `export.drain`, orphan cleanup | files are outside the transaction; crashes, I/O errors, two drains |
| Imports (`tools/imports.py`, `tools/csv_import.py`) | a staged copy of the journal, the artifact of a CSV file | import.validate, import.commit in two modes, import.csv_fills | part of a file, the same file again, another writer before the replacement |
| Journal files (`tools/admin.py`, `storage/database.py`) | the SQLite file, its WAL, a backup directory | backup, restore, replacement by an import | file copies beside live connections, multi-file replacement |
| Migrations (`storage/migrations/`) | `meta.schema_version`, the schema | journal.init | two processes, a failing migration, a crash in the middle |
| Forecasts, outcomes, scores (`tools/ledger/forecast.py`, `outcome.py`, `_scoring.py`, `forecast_independence.py`) | `forecasts`, `outcomes`, `forecast_scores`, `edges`, blind events, locks | add, supersede, resolve, blind commit / reveal, anchor, list | any order of calls; state derived by several queries |
| Decisions and positions (`tools/ledger/decision.py`, `projections.py`) | `decisions`, `position_events`, `positions` | decision.add, rebuild, derived lifecycle | drop-and-rebuild inside each write, marks derived by two queries |
| Signals, work queue, bootstrap (`tools/signals.py`, `reports/work_queue.py`, `bootstrap.py`) | `signals`, a cursor in the caller's hand | signal.scan, pages, packets | a scan that decides before it has the lock, rows that come and go between pages |
| Memory (`tools/memory.py`, `reflection.py`) | nodes, edges, invalidation events, recall events and their projection | retain, reflect, link, recall, rebuild | a read and its telemetry in two transactions; derived keys |
| Strategies and playbooks (`tools/strategy.py`, `playbook.py`, `playbook_predicates.py`) | rows changed in place, versions, adherence | create, update, propose, adhere, audit | replays of updates, an audit that evaluates twice |
| Evidence records (`tools/risk.py`, `approval.py`, `pretrade_intent.py`, `external_receipts.py`, `reconciliation.py`, ...) | one append-only table each: key, semantic key, material hash, references | evaluate, record, compare | two identities of one record, retried handlers, rows dated in the past |
| Sources, ideas (`tools/ledger/source.py`, `tools/ideas.py`, `reports/source_quality.py`) | rows, edges and inline objects for one attachment | add, attach, link, capture | one attachment stored twice and reported once; a chain of calls |
| Markets (`tools/market_bind.py`, `adapter_polymarket.py`) | markets, instruments, snapshots, outcomes, a cache stamp | bind, refresh, fetch | a venue that moves between read and write, failures, retries |
| Scan and promotion (`tools/market_scan.py`) | none of its own: child calls under derived keys | promote | interruption, promotion of the same bundle again, two at once |
| Arcs (`tools/journal_bundle_status.py`) | ids in the agent's memory | plan, status | an agent that dies in the middle of a plan |
| Readiness (`reports/*_readiness.py`, `forecast_diagnostics.py`) | none | read in many queries | another moment per query; windows, defaults of a gate |
| Review and replay bundles (`tools/review_bundle.py`, `reports/replay.py`) | none | read in many queries, as of a past time | rows stamped before they are visible |
| Other reports, fixtures, CLI, MCP server, redaction, logging | none of the journal's | aggregation, parsing, formatting | - |

Components interact through the journal only: every tool opens its own
connection (`open_database`: WAL mode, `busy_timeout` 5 s), takes the writer lock
with `BEGIN IMMEDIATE`, and closes it. The exporter reads rows the log wrote, the
scorer is called inside the transactions of `forecast.add`, `forecast.supersede`
and `resolution.add`, and `memory.link` writes edges that the scorer's queries
read later. There are four exceptions, and each has its module: the admin tools
and `import.commit`, which copy and rename the database's files beside other
connections; journal.init and signal.scan, which take the lock late; the exporter,
whose UPDATEs are autocommitted between file operations; and the tools that are
chains of calls (promotion, arcs, imports, outcome.fetch).

What makes each component correct is stated with its properties, in the modules;
`PROJECT.json` lists the places where it could go wrong ("hazards").

## 2. Modules

| Module | Models | Checked in |
|---|---|---|
| `ToolCall` | a call, its effective key, the events and envelopes: shared by the log and its abstraction | `EventLog` |
| `ExactlyOnceLog` | abstract specification of the write path | `EventLog` |
| `EventLog` | `core.dispatch`, `UnitOfWork`, `EventWriter`, `config_set`; one action per statement | `EventLog` |
| `EventLog_proofs`, `OutboxDrain_proofs`, `ForecastScoring_proofs`, `Markets_proofs` (with `Review`), `Storage_proofs` (with `JournalFiles`), `Desk_proofs` (with `WorkQueue`), `Knowledge_proofs` (`Memory`, `Procedures`), `Evidence_proofs` (`Risk`, `Evidence`, `Sources`, `Readiness`) | theorems, section 4 | - |
| `AtomicExport` | abstract specification of the export | `OutboxOneDrain` |
| `OutboxDrain` | `drain_outbox`, `write_jsonl_line_atomic`, `cleanup_orphan_tmp_files`; one action per system call or UPDATE | `Outbox*` |
| `Imports` | import.validate, import.commit, import.csv_fills | `OutboxTwoDrains` |
| `JournalFiles` | backup, restore, replacement by an import; one action per file | `Journal*` |
| `Storage` | apply_pending_migrations, signal.scan under SQLite's deferred lock | `JournalFiles` |
| `ScoringLifecycle` | abstract specification of a forecast's state: the table of `scoring.md` 4.4 and what the code does besides | `Scoring` |
| `ForecastScoring` | the forecast, outcome and independence tools, `memory.link` on their rows | `Scoring*` |
| `Desk` | decision.add, the rebuilt positions, snapshots, the derived lifecycle | `Desk` |
| `WorkQueue` | report.work_queue with its cursor, report.bootstrap; extends `Desk` | `Desk` |
| `Memory` | retain, reflect, link, recall, the rebuild of the stats | `Knowledge*` |
| `Procedures` | strategies, playbooks, adherence, predicates, the audit | `Knowledge` |
| `Risk`, `Evidence` | the risk evaluator and its receipts; the other evidence tables, paper fills, reconciliation; `Evidence` extends `Risk` | `Evidence` |
| `Sources` | source.add, attachments, idea.capture, report.source_quality | `Evidence` |
| `Readiness` | audit, phase gate, autonomy, trend, diagnostics | `Evidence` |
| `Markets` | bind, refresh, snapshot and outcome fetches | `Markets` |
| `Promotion` | market.scan.promote | `Markets` |
| `Review` | replay.case_bundle, review.bundle | `Markets` |
| `Arcs` | journal.bundle.plan and .status, the agents that follow them | `Markets` |
| `MC*` | instances for TLC; some run several components one at a time, in disjoint groups of one behaviour | all |

A component whose handlers are each one transaction has one action per call: that
this is right is what `EventLog` is about. Where a tool reads in several statements
without a snapshot, or makes several calls, or asks a venue in between, it has one
action per moment. A call that is refused changes nothing and has no action, unless
its refusal matters to a property. Replays are modelled where the component answers
them in a way of its own.

### 2.1 EventLog

A process runs one handler at a time through `begin`, `lookup`, `insert`, `emit`,
`cascade`, `exit`, `reply`. `db` is the committed journal; `view[p]` is what the
open transaction of `p` sees. `Begin` is `BEGIN IMMEDIATE`: it waits for `lock`
and takes the image; `Commit` publishes it; `Rollback` drops it. `Lookup` is
`check_idempotency_replay`, `EmitReplay` / `EmitConflict` / `EmitFresh` are the
three ways through `EventWriter.write`, `EmitCascade` is the secondary event that
some tools append in the same transaction. `Raise` is any exception inside the
transaction, `RejectArgs` one before it, `BusyTimeout` the `single_writer_lock`
error with dispatch's single retry, `Crash` the death of the process. The UNIQUE index on
the key (`m002` 44) is left out: that a key has one event is shown of the lookup under the
lock alone, which leaves the index nothing to refuse. A tool's
arguments are abstracted to `shape`, the structural fields of its payload, and the
identity (`type`, `actor`, `key`); the hash that derives a key is a constructor.
The handler of `venue.add` is the one translated; the single-row tools share its
form.

`ExactlyOnceLog` says what this amounts to: a call adds all its events at once, a
keyed call at most once, and an answer is true of the log when it is given.
`ExactlyOnce` is the refinement.

### 2.2 OutboxDrain and Imports

Files are a POSIX directory: the tmp and the final name of an event are links to
inodes, and an open descriptor keeps writing to its inode whatever happens to the
names. A drain goes `list`, then for each row `load`, `open` (`O_CREAT|O_TRUNC`),
`write`, `rename`, `mark`; `Fail` and `Load` settle a row as failed. `IOError` and
`Crash` strike at any step; `Age` lets an hour pass, which is when cleanup takes a
tmp file for an orphan, also the one of a suspended drain. `AtomicExport` is the
promise: a file appears whole and stays, a row is settled after it, and elder events
come first. One drain implements it; two do not (section 5), and `WholeWhenQuiet`
says what is left with two.

`Imports` is the way back. A line is the call it makes: its id and key if it states
them, the row it refers to, and the rest. `ledger` holds the rows with the import
each came from, `artifacts` the JSONL files that import.csv_fills writes and then
lets import.commit read, `imports` what was begun and how it ended. `Examined` is
what is refused before a line is committed (unparsed lines, other tools, mixed ids,
forward references, in single mode the trial on a copy); `StageLines`,
`ReplaceJournal`, `RefuseStaleJournal` are the single mode, `CommitLine`,
`AnswerRows` the loop of per_row. The comparison of the fingerprints is one step
with the replacement here; `JournalFiles` takes that apart.

### 2.3 ForecastScoring

Each tool runs in one unit of work, so one call is one step. Tables are sequences
or sets that only grow; `known` and the index of a row stand for its
timestamps (creation times are taken to be distinct and in order: a clock that
steps back, or two rows in one microsecond, is not modelled). `ScoringState`,
`Heads`, `Counted`, `ResolvePending` translate the queries. A page of forecast.list is the
set of rows after its cursor that fit (`Page`), and `ListWalk` follows `NextCursor` from
page to page. A label is abstracted to the vocabulary it comes from, a confidence
to `sure` (at least 0.9), a `resolution_at` to whether it was given and had passed. The
limit of resolve.pending (100 unless the caller asks for up to 1000) is taken to be
more than there are forecasts. `FollowsLifecycle` is the refinement of
`ScoringLifecycle`, which has the table of `scoring.md` 4.4 (`Table`) and keeps apart
what the code does besides: a forecast recorded after the outcome is born settled, a
second final outcome scores a settled one again to either result, an edge by hand takes
scores out of force (`Correct`). `ScoredStands` is the sentence of 4.4 that the second
of these breaks; the run `ScoringRescored` shows it.

### 2.4 JournalFiles and Storage

A journal is a main file and a WAL; both are inodes behind a name (`main`, `wal`),
and a connection holds the inodes it opened. A page holds the set of transactions
it reflects; `Recover` is what a reader sees. `Close` of the last connection copies
the WAL into the main file and removes the WAL by name. The backup is
`BackupCheckpoint`, `BackupCopy` page by page, `BackupManifest`; the restore verifies
every hash and then copies page by page over the live file, leaving the WAL where
it is; the import takes a fingerprint, copies, compares, applies its rows to the
copy, compares again and replaces the main file, then the WAL.

The ghost variables are the journal owed to the callers (`truth`), what the running
backup owes (`must`) and `calm`. `calm` names three things that `JournalIsTruth`
needs and the code does not secure: nobody has the journal open while its files are
being replaced (for a restore, no WAL is left either), no last connection closes
while the main file is being copied, and no process dies between the steps of a
replacement. `JournalTornBackup` and section 5 say what happens without them.
SQLite's automatic checkpoints during use, the `-shm` file and the JSONL tree of a
backup are left out.

`Storage` has the two writers that do not lock at BEGIN. `disk` is what is
committed (version, objects, signals), `work[p]` what a process has read and
written; SQLite's rule for a deferred transaction (the lock at the first write,
refused when somebody committed since its first read) is modelled as external. A scan may
be called with `dedupe=false`, and then signals again what has a signal.

### 2.5 Desk and WorkQueue

Decisions, the positions `paper_enter` opens, the snapshots that mark them and the
state a decision's obligation is in. A tool call is one step; `DecisionAdd` is the
whole transaction with its drop-and-rebuild. `decisions` and `events` only grow, so
their index is their creation order; a position is the index of its opening event.
Prices are YES cents. `positions` holds what the last rebuild stored; `PnlMark` and
`ExposureMark` are the numbers two families of reports derive at a read, each by its
own query; `Lifecycle` is the if-chain of `derive_lifecycle_cases` as a sequence of
states of which the first that applies counts. Exits are left out (no tool but the
fixture writes them), and so are fees and risk amounts.

`WorkQueue` adds forecasts as far as the reports read them, the ordered queue with
its cursor (`walk`) and the packet of report.bootstrap, which is composed in one
read snapshot and then cut by items, by characters and as a whole (`packet`).

### 2.6 Memory and Procedures

`nodes` and `edges` only grow; a node is invalidated by an event about it. A recall
is three steps: it reads the nodes, ranks and answers, and writes its telemetry, in
separate transactions. Rankings (full text, graph, recency) are modelled by the
order they give; `Score` fuses and discounts them as the code does. `replaced` is
the ghost that remembers which nodes a *first* call of memory.retain replaced.

In `Procedures`, `strategies` are the rows that strategy.update changes in place
and `strategyLog` their events, which carry every column but `meta_json`:
`StrategyRowIsLastEvent` is about the columns they carry. The audit of adherence (`audit`) evaluates the
predicate of each rule twice, rule by rule, while agents attach edges.

### 2.7 Risk, Evidence, Sources, Readiness

A rule of a policy has a class (links, limit, approval, mode, category) and sees a
number or a link as "ok", "over" or "absent", which is all that the comparison tells
apart. `Evidence` has one action per tool; `Store` is the shape they share
(idempotency key, then semantic key, then references, then the row), and `n`, the
number of times dispatch ran the handler, shows in the caveats it appended to its
caller's list. `Codes` and `Severity` are the derived side of a reconciliation,
`ModelFill` the paper fill against a book. A record keeps of its call what `Hashed` says: a
paper fill neither the middle price nor the age a book may have, and of the book only what
its evidence shows, which is the caller's `book_levels` if there are some. `OkMeansStored`
asks that the fill in an answer is nevertheless the model's for that very call.

`Sources` keeps `tables` as one record because its calls are composed: idea.capture
is three keyed calls in one unit of work, each an operator from tables to tables. The text of a
source stands for its excerpt, extracted text and summary, which are dropped from a
protected source; title and note, which are stored of any source, are left out. `Readiness` reads
table by table (`report[r]` has what was read so far) beside agents that write one of
several histories (`writing`), which would each earn autonomy but for one row. An outcome
resolves at an `Instant` (a second of UTC and a fraction of it). The trend lays its windows
on instants, prints the edges and the times of the scores in the local time of the process
(`Printed`) and compares the strings (`SortsBefore`): one without a fraction sorts after
the fractions of the same second where it ends in Z and before them where it ends in an
offset (`Sign`), and two instants around the hour in which the clock is put back may sort
the other way. `Zone` is such a local time.

### 2.8 Markets, Promotion, Review, Arcs

A live call of `Markets` is `BeginFetch` (which reads the journal), `Fetch` or
`FetchFails` (no lock held; the venue's `History` moves on between), and the
transaction that writes, with the second look some tools take there. `Promotion` has
the children of a bundle with their derived keys; a process may die at any of them
and the bundle is promoted again. Keys are split at their colons, because the number of
a source is read back out of a key (`SourceIdx`), and a bundle has at most ten sources
here, a digit for each. `Review` stamps rows when a transaction is open
and commits them later; both bundles are read table by table. A row names the instrument it
is on (`on`), and nothing makes a decision, its forecast and its snapshot name the same.
review.bundle joins outcomes and the autonomous records by the instruments of its decisions,
and scores by their forecasts; `ScoresHaveOutcomes` is about the outcomes it so owes. `Arcs` has agents that
ask for a plan, follow it with the ids they got, die, and start again; the status takes
`max_related` rows of each list, and of edges 20 times as many, which `ArcsAssumption`
says there are not.

## 3. Runs

| Run | Question | Bounds |
|---|---|---|
| `EventLog` | two processes, calls that share a caller's key (two contents, a dry run) or carry a derived key, the opt-out or none; a re-send, a crash, the export switched on and off: exactly once, answers true and durable, units whole, outbox exact, lock always released? | 2 processes, 3 dispatches, 1 crash, fairness |
| `OutboxOneDrain` | one drain at a time, an unreadable event in the middle: does it implement `AtomicExport`, is everything exported in the end? | 3 events, 2 I/O errors, 2 crashes, fairness |
| `OutboxTwoDrains` | two drains and a cleanup at once: what still holds? Or imports of JSONL and CSV files beside writers: is each what it answered? | 2 events, 2 drains; 2 importers, 2 imports of 15 kinds, 1 other call, deaths |
| `Scoring` | outcomes final, unsure or in other words than the forecast, forecasts superseded, anchored, blind, an edge by hand: who is scored, by which outcome, is hindsight marked, do the states follow the lifecycle and the queue, the list and the counts follow the states? | 2 markets, 2 forecasts, 2 outcomes of 3 kinds, 1 snapshot, 1 link |
| `ScoringRescored` (violation) | a score that is committed stands | 1 forecast, 2 final outcomes |
| `Desk` | entries on both sides, refused ones, late and priceless snapshots, deadlines: do positions follow entries, do reports agree? Or an agent that pages through the queue and one that asks for a packet beside writers: is nothing owed skipped? | 1 market, 2 decisions of 12 kinds, 2 snapshots, 1 note, days 0 to 2; 2 forecasts, pages of 1 |
| `JournalFiles` | three backups, restores or imports beside two clients that write, close and die; or two processes that migrate and scan | 2 clients, 3 opens, 2 writes, 3 admin operations, 1 crash, 2 pages; 5 migrations, 2 forecasts, 4 commits |
| `JournalTornBackup` (violation) | a backup holds a transaction whole or not at all | 2 clients, 1 open, 2 writes, 1 backup, no crash |
| `Knowledge` | lessons, replacements, links and two readers; strategies; playbooks with an audit beside edges: does recall respect what was replaced, do projections follow their events, does no retry add anything? | 3 nodes, 4 edges, 2 recalls, 2 days; 3 updates; 2 playbooks, 2 versions, 2 links |
| `KnowledgeSmeared` (violation) | what the agent was told is kept is in the journal | the same, lessons without keys |
| `Evidence` | policies and verdicts; ledgers with reused keys, retried handlers and rows dated in the past; sources and ideas; readiness beside writers: do verdicts fail closed, is an ok about what was sent, does a finding stay, is ready earned? | 2 policies and receipts, 4 records, 2 runs of a handler; 2 sources, 3 edges of each; 13 histories, 3 bars, 3 local times, 1 report |
| `Markets` | binds, refreshes and fetches around a venue that moves; bundles promoted, interrupted and promoted again; bundles read beside writers; arcs followed by agents that die | 2 processes, 2 markets with 3 and 2 views, 3 snapshots; 3 promotions; 6 histories, 3 moments; 2 agents, 3 arcs, 1 death |

Where a run has several groups, each behaviour makes the calls of one group only:
the groups share no table in the code, so nothing is lost but the product of their
states. Each group's variables are at their initial values in the others.

Why these bounds are enough to be interesting. In `EventLog` two dispatches of one
key race, a third replays or conflicts, and one crash or dry run falls anywhere
between; a third process adds no new pair of steps because the lock serialises
everything after `Begin`. In `OutboxDrain` three events put an unreadable one
between two readable ones, and two crashes let a drain die while it repairs what
the first death left. Two imports are one and its repetition, or one beside
another. In `ForecastScoring` two forecasts are a prior and its successor (or two
rivals), and two outcomes with a link a final and its correction. Two pages are the fewest on which a copy can be torn. Three nodes are a lesson,
its replacement and a reflection on both. Four evidence records are an intent, what
permits it, what came of it and the comparison, or a comparison, a late row and a
second comparison. The histories of the readiness and review runs each hold one
defect or one late row, because with two the first would hide the second. Every run
reaches all of its bounds.

`CHECK_DEADLOCK FALSE` stands where tables are bounded and agents may stop calling:
everywhere but in `EventLog` and `OutboxOneDrain`, which have no deadlock.

**Fairness.** `EventLog` assumes that a process that runs a handler goes on until it
returns or dies (`WF(Step(p))`): handlers contain no unbounded wait, the lock wait
ends by `busy_timeout`. Nothing obliges an agent to call or a process to crash or
to raise. `OutboxOneDrain` assumes that a running drain goes on and that somebody
calls `export.drain` (with cleanup) again and again; there is no daemon, so this
is the operator's loop, and faults and crashes are finite.

## 4. Proofs

Each theorem holds for every value of the constants that meets the assumptions of its
module, for instance any number of processes, calls, rows and retries; its run in
section 3 shows the same property on a small instance. The table names the property;
where a theorem has a hypothesis of its own, the last column has it.

| Theorem | Property | Holds for |
|---|---|---|
| `EventLog_proofs`: `TypeCorrect`, `KeysAreUnique`, `AnswersAreDurable` | `TypeOK`, `KeyUnique`, `OkIsDurable` | all instances |
| `LogOnlyGrows`, `UnitsAreWhole`, `OutboxFollowsTheLog` | `AppendOnly`, `WholeUnits`, `OutboxFollowsLog` | all |
| `ImplementsExactlyOnce` | `ExactlyOnce`: the refinement of `ExactlyOnceLog` | all |
| `OutboxDrain_proofs`: `DrainInvariance` | types; an exported row has a file of its name | all |
| `QuietDrainsLeaveWholeFiles` | `WholeWhenQuiet` | no I/O error and no crash |
| `ExportIsAtomic` | `AtomicPerEvent`: the refinement of `AtomicExport` | one drain, any errors and crashes |
| `ImportsAreWhole` | `ImportIsWhole` | all calls and files whose lines state no id that the journal generates (`ImportsAssumption`) |
| `ForecastScoring_proofs`: `ScoresAreGuarded`, `SettledAreScored`, `ForecastsCountOnce` | `ScoreGuard`, `SettledForecastsScored`, and of `ReadersAgree` that a forecast counts once per live final outcome | all |
| `WalksAreComplete` | of `ReadersAgree` that a walk over forecast.list shows each forecast once, newest first | all page sizes |
| `StatesFollowLifecycle`, `PendingStayQueued`, `ReadersAlwaysAgree` | `FollowsLifecycle`: the refinement of `ScoringLifecycle`; of `ReadersAgree` that the pending are queued (a part that speaks of journals without a link by hand), and `ReadersAgree` itself | all |
| `Storage_proofs`: `SchemaIsVersionAlways`, `AppliedOnceAlways`, `SignalsAreTimelyAlways` | `SchemaIsVersion`, each migration reported once, `SignalsAreTimely` | all |
| `JournalStaysTrue` | `JournalIsTruth` | all; the property asks for three conditions itself |
| `Desk_proofs`: `SurfacesAgreeAlways`, `ExposureAlwaysFollows`, `NeverReopensAlways` | `PnlSurfacesAgree`, `ExposureFollowsEntries`, `NeverReopens` | all |
| `WalkMissesNothing`, `PacketsAreOfOneMoment` | `WalkShowsWhatStays`, `PacketIsOneMoment` | all page sizes and budgets |
| `Knowledge_proofs`: `ReplaysAddNothing`, `StatsAreRebuildable` | `ReplayAddsNothing`, `StatsFollowRecalls` | all |
| `ReplacedAreHidden` | of `ReplacedStaysHidden` what a recall may show | all |
| `ReplacedStayHidden` | `ReplacedStaysHidden` | journals of at most 21 nodes (`MaxNodes <= 21`) |
| `StrategiesFollowTheirLog`, `NoVerdictIsRetracted` | `StrategyRowIsLastEvent`, `AuditNeverRetracts` | all |
| `Evidence_proofs`: `ReceiptsFailClosed`, `AnswersMeanWhatIsStored`, `CriticalFindingsAreKept` | `VerdictsFailClosed`, `OkMeansStored`, `CriticalFindingsStay` | all, books of any depth |
| `CapturesAreWhole`, `ReportsSeeOnce` | `CaptureIsWhole`, `ReportSeesOnce` | callers that state true content hashes |
| `AutonomyIsEarned` | `ReadyIsEarned` | all histories, bars, bounds |
| `ScoresAlwaysCountOnce` | `ScoresCountOnce` | histories in which a score follows its forecast, local times that save less than a window (`ReadinessAssumption`) |
| `Markets_proofs`: `OneOutcomeAlways`, `RowIsLoggedAlways` | `OneOutcomePerMarket`, `RowIsLogged` | all views of the venue |
| `ScoresHaveOutcomesAlways`, `RepeatableAlways` | `ScoresHaveOutcomes`, `RepeatableAsOf` | histories that respect foreign keys |
| `BundlesAreWhole` | `BundleIsWhole` | no caller's key with a segment "source" (`PlainParents`), ten sources |
| `PlansEndComplete` | `PlanEndsComplete` | orders that fit (`PlansFit`): a prefix per order, supplied ids that exist, no more decisions than `max_related` |

A theorem of the form `Spec => []Inv` has three steps: the start satisfies a stronger
invariant, each action keeps it (a lemma per action or per group of actions), and it
implies `Inv`; `PTL` combines them. What the stronger invariants add:

**The write path** (`EventLog_proofs`). `IInv`: a process that runs a handler runs one of
the calls under its own dry-run flag (`CallInv`, what the `finally` clause of dispatch
maintains); a transaction is open exactly in the process that holds the lock
(`LockInv`, which is `BEGIN IMMEDIATE`); the image of the open transaction continues
the committed journal and has unique keys (`ViewInv`); the id a handler is about to
return is in that image, then in the journal (`ReplyInv`). `Begin` establishes
`ViewInv` because the lock was free, so nobody else can have changed `db` before
`Commit`; `Commit` carries uniqueness and the reply from the image to the journal.
`JInv` says how far each open transaction is: the image is the committed journal and
exactly the part of the call's row and events that the statements before have added, in
order (`StageInv`); a call in progress is one that dispatch lets through
(`AcceptedInv`); a conflict is with a committed event (`ConflictInv`); no two agents are
told that they wrote one event (`ClaimInv`); rows never outnumber events
(`RowsCounted`). With both, a commit is the abstract `Record` of one whole call, a
return is `Deliver` with a true answer, and every other step stutters.

**The export** (`OutboxDrain_proofs`). `DrainInv` says what a drain holds at each of its
steps. Two drains may share a tmp file; with no error and no death, each emptying of an
inode is followed by a write through the same descriptor, so all is whole when all are
idle. A single drain has its files apart from those already published (`FilesApart`) and
walks the rows in the order of their ids (`WalkInOrder`), so each rename is the abstract
export of one event after its elders. Without the hypotheses both statements are false,
as section 5 says.

**Imports** (`OutboxDrain_proofs`). The rows have one id and one key each (`LedgerIs`) and only
grow, so a line that has its row keeps it (`Grows`). An import is a fold of its lines over
the rows, and after each of them the rows hold those before it (`Played`). `ImportIs` says
what an import owes by its answer and mode, `JobIs` what a process that runs one has done
of it, and `FilesAre` that an artifact nobody shares has the lines of its own file. The
single mode stages a copy outside the lock; its replacement is of the rows it was made
from, because the fingerprints are compared in the same step (section 5 on that).

**Forecasts** (`ForecastScoring_proofs`). A guard read before a row exists says nothing of
the row, so the invariant needs `NothingAwaits`: the superseded end of each edge, blind
commitments and scores are rows that exist, and a forecast knows no outcome beyond those
on record. For the lifecycle, a step without an edge by hand only adds to the live scores
of a forecast, and one with an edge only takes from them (`ScoreStep`, `CorrectStep`). The
queue is about journals in which no outcome is superseded (`NoCorrections`).
A walk has shown, at each page, what lies at or above its cursor, and the cursor sinks
(`Walked`), so it ends and has shown all. What a report counts by the time of a
score and what it counts by the outcome are one, because an outcome gives a forecast one
score and scores are in the past (`TimesFit`); a market has one head (`OneHead`).

**Migrations and signals** (`Storage_proofs`). Both decide before they lock, and what saves
them is SQLite's refusal of a writer whose first read is older than the last commit.
`StorageInv`: what a process has found, and has not been refused for, is what the disk
still says (`FoundIsSo`); the image it writes holds a first part of the migrations
(`ImageIsPrefix`) that starts where the disk ends (`StartsBehind`); two answers never
name one migration (`OneInit`).

**Journal files** (`Storage_proofs`). `JournalIsTruth` is stated while nobody has had the
journal open as its files were replaced, no last connection has closed during a copy, and
no death has left a replacement half done: the code secures none of them (section 5).
Then all who have the journal open are on the files the names stand for, a frame of the
log holds all its page held before, so a checkpoint only adds to the main file, and the
copy an import stages lies between what it saw and what the journal is by now
(`SeenIsBelow`): they are one when the last look finds the files as they were.
`MustHeld` says that what was committed when a backup began is in every place the copy
can still take a page from.

**Desk and queue** (`Desk_proofs`). The projection was built from the events and a subset of
today's snapshots (`Projected`), so a stored mark has a price that is still there to be
found. A rebuild nets one instrument from all of its entries (`Nets`), and a market is
the sum of its instruments; the sums are folds over sets, and `SumsAreOne` shows that
the order does not matter. A row of the queue that stayed was shown or lies behind the
cursor (`WalkIsOn`), because the cursor is a place in the order and not a count
(`PageIs`). The packet of a bootstrap is of the moment its one transaction began.

**Memory, strategies, audits** (`Knowledge_proofs`). Edges and counters are folds over
sequences: a fold has a value after each element (`WiredIs`, `CountedIs`). A call that
was answered is done (its node, its edges, its event are there), rows are only appended,
so it stays done and its replay finds everything.
A reader knows at each of its statements what was replaced before it began (`ReaderIs`),
and every replaced node it may score has lost the discount. A replaced node that
is first in all three rankings scores 3/61, one not replaced that is nth in a single
ranking 4/(60 + n), times the same importance: with at most 21 nodes the second is more,
with 22 it is less, hence the bound.

**Evidence** (`Evidence_proofs`). Rows are only appended, so what a record says and what a
policy demands does not change under it. A fold over the levels of a book (`WalkIs`)
never fills more than is on offer within the limit. For the readiness reports, a standing
defect goes on standing and the query that looks for it, whenever it comes, finds it
(`Reading`). The windows of a trend fall from the newest resolution (`EdgesFall`), reach the
oldest or say that they were cut, and each begins where the next one ends (`PanesAre`). Two
instants in one local time sort as they follow each other, unless they share a second
(`SameSecond`) or the clock was put back between them (`OutOfOrder`); since that is less than
a window, an edge a whole window away sorts as it should, and an edge between two windows is
the same string to both (`OneWindow`). A score reaches the diagnostics once per decision, and the pair of forecast and score is the
same each time (`DiagnosisIs`); both need that a score names a forecast on record, the
foreign key (`ScoreRow`). A journal of sources is in order when its events say what its rows say
(`Orderly`), each part of a capture keeps it so and only adds to it (`Follows`), and a
key that was used leads to the row it was used for (`OnceIs`). `SourcesAssumption`
asks that a content hash stated by a caller of source.add is the hash of its content,
which the code does not verify (section 5), and that the inline objects given at the
start have no id of their own.

**Markets and reviews** (`Markets_proofs`). An outcome is one per market because the look at
existing outcomes is inside the transaction that inserts; a row is written with an event
that is new, or found under the same key with the same content. In `Review` what is
committed names nothing that is still to come (`OrderInv`, from foreign keys: the
assumption on `Histories`), so a table read later holds what one read earlier names, and
a case bundle of a settled moment (no row stamped before it waits to commit) is the same
whenever it is asked for. In `Promotion` the rows have one key and kind each
(`KeysAreUsedOnce`), the steps of a plan have keys of their own, and the ids a process
holds are those of its bundle's rows (`Filed`): so the row a used key answers with is the
row the child would have written, and what lies behind a process's step is in the journal
(`Landed`). The number of a source is what follows the first segment "source" of a key;
`PlainParents` asks that this is not one of the caller's own segments, and without it
the statement is false (section 5).

**Arcs** (`Markets_proofs`). Under the prefix of an order nobody but its agents writes, so
each row under its keys is the one that the key's step makes of this order (`RowsAre`,
`IsMade`), once (`RowsOnce`). A call that finds its key used therefore finds the row it
would have written, and is not refused; the ids an agent holds are what its order means by
them (`KnowsRightly`), whichever agent got them, and what lies behind its next step is in
the journal (`OnPlan`; with `JournalIs` the invariant `ArcsInv`). The status walks from any
row of the arc: within two rounds it has the decision, by an edge, by the source that
thesis and forecast share with it, or by the list of the instrument (`FindsDecision`), and
the round after it has all that the decision leads to (`FindsAll`). `PlansFit` bounds the
decisions so that the list, cut at `max_related`, holds the one of the arc; without the
bound the status can miss it.

**Induction.** The library's induction theorems take an operator as a parameter, which the
installed provers cannot instantiate. `LeastNatural` takes its place: a set of naturals
that is not empty has a least element, so a claim about lengths or sizes is shown by the
least one at which it would fail. Folds of the community modules, sums and maxima of
finite sets are treated so.

**Only model-checked**: liveness (`LockReleased`, `Drained`), which is out of the prover's
reach.

## 5. What the code does and the documents do not say

Checked as violation runs (see `PROJECT.json` for the quoted lines): a backup taken
beside a client that closes may hold half of a transaction under a matching hash; two
lessons retained without keys may share a derived key, and the second is answered ok
and stored nowhere; a scored forecast fails when a second final outcome names none of
its sides, where `scoring.md` 4.4 has it that a score stands.

Seen while modelling, described here and not run, by component.

**Export, import, files.**
- Two concurrent drains can publish an empty file for an instant (`exporter.py` 208;
  `operability.md` 394). `attempt_count` has no cap, unlike `operability.md`; a child may
  be exported while its parent has failed.
- `journal.restore` overwrites the main file in place and leaves an older WAL beside it;
  `operability.md` 5.3 says that it atomically replaces the file and resets the WAL.
- `import.commit` (single) compares fingerprints and then replaces two files one after
  the other: a commit after the comparison is lost (`operability.md` 3.4: "a second
  writer never silently loses a write"), and a death between the two leaves the new
  main file beside the old WAL (`imports.md`: "atomically replaces"). The staged copy
  is in the system's temporary directory, so the rename fails where that is another
  file system.
- A line without a key is imported again by each import (`_dispatch_row` opts out of the
  key for it, while `imports.md` 54 requires one), and an exported line carries none;
  a line that repeats an id fails with a storage error, also when it says the same
  (`imports.md` 2.3: a conflict, and only for another payload).
- import.csv_fills writes its artifact under a folded run id: two runs whose ids differ
  in punctuation share it, and one can be answered ok for the other's lines
  (`Alone` in `ImportIsWhole`). Its default run id is the time of the call, so a plain
  retry imports every row again. A sell becomes a long row like a buy.
- Two journal.init at once: the loser gets `SchemaMetaMismatchError` or the text of an
  SQL error. A power loss may take the last answered commits (`synchronous=NORMAL`).

**Forecasts and scores.**
- `report.calibration` counts a forecast once for each final outcome that is not
  superseded; two finals without an edge count it twice (`scoring.md` 5.1 speaks of
  the latest row). `ReadersAgree` states what does hold.
- A late forecast is scored unflagged by a later outcome (`_scoring.py` 167;
  `dogfood-protocol.md` 107). `ScoreGuard` is about the outcome the score is given for.
- A scored forecast becomes pending again when its outcome is superseded by a
  disputed one (`scoring.md` 4.4 says no transition leaves `scored`), and stays
  pending beside a live final when `memory.link` retires the outcome it was scored
  against, since no scorer runs there.
- `forecast.supersede` answers ok for any use of its key (`forecast.py` 658).
- `resolve.pending` drops failed forecasts, which its comment says remain.
- `forecast.reveal_snapshot` accepts a snapshot recorded before the forecast.

**Desk, queue, bootstrap.**
- After a snapshot with a bid and no price, `report.pnl` marks a position at the last
  price and `report.open_positions` shows the mark of the last rebuild, although
  `remark_open_positions` says that "every PnL surface reports the same number". The
  exposure reports also negate the quantity of NO positions once more than `positions`
  does: YES 1 and NO 1 add up to a directional quantity of 2.
- A `review` decision does not close a due watch, although its closure condition
  ("is reviewed") and the matrix ("review or resolved decision") say so; an overdue
  watch under a playbook is reported as `adherence_due` and later not at all;
  `report.watchlist` lists every watch decision ever made; any outcome, also a disputed
  one, closes `resolve_due_forecast` (`PRD.md` 419).
- `decision.add` accepts `paper_enter` on `flat_neutral`, which the rebuild then
  refuses with a storage error.
- Two rows of the queue may share an item id, and a page between them skips one; a
  watch that goes from stale to due between two pages is skipped. A bootstrap section
  emptied for its characters says "section_not_requested".

**Memory, strategies, playbooks.**
- memory.recall ignores `as_of` for hard invalidation (`memory-layer.md` 180), reads in
  statements without a snapshot, and cuts to k before it filters by confidence;
  recall receipts never flag superseded nodes as stale (`memory-layer.md` 345).
- A retain whose replay finds its node writes a lost supersedes edge but no
  invalidation, and answers with the body it did not save; a keyed reflect for
  another target adds a second about-edge.
- `meta_json` of a strategy is in no event: an update of it alone logs an event with
  everything as it was (`strategy.py` 583, 618). `persistence.md` 8 has it that changes to
  these rows "are audited through the `events` log", and that a replay of the log gives
  the same state.
- `strategy.update` compares a replay with the current row: a pure retry after another
  update conflicts. Its derived key has the id and the status only.
  strategy.create, playbook.create, propose_version and record_adherence never report a
  conflict on a replay.
- Two keyless idea.capture calls with different thoughts derive one key, and the second
  is refused. source.add stores the content hash it is given without a look at the
  content: a capture that finds its child key `<key>:source` used with its own hash
  takes that source for its own (`ideas.py` 128 and 153).

**Evidence and readiness.**
- A handler that dispatch runs twice (a busy lock) appends its caveats twice to the
  caller's list: the faithful re-send then conflicts (`pretrade_intent.py` 178,
  `README.md` 145).
- A verdict is not always recordable verbatim: two rules that share a default id violate
  a constraint. The guard of risk.check_record does not compare missing and stale flags.
- A reconciliation sent again after the ledger moved conflicts; a stated diff severity
  overrides the derived one; paper fills and waiver breaches ignore `as_of`;
  abstention.record and interpret_resolution never conflict.
- What a record keeps is less than what was asked: a paper fill sent again with another
  middle price or bound on the age of the book is answered with the stored row when the fill
  comes out the same (`paper_fills.py` 238), and likewise with another book when its evidence
  states its own `book_levels`; evidence_stale of an intent counts only by its caveat, and a
  diff severity only by the severity.
- "The newest window ends one second after the most recent resolution so that resolution is
  included" (`autonomy_readiness.py` 99): not always. In a local time whose clock was put back
  between a resolution and that end, and in UTC for a fraction of the second in which the
  oldest window begins, a score is in no window and `truncated` stays false. `MayMiss`
  lists the cases, and each of them occurs in the run.
- An open critical reconciliation stays open for ever; the remedies that audit_readiness
  names cannot clear its findings. The phase gate reads without a snapshot, so
  `paper_fill_coverage` may exceed 1 or pass though it never was enough; `resolved_n`
  counts late rows, and the trend does not; forecast_diagnostics counts scores of
  superseded rows that calibration leaves out; the autonomy report says that nothing is
  missing when its windows are cut.

**Markets, promotion, review, arcs.**
- outcome.fetch of an unresolved market records "resolved_final"/"unknown" and never
  `RESOLUTION_NOT_AVAILABLE` (`contracts.md` 275); a market that closed is cached for
  ever; an older view can overwrite a newer one, since the stamp is the time of the
  write; refresh under a reused key changes the row without an event; market.bind
  under a used key answers the first market; a caller's resolution rule is lost at the
  next refresh; a bid of 0 counts as absent; a retried fetch_series adds its rows again.
- The keys of market.scan's children contain the action and ":source:", so a bundle
  promoted again with another action, or a parent that ends like a child, repeats or
  conflicts. The number of a source is read back from the first ":source:" of a child's
  key (`market_scan.py` 324): under a parent key that has a segment "source" itself
  all sources are filed as one, and the attachments join the first source only, where
  the comment at 342 says "without collapsing repeated source/edge resources". `Markets`
  has no such parent; one makes TLC refute `BundleIsWhole`.
- decision.add does not look whether the instrument, the forecast, the thesis and the snapshot
  it is given belong together (`decision.py` 268), and review.bundle takes outcomes by the
  instruments of the decisions and scores by their forecasts (`review_bundle.py` 245): a
  package can hold a score without the outcome it was given for, also when nobody else
  writes. The histories of `Markets` have such decisions; asked for every outcome,
  `ScoresHaveOutcomes` would fail on them. The labels of replay.case_bundle are joined likewise.
- review.bundle reads without one snapshot, shows the stored scoring state, which is
  always "pending", and cuts receipts before it filters them. replay.case_bundle leaves
  out outcomes recorded before `as_of`; a forecast-only decision case shows the
  probabilities; a bundle is not repeatable while a row stamped before `as_of` waits to
  commit (`RepeatableAsOf` asks for a settled moment).
- journal.bundle.plan lets the reflection be skipped when a memory node is supplied, but
  the status asks for it; an arc with a forecast lacks its scoring for ever, because
  the stored state is read.

## 6. Not modelled

Power loss (a crash here is the death of a process), a rename whose directory is not
synced, SQLite itself (one writer at a time, atomic commit, its rule for deferred
transactions), the arithmetic of scores and reports beyond what a property needs, text
filters, redaction, formatting. The other reports only read, by queries of the kinds
modelled here; the fixtures and the CLI and MCP front ends feed `core.dispatch`. The
components marked `partly` or `not_modelled` in `PROJECT.json` say what they leave out.

## 7. What is left

The reports on portfolio exposure and opportunity, strategy.show and the health report,
the JSONL tree of a backup.
