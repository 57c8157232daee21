# Agent Odometer: TLA+ models, checks and proofs

Agent Odometer is a desktop application (Rust under `src/src-tauri/src`, Svelte
under `src/src`) that reads the transcripts coding agents leave on disk, keeps a
durable history of their token usage in SQLite, and shows totals, prices, quotas
and alerts.  This directory models its logic: first of all the parts whose
correctness depends on the order in which threads, processes, crashes and other
programs' edits happen, then the computations over what they keep.  TLC checks
the models on small instances; TLAPS proves the safety properties of nineteen
modules for every value of the constants.

Contents: 1 Inventory, 2 Modules, 3 Runs, 4 What the checks show,
5 Disagreements, 6 Proofs, 7 Left out, 8 Plan.

## 1. Inventory

Paths are relative to `src/src-tauri/src`.  `PROJECT.json` gives every
component's sources, and why one is modelled in part or not at all.

### The durable history and the threads that write it

| Component | State | Operations | What is hard | Modules |
|---|---|---|---|---|
| Scan lifecycle and exclusive writers (`store.rs`, `commands.rs`, `lib.rs`) | `AppState`: `history`, `scan_generation`, `durable_writers`, `config_transition`, `scanned`, `rebuild_status`, `rebuild_cancel_requested` | `spawn_scan`, `set_config`, `rebuild_history`, `cancel_history_rebuild`, `purge_retained_history`, `reopen_history`, `spawn_history_open` | a superseded scan still drains while its successor starts; every early return has to give back the reservation; a cancel outlives its rebuild | `DurableWriters` |
| Hour rollups (`history_store.rs`, `store.rs`) | event rows, hour rows, `rollups_stale`, `rollups_pending`, the in-memory distrust of sessions | deferring batches, watcher writes, rebuild, clearing, opening | a crash between facts and rollups; the watcher adds to a bucket that is behind | `RollupDeferral` |
| Range totals (`history_store.rs`, `query.rs`) | hour rows and edge events | answering a batch of windows | hours cut at both ends, whole, archived or running | `RangeTotals`, `Absent` |
| Publication of sessions (`store.rs`, `watcher.rs`, `scanner.rs`) | `source_locations`, snapshots, the resident projection, `session_paths`, generations | watcher event, scan batch, correction, `finish_scan`, rebuild, settings change | a removal between a batch's reservation and its commit; reads published out of order | `SessionPublication` |
| Retention and recovery (`history_lifecycle.rs`, `history_recovery.rs`, `history_integrity.rs`) | policy, previews, tombstones in the database and in a journal beside it, coverage and loss, recovery marker | save, preview, purge, open, recover, prove a window complete | crashes between journal and deletion, a torn line, a stale confirmation, a corrupt database | `Retention` |
| Lineage (`history_store.rs`) | sessions by identity and fingerprint, collision markers | reconcile, observe | provisional fingerprints, copies, divergence, replaced files | `Lineage` |
| Schema versions (`history_store.rs`) | tables, columns, backfilled rows | `migrate` | a kill between any two versions; a row one backfill cannot read | `SchemaMigration` |
| Scan cache (`scan_cache.rs`) | rows with stamp, identity and generation | lookup, store, touch, prune | overlapping scans; two spellings of one path | `ScanCache` |
| Parsers and watcher slots (`parser.rs`, `claude_parser.rs`, `gemini_parser.rs`, `tool_*.rs`, `watcher.rs`) | a parser at an offset for each path | apply a line; resume, start over, publish | replayed usage, resumed files, a file replaced between look and read | `ToolTelemetry`, `TranscriptParsers`, `TranscriptIngest` |
| Transcript inspection and search (`transcript*.rs`, `history_search.rs`) | cursors, a retained snapshot | page, continue, search | growth, rewriting, records over the limits | `TranscriptReading` |

### What is kept about sessions and computed from them

| Component | State | Operations | What is hard | Modules |
|---|---|---|---|---|
| Projects and organization (`project_identity.rs`, `history_organization.rs`) | overrides, merges, annotations, tags, searches | merge, split, undo, edit | chains of merges; editors in several windows | `ProjectGroups`, `Organization` |
| Curated datasets and comparisons (`history_curated.rs`, `history_experiments.rs`) | cases, change log, frozen comparisons, jobs | preview, commit, freeze, import, export | purge and rating changes between a request's steps | `CuratedCases` |
| Accounting export (`history_accounting_export.rs`) | reviewed previews | prepare, review, write | the ledger moves while the file dialog is open | `AccountingExport` |
| Rates (`rates.rs`) | the user's card and a backup | validate, resolve, upgrade | several releases' changes merged with the user's | `RateCards` |
| Usage reports (`query.rs`, `query_reports.rs`, `query_desktop.rs`) | one snapshot of the ledger | eight kinds of report | that two routes to one number agree | `UsageReports` |
| Workflow findings (`workflow.rs`, `history_workflow.rs`) | recorded findings and suppressions | compare, record, suppress | a report older than what it is recorded over | `WorkflowFindings` |

### Quotas, notices and other programs' files

| Component | State | Operations | What is hard | Modules |
|---|---|---|---|---|
| Quota windows, index and cache (`quota.rs`, `store.rs`) | points, contributions, a cached snapshot | fold in, evict, read | an increment that drifts from the whole | `QuotaWindows`, `QuotaReads`, `QuotaIndex` |
| Budgets, alerts and ambient notices (`quota.rs`, `quota_store.rs`, `quota_account_alerts.rs`, `ambient.rs`) | rules, log, runtime of conditions | evaluate, save, prune | told once over restarts, edits and failed saves | `AlertPolicy` |
| Attention alerts (`attention.rs`) | a file shared by processes | observe, save | a lock that is only tried | `Attention` |
| Live quota accounts (`quota_accounts.rs`, `quota_live.rs`) | a consent file shared by instances; what each holds of it | identify, approve, enable, pause, revoke, poll | consent changes while a request is under way | `QuotaConsent`, `AppServer` |
| Provider status (`provider_status.rs`) | an opt-in, a reading, a back-off | begin, finish, configure | tasks of an older opt-in; a wrapping generation | `ProviderStatus` |
| Action executor (`action_executor.rs`) | targets, backups, a journal of stage events | apply, batch, undo, recover | death between a replacement and its event; an owner's edit in between | `ActionExecutor` |
| Harness integration (`harness_integration.rs`, `commands.rs`) | the agents' hook files, private names, the setting | plan, exchange, verify, roll back, commit | edits by rename and in place at any step; a failure of the second file | `HarnessTransaction` |
| MCP entry (`mcp_integration.rs`) | one entry of a client's file, plans, a backup | preview, apply, remove, restore | the same file is the user's | `McpSetup` |
| MCP server and query control (`mcp_server.rs`, `query_control.rs`, `integration_activity.rs`) | active queries, workers, a log | request, withdraw, answer, end | a place, an answer or a worker lost when either end closes | `McpServer` |
| Settings and configuration timeline (`config.rs`, `config_events.rs`) | `config.json`, recorded changes | load, normalise, save; discover, merge, watch | builds of other versions; a discovery older than the watcher | `Configuration` |
| Instruction inventory (`instructions.rs`) | openable paths, an index for the next launch | scan, save, cancel, read | overlapping roots, superseded walks | `InstructionInventory` |

Not modelled: speed, receipt, impact and correlation reports, integration
status, action contract and Windows privacy, diagnostics, Git outcomes, the
reporting command line, paths and hashes, the front end and its clients.  They
keep no state another component relies on, or only call other programs.

**How they interact.**  The watcher, the scans and a rebuild write the same rows
through one SQLite connection behind a mutex, the in-memory projection, and the
two locks `config_transition` and `durable_writers`.  Reports, exports, curated
cases, findings and quotas read what they wrote.  Totals are right when no event
is counted twice or lost, what was removed stays removed, and no answer claims
more than the archive covers.

## 2. Modules

Every component has a module `M`.  Theorems about the large ones are in
`M_proofs`; those about the others are in three modules that extend several of
them: `History_proofs` (`DurableWriters` and everything `MCCatalog` composes),
`Readings_proofs` (`QuotaConsent`, `AppServer`, `QuotaIndex`, `ProviderStatus`,
`ScanCache`, `Attention`) and `Surfaces_proofs` (`McpServer` and the parts of `MCSurfaces`
that keep state).  A component whose specification takes model values is run as
it is; the others are given their small inputs by `MCRetention`, `MCReadings`,
`MCCatalog` and `MCSurfaces`.

**Composition.**  The durable core is composed by interfaces: `DurableWriters`
decides who may write and leaves out what; `SessionPublication` and
`RollupDeferral` model what scans, the watcher and rebuilds write, and let scans
and rebuilds overlap as `DurableWriters` shows they can; `Retention` keeps of
the scan its reservation and the one insertion it makes without looking at
tombstones.  `CuratedCases` extends `Organization`, `TranscriptIngest` extends
`TranscriptParsers` and `ToolTelemetry`, `UsageReports` resolves models with
`RateCards`, and `QuotaIndex` reads its points with `QuotaWindows` and refines
`QuotaReads`.  Components that share no state are explored in one run: a
variable `subject`, fixed by the initial state, says which of them moves, so
that their state spaces are added and not multiplied.

**DurableWriters.**  An element of `Requests` is one call of the desktop;
program counters follow the call and the scan thread it spawns; variables carry
the names of the `AppState` fields.  An action is what happens between two lock
operations.  `overlapped`, `disturbed` and `cancelled_by` only record history.

**RollupDeferral.**  A session's events are a count: in the transcript, in the
fact table (`facts`), in the hour buckets (`rolled`).  `Passes` are scans or
rebuilds that defer rollups; the watcher writes facts and rollups together.

**RangeTotals.**  What the buckets hold: an hour row is the bag of its events'
groups; a window is answered from the plan of whole hours and two edges and
compared with the sum over all events.

**SessionPublication.**  The watcher callback, one scan for each settings
generation and a rebuild, step by step, over the availability of each path in
the archive (`location`), the projection (`sessions`) and the arbitration
between them (`session_paths`).  The archive is open and its writes succeed; a
session has one path; a batch holds one path.

**Retention.**  Days instead of time; a key stands for a session's content; keys
of one identity and fingerprint form a group.  Purge (check, journal, commit,
removal), the watcher, the scan's unchecked correction, opening, corruption,
recovery with its marker, and crashes.

**Lineage, ProjectGroups, Organization, CuratedCases.**  `Lineage`: transcripts
are histories that grow, are copied, cut and replaced at paths; what each
observation makes of the rows of one identity.  `Organization`: an editor holds
what it loaded and saves it later.  `CuratedCases`: a request is a job whose
steps are its visits to the database; the change log is the set of its rows, each
with the revision that orders it.  `ProjectGroups`: the keys a walk along the
redirects visits are the least set that holds the first and is closed under them.

**SchemaMigration, AccountingExport, RateCards, UsageReports, WorkflowFindings,
TranscriptReading, Configuration, InstructionInventory, McpSetup.**  Each keeps
the data its properties tell apart: the schema as a set of tables and columns, a
card as functions from names to prices, a file as a sequence of units of the
sizes a record may have, an MCP configuration as "everything else" and one entry.

**Configuration.**  A save of the settings is staged, and then refused, written or
cut short; `running` is what the live watcher watches, and another build may write
between any two steps.  In the timeline a root has the flags its key is sorted by
(`SortKey`), which decide under which of two roots a file is looked up.  `watchable`
are the places a watcher could watch: a directory, all below it, or its hooks and
skills, each of which may be missing or refused when the watcher starts.  A
discovery reads file by file.  One harness stands for both, since no root of one
tracks a file of the other.

**InstructionInventory.**  A walk enters directories down to `DepthLimit` below the
outermost root it starts from, and a file that cannot be read is left out, both
without the mark of a truncated scan.

**TranscriptParsers, ToolTelemetry, TranscriptIngest.**  A parser is a record
and a line a function from parser to parser, for the three formats; the watcher
resumes one at an offset while the file changes; what it publishes is compared
with parsing the file as it is now from its beginning.

**QuotaWindows, QuotaReads, QuotaIndex, AlertPolicy, Attention, ProviderStatus,
AppServer, McpServer.**  Time is a counter that actions advance; a request under
way is a record kept between its begin and its finish.  A signal of `Attention` is
named by its event and its time; that of a turn that was rolled back has the time
of the last thing its session recorded, and is another signal whenever that moves.
`AlertPolicy` counts in `told` how often a key was told since it could be told
again; what its log lost or let go of may be (`Lost`, `LetGo`).

**ActionExecutor.**  A hash is the content it is the hash of; the journal is the
set of event files of each transaction.  Every write, backup and replacement may
succeed, fail before or after its effect, or be the last before a crash; owners
edit targets at any time.

**HarnessTransaction.**  Directory entries and inodes on Unix: staging,
comparison, exchange, verification of what was displaced, roll-back, the save of
the setting, commit and removal of backups.  Files are numbered in the order the
plan lists them.  Other programs edit by rename or in place, or delete.  A write
in place to an inode that has been verified and is about to be removed is the one
race the code cannot close; the property exempts it by name (`Doomed`).

**QuotaConsent.**  `runtime[i]` is the `Runtime` of instance `i`, `Load` its
reload of the consent file.  `identify` and `poll` are two steps with the command
line's answer in between; `approve` and `change` are two steps with the mutex
held, between which another instance may save.

## 3. Runs

Bounds are small because every property is about the interplay of few parties:
two calls and the startup scan already give every pair of writers; two passes
and a watcher every pair of rollup writers; two generations one supersession;
two targets one partial failure; two instances one stale reader.

| Run | Bounds | Result |
|---|---|---|
| `writers_calls` | 2 calls, startup scan, opener; fairness | passes, 43 thousand states |
| `rollups_ledger` | 2 sessions, 2 passes, 2 events, crashes without bound | passes |
| `publication_safety` | 1 path, 2 events, 2 generations, 2 file changes | passes, 1.8 million states |
| `retention_purge` | 2 sessions of different groups, 1 path, 3 days, 3 file changes, 1 saved policy, 2 crashes | passes, 1.4 million states |
| `executor_batch` | 2 targets, 3 contents, 2 transactions, 2 edits, 1 failure, 1 crash | passes, 1.9 million states |
| `harness_setup` | 2 files, 2 transactions, 2 edits, 1 failure, 1 crash | passes, 2.6 million states |
| `quota_consent` | 2 instances, 2 accounts, 2 approvals; unreadable files and restarts without bound | passes, 0.85 million states |
| `readings_told` | 13 subjects: 3 formats with up to 3 lines and 4 writes, 2 scans over 2 spellings, 2 sessions and 2 writers on an index of 2 points of 3 retained, one crossing of each kind over 1 edit and 1 fault, and one over 2 edits and 2 faults from settings without rules, 2 processes of attention alerts over 2 events in 2 sessions or, rolled back, in 1, 2 status tasks, 2 clients of the command line | passes, 1.0 million states |
| `catalog_sound` | 5 subjects: 2 sessions and 2 paths over 4 histories, 2 members and 3 project keys, 2 editors, 2 cases, 1 comparison | passes |
| `lineage_growth` | as `catalog_sound` | `OneLineageOneSession` violated |
| `surfaces_sound` | 11 subjects: 2-window batches over 3 events, 3 releases of a card, 2 ledgers, 3 previews, every older schema version and 2 kills, 2 views over 2 analyzers, 2 records and 2 snapshots of a transcript, 3 settings saves, 3 tracked files of which one changes twice over 2 starts of the watcher, 1 change of the instruction files over 2 scans, 3 sessions of reports | passes, 1.2 million states |
| `server_ends` | 3 ids, 2 places, 3 requests, a log of 1; fairness | passes, 89 thousand states |

In `readings_told` the alert log holds 4 entries for a tick: enough for what the
two conditions arm, too few for everything, so that entries are let go by age and
by number.  Beyond what the log holds at once `NoBacklog` would not do: a condition
whose entry is dropped while it lasts looks new (the code holds 500).  In the
timeline one file is in play in a behaviour, any of three: every definition but
the order in which changes are appended looks at one file at a time, and what is
stated is stated of each file.  The hooks of one directory may be unwatched, the
other places are watched.

`publication_safety` also passes with two paths (one event, two generations, one
file change; 2.3 million states).  Its threads treat each path by itself, apart
from the watcher's place in its queue.

**Fairness.**  `writers_calls` runs `FairSpec`: weak fairness of the steps of
threads that were started, the opener included.  The operating system schedules
them, and each lock or condition variable they wait for is held by another such
thread.  `server_ends` runs `ServerSpec`: weak fairness of the reader once its
input has ended and of every worker, by the same argument; the queries it waits
for end because `query_control.rs` gives each a deadline.  Nothing is assumed of
the user or of a client: calls may never come and a client may never read.
`EventuallyQuiet` then says that nobody waits for ever, `EventuallyScanned` that
the last configuration ends up scanned, and `ServerEnds` that the server does not
outlive its client.  Everywhere else time is a counter, and what must happen in
time is stated as a safety property over it (`NoBacklog`, `ServedIsCurrent`).

**Deadlock** is checked in `writers_calls`, `rollups_ledger` and `quota_consent`;
elsewhere the bounds end a behaviour (no more edits, crashes or days) and the
program rightly has nothing to do.

**Symmetry** is used for safety only, over sets whose members no definition
tells apart.

**Type invariants.**  `TypeOK` is proved for every module with a proof module
that declares one, so the runs of those modules spend no time on it;
`harness_setup` keeps it because a misnumbered inode is easily overlooked in a
model of names.

**Mutants.**  Every property of a passing run has at least one in `PROJECT.json`,
a composed property one for each of its parts: a definition with a plausible bug,
beside the definition it changes, under which TLC finds the property violated.

## 4. What the checks show

* The exclusive writers exclude each other and always give the reservation back;
  a status that says busy has an owner (`WritersExclude`); a cancel stops only
  its own rebuild; a ready archive is never replaced.
* No interleaving of scans, rebuilds, watcher and crash counts an event twice,
  and a rollup that is behind its facts is always marked so on disk.
* A removed file is not resurrected by a late batch, and a removal recorded by
  the watcher is on its way to the projection (`NothingReturns`, which is
  `TombstoneHolds` and `NoResurrection`); a superseded scan adds no transcript to
  the archive or to memory (`SupersededScanAddsNothing`: one past its last check
  still marks rows missing, only until the next scan has begun, and republishes
  them); memory never shows content the archive lacks.
* What was purged stays purged through crashes, corruption and recovery; the
  journal stays readable; a purge deletes what was reviewed; coverage is never
  overclaimed for what was erased.
* A batch of actions is all or nothing, the journal never denies what was done,
  and an owner's edit is lost only in the race the code admits.
* No text of the owner of a hook file is lost, a failed setup is undone file by
  file, and the hooks that remain are those the saved setting asks for.
* A quota reading is shown only under the approval it was polled under; no
  instance restores what another revoked; a denial that could not be saved holds.
* `ReadingsAreTrue`: the watcher ends with the session a reading from the
  beginning gives, vouches for no version of a file it has not read, a session's
  figures add up over turns, models and tools, a row of the scan cache is the
  session of the file it names, and every quota window shown is honest about its
  age and support.
* `IndexAgrees`, `ImplementsReads`, `ServedIsCurrent`: the incremental quota
  index reads what a computation from nothing may read, step by step, also of
  points of one instant; it holds no more than it may; nothing older than its age
  is served.
* `NoticesAreEarned`, `NoBacklog`: a crossing is told at most once through
  restarts, failed saves and edits, as long as the log has it; the log lets go of
  it by age or size, and loses it when a process that could not read
  `quota-v3.json` when it started saves over it (`Lost`, section 5).  An attention
  event is told once, a rolled-back turn again only after its session recorded
  something later.  A start, a pause or the end of quiet hours is no occasion for
  news; nothing of a provider is polled or shown without consent.
* `CatalogIsSound`, `CatalogStepsAreSound`: each durable session accounts for its
  history once, each member is in one project, and what an editor, a campaign or
  a comparison commits was seen and reviewed as it still is.
* `SurfacesAreSound`, `SurfaceStepsAreSound`: a window's total is the sum of its
  events; the user's prices survive every upgrade; what is exported is the ledger
  as it was read under the locks; only the own MCP entry changes; a migration
  killed anywhere can be continued; findings, searches, settings, instruction
  scans and reports are what their sources say.
* Of the settings (`SettingsAreKept`, `ForeignSettingsSurvive`): what was saved is
  what is scanned; unless another wrote the file, what is watched is what it says,
  whichever step of a save failed; a save keeps what its window was shown of other
  builds' settings, and each provider only they know.  What they added after the
  window was opened to settings that it does show is lost (section 5).
* Of the timeline (`TimelineIsTrue`, `SnapshotCatchesUp`): changes are told once
  and in order, nothing that was there is told as new, and what is recorded
  catches up with what the watcher is told of.  The exceptions are in the
  formulas: a file under two roots of which one had a baseline (`mixed`), a
  content that returns (`NeverReturned`), a change in a place that is not watched
  or dropped with the old watcher (`missed`).
* The MCP server answers every request once while its output stands, keeps to its
  places, gives no result of a query withdrawn in time, and ends with its client.

## 5. Disagreements

### With a run

**One lineage, two sessions** (`lineage_growth`; `PROJECT.json` quotes the lines
of `docs/ARCHITECTURE.md`).  A transcript that gains its first turn while it
still has no token event is stored as a collision record beside the row it
already had.  The `UNIQUE` key then refuses a third row with the same marker.

### Definitions TLC violates, without a run of their own

Each is stated in its module and is violated when it is checked in place of the
run's properties, on the bounds named.

* `RebuildEvidenceUndisturbed`, `ScannedMeansCurrentScan` (`DurableWriters`,
  2 calls).  The scan flag is one Boolean: the superseded scan's release clears
  its successor's, and a rebuild is then measured across the successor's writes;
  `scanned` may be stored for a generation that has been superseded.
* `WatcherLeavesExactRollups`, `ClearingCoversEveryMarker`,
  `UnchangedOutcomeKeepsDistrust`, `RebuildClearsMarkers` (`RollupDeferral`,
  1 session, 2 passes, 2 events).  The watcher adds only events new to the fact
  table, but removes the session's distrust; markers are cleared for sessions
  deferred after the rebuild's transaction, and other markers outlive a rebuild.
* `FinishSparesLiveFiles`, `RebuildResurrectsNothing` (`SessionPublication`,
  1 path, 1 event, 1 generation, 1 file change), `CorrectionSparesLiveFiles`,
  `ProjectionFollowsArchive` (2 changes), `WatcherStampsCurrentScan`
  (2 generations, no change).  A file observed before the scan took its durable
  generation is skipped by the scan and then found unseen; a rebuild has no
  arbitration with the watcher and writes a removed file present.
* `AccountingProofCoversRefused`, `PurgedBudgetsStayUnavailable` (`Retention`,
  1 session, 3 days).  Usage refused after a purge lies in a window claimed
  complete.
* `InterruptedUndoIsReconciled` (`ActionExecutor`, 1 target, 2 contents,
  1 crash).  An interrupted undo, retried, is journalled as an external edit.
* `ChangeIsAccountScoped` (`QuotaConsent`, `QuotaConsent_instances.cfg`).
  Pausing one account after a refused save, or after the file was unreadable for
  a moment, saves the others as paused too; `quota_accounts.rs:408` says enabling
  and disabling are account-scoped.  It denies too much, never too little.

### Met while modelling; the models follow the code

* Quotas.  A budget crossed for longer than the log's 30 days is told again.
  `quota.rs` says that no production call site removes a session outright, while
  `store.rs:732` and `:2046` do.  A reader of old settings may cache under the
  old `max_cache_age` for up to 30 s after `save_quota_config`.  "A retraction
  can only ever expose points already inside the retained cushion" fails once
  more points than the cushion holds are withdrawn (`CapsAssumption` bounds them).
  When `quota-v3.json` cannot be read at the start, `quota_store()` keeps the
  defaults (`store.rs:2117`, `quota_store.rs:172`); if what is on disk differs from
  them in its log only, the revision `persist_quota_notification_log` compares
  (`store.rs:2215`) is the same and the next check saves a log without the earlier
  entries, so that a condition told before can be told again once notifications
  are turned on.  `ToldOnce` excepts exactly this (`Lost`), and `readings_told`
  reaches it.
* Attention.  The signal of a rolled-back turn is named by its session's
  `last_event_at` (`attention.rs:496-505`), so that it can be told again after any
  later line of the session; `AlertedOnce` says so.
* Parsing and transcripts.  In `handle_token_count` an event before the model is
  known enters `tokens_history` and is folded again as remainder (comment at
  `parser.rs:727-738`).  A normal record that straddles the scan limit is
  continued as `record_too_large`.
* Projects.  A blank working directory is an identity for
  `resolve_with_directory_cache` and none for `resolve_project_identity`;
  `refresh_project_identities` has no production caller.
* Curated work.  A fingerprint that becomes final between reading the dataset and
  publishing an export leaves the exported one stale.  Removed bookmarks still
  count toward the limit of 500.
* Rates.  `merge_older_catalog` skips a bundled correction that moves the
  boundary between two untouched default periods (`rates.rs:1367-1383`, against
  the comment at 1297); `flat_rate_expires_at` uses `or_insert`; a default alias
  from before floating aliases is kept when its target changed in between.
  `price_turn` charges a model declared free that also has a row, `price_tokens`
  does not.  The heatmap shows whole hours where the window cuts one.
* Schema.  The step from version 10 to 11 uses SQLite's JSON functions on every
  snapshot, so one that is not JSON keeps the ledger from opening
  (`history_store.rs:3447`); other backfills skip it with a warning.  One comment
  says facts repopulate at the session's next observation, another only when its
  snapshot next changes.
* Workflow.  A report loaded while suppressed and recorded after the suppression
  was lifted writes the state `suppressed` with `suppressed=0`.
* MCP server.  A client may be told "busy" just after a reply.
* Settings.  A save restores only the providers that its window was not shown:
  what another build added, after the window was opened, to a provider that is
  mirrored or shown, or beside the providers, is dropped
  (`commands.rs:1653-1658`).  A save whose roots equal those it read does not
  restart the watcher or the scan, although another build may have changed them
  since these started.  `set_config` writes `config_version` 0, so that a file of version 2
  is relabelled 1 ("never falsely relabeled", `config.rs:214-222`), and clears
  Claude's `archive_roots`.
* Configuration timeline.  A file found under two roots of which only one had a
  baseline is looked up under the first root's baseline and the last one's scan:
  it may be told as removed, and later as new, while it is there, although a new
  root's first look should be silent (`config_events.rs:461-464`).  So it is when
  an instruction root names a session's project directory, or lies in a harness's
  home.  Hooks, skills or a root that are not there when the watcher starts are
  not watched until it is started again (`config_events.rs:657`, `:669`).  A notice
  pending in the replaced watcher's debounce is dropped; overlapping baseline
  discoveries put back a removed file and miss a change there and back; after a
  scan `config_events::start` uses the thread's old settings.
* Instructions.  Files deeper than `MAX_SCAN_DEPTH` below the walked root
  (`instructions.rs:606`), and files that cannot be read (`:491`), are left out and
  the scan is not marked truncated: `ScansAreComplete` claims the files within
  reach.  A configured root behind a pruned name below a recursive root is
  never walked; a superseded scan past its last check still returns its
  inventory; a non-recursive root inside a recursive one splits the effective
  chain below it; `list_instruction_files` reads its flag without the lock (the
  comment calls it benign) and `read_instruction_file` reads after the release.

## 6. Proofs

Every theorem holds for all sets and all bounds that satisfy the named
assumptions: bounds are numbers, sets are finite where cardinality is taken, and
`No...` values lie outside their sets.  Each proof has one shape: an inductive
invariant, `Init` implies it, one step for each action that preserves it, and the
property from it.

| Module | Proved | The inductive invariant, and why the property needs it |
|---|---|---|
| `History_proofs`, about `DurableWriters` | type, `WritersExclude`, `CancelWasForThisRebuild`, `ReadyIsStable` | which call is at which program counter, that a scan is spawned once, that the flag is exact unless two scans have overlapped (just how far the overlap reaches), that opening means `Pending` |
| `RollupDeferral_proofs` | type, `NeverOvercounted`, `ReadOnlyQueryIsExact`, `LagIsPending`, `OpenServesExactRollups` | the three invariants support each other: a scoped rebuild may clear markers because everything behind is pending, and the watcher's addition is bounded because nothing is ahead |
| `SessionPublication_proofs` | type, `PublishedIsDurable`, `SupersededScanAddsNothing`, `NothingReturns` | see below |
| `Retention_proofs` | type, `ErasedStaysErased`, `CoverageIsHonest`, `AccountingProofCoversErased`, `PurgeIsAsReviewed`, `JournalStaysReadable` | tombstones in both places, rows without dangling locations, who may be active together, and that the review still stands once checked; `ClaimsInv` carries the loss bound |
| `ActionExecutor_proofs` | type, `JournalTellsTheTruth`, `EditsAreChecked`, `BatchIsAllOrNothing` | see below |
| `HarnessTransaction_proofs` | type, `UserTextSurvives`, `FailedSetupIsUndone`, `HooksFollowSetting` | see below |
| `Readings_proofs`, about `QuotaConsent` | type, `ShownHasConsent`, `FailedDenialHolds`, `NothingIsRestored` | what an instance holds goes back to the file it last read, not to the disk; a request, a reading and a pending save are each tied to that file |
| `Readings_proofs`, about `QuotaIndex` | `IndexAgrees`, `ImplementsReads` | see below |
| `Readings_proofs`, about the cache of `QuotaIndex` | `ServedIsCurrent` | what is cached was computed under the present settings or in the tick of their last change, and a reader of older settings is still in that tick (`CacheInv`) |
| `Readings_proofs`, about `AppServer` | `ReadingsAreApproved`, a part of `NoticesAreEarned` | types of the conversation and its messages (`ConversationTypes`); otherwise the property supports itself |
| `Readings_proofs`, about `ProviderStatus` | `OptOutHolds`, a part of `NoticesAreEarned` | a task's opt-in is not newer than the present one and is that of its generation (`OfAnOptIn`), and a row belongs to the present opt-in and was attempted in it (`RowIsCurrent`); a back-off is never below the interval |
| `Readings_proofs`, about `ScanCache` | `CacheTellsTheTruth`, `NewestScanKeepsItsRows`, a part of `ReadingsAreTrue` | a scan's first look at a file is no later than the second (`LookedAtEarlier`), so that two looks with one stamp have seen one content (`ReadsAgree`); the newest scan's generation marks what it has read or written (`Marked`); a rebuild holds rows of the present parser (`RebuildInv`) |
| `Readings_proofs`, about `Attention` | `AlertedOnce`, a part of `NoticesAreEarned` | what was told is stale or not newer than its session's watermark in the file (`Remembers`), and the file has the time of the last alert (`ToldIsRemembered`); its event is among the signals still, as told or rolled back since (`ToldIsThere`); an alert in memory is of a category its process chose (`ChosenOf`) |
| `History_proofs`, about `Lineage` | `LineageIsSound` | see below |
| `History_proofs`, about `ProjectGroups` | `ProjectsPartition` | redirects end (`RedirectsEnd`): a cycle through a new redirect would have been a way from its target to its source, which `Reaches` refuses |
| `History_proofs`, composed in `MCCatalog` | `CatalogIsSound`, `CatalogStepsAreSound` | see below |
| `Surfaces_proofs`, about `McpServer` | `ServerIsSound` | every worker has its entry (`Placed`), answers are requests less what is at work (`AnsweredOnce`), and a query withdrawn in time is still withdrawn when its worker looks (`Withheld`) |
| `Surfaces_proofs`, about `McpSetup` | `OnlyTheOwnEntryChanges` | every plan, and what a restore goes back to, differs from the file it was made from in the own entry only (`SetupInv`) |
| `Surfaces_proofs`, about `Configuration` | `SettingsAreKept`, `ForeignSettingsSurvive` | whoever wrote the file last, what this build saved is still in it, in the shape of the writer (`SettingsInv`); the rest are lemmas on what each step of normalisation keeps |
| `Surfaces_proofs`, about `WorkflowFindings` | `FindingsAreEarned`, `FindingsMoveOn` | not only the rows but every report on view is earned, and was measured no later than now (`WorkflowInv`) |
| `Surfaces_proofs`, about `AccountingExport` | `ExportsAreTrue` | what a job carries was reviewed, and once it holds the locks is the ledger's (`ExportInv`) |
| `Surfaces_proofs`, composed in `MCSurfaces` | `SurfaceStepsAreSound` | the conjunction of the last four, for whichever part moves |

**What was removed does not come back** (`SessionPublication`).  That a gone file
is not shown present cannot be inductive by itself: for a while the archive and
the projection do say so, and rightly, because somebody has yet to take it out.
`RInv` names that somebody.  `Control` fixes where scans, batches, settings and
the rebuild can be; `Stamps` says that the newest durable generation is that of
the scan that runs; `PathInv(p)` says of each path that, when the file is gone
and the archive has it present, the watcher still has to hear of it or is
handling it, or a batch has yet to correct it, or the current scan has yet to
mark it missing, and the same for the projection.  An action takes one of these
parties away only by doing its work.

**The executor** (`ActionExecutor`).  `JInv` ties where a call is to its journal:
a prepared record has an exact backup, and the last writer of each target tells
what the journal of its transaction may say.  `BInv` is about the batch:
consecutive items over one target form a chain in which each expects what the one
before left (`Chained`), and at each step the set of transactions that may be in
effect is known (`Levels`); `Holds` derives from that set what an untouched
target contains.  With it, rolling back the last item of the chain gives the
state before it, whichever items failed.

**The setup transaction** (`HarnessTransaction`).  `Apart` says that no inode has
two names, so that an edit in place reaches one of them only.  `Shape` says which
private names exist at each step, and `PlanSound` what a plan carries over.
`Carried` is the reason no text is lost: from the comparison until the backup
goes, a planned text that must be kept is both in the file in place and in the
spare until somebody edits it, and an edit makes the later verification fail.
`DoomedIsSpent` says that what is about to be removed has no other text to keep.
`Followed` says of each file nobody touched that it is as before or exchanged,
which gives the roll-back and the hooks at the end.

**Lineages** (`Lineage`).  That two unmarked sessions share no event follows from
where events come from.  `SessionsAreWhole` says that a stored row holds the
history of its snapshot and a provisional one none, and that the rows of one
identity are flagged exactly when several of them are final; `PlacesAreParts`
that what is seen at a place is a part of the history of its session.  An
observation then grows a history by what shares its lineage (`WithSnapshotKeeps`,
from lemmas on prefixes), and an artifact that is found belongs to the session
that asks for it (`ArtifactOfKey`).

**Curated work** (`Organization`, `CuratedCases`, `MCCatalog`).  `Follows` is the
idea behind every confirmation: a revision is handed out once, so what still has
the revision an editor loaded is what the editor loaded.  `OrganizationInv` keeps
every editor behind the table it will save to.  `CuratedInv` has three parts:
what is stored (`JournalIsSound`, `CasesAreSound`, `ExperimentsAreSound`: the
last change of a case says what the case is, a frozen input is that of a stored
case), what a plan, a draft or a review remembers (true as long as the revision
it carries is current), and where a job is.  Every action is shown to move the
stored part on, never to hand out a revision twice (`DatasetMovesOn`,
`ExperimentsMoveOn`), and one lemma for each kind of memory concludes that it
stays.  The composition is proved for all constants, and the instance of the run
is shown to be one of its cases (`InstanceIsCatalog`).

**The quota index** (`QuotaIndex`).  That the index reads the newest observations
says nothing of what it has evicted, so it cannot be inductive.  `IndexInv` says
where what is missing stands: `NewerAreKept`, every observation of the corpus that
is not in the index is older than `Retained - lost` points that are, `lost` being
the points withdrawn since the index last held everything; as long as that is not
less than `MaxPoints`, the newest `MaxPoints` are there.  `Contributed` says that
what a session claims is exactly what the index holds of it, so that a retraction
takes all of its points and no others; `Published` that a session no two writers
have published at once is the one the index knows.  `FoldKeeps` is the step: what
eviction drops is older than all that stays, and what a session withdraws is
counted in `lost`.  With it every step of the index, its writers and its cache is
a step of `QuotaReads` or invisible, which is the refinement.

**What the proofs changed in the models.** Several attempts failed for a reason
in the model.  The second branch of recovery in `ActionExecutor` has to exclude
a transaction already found in conflict, and a roll-back after a failed attempt
may itself fail to read the journal; `McpServer` needs finitely many ids and
values outside the program counters for `None` (`ServerAssumption`); the files
of `HarnessTransaction` are numbered and what is still to be done is a set,
since the order of the plan decides nothing but who is next; the reference of
`QuotaReads` had ordered the points and accounts of one instant as the index
does, while the code's own reference takes sessions in the order of a hash map,
so that `FromScratch` is now the set of readings it may give and the run has
sessions with points and accounts of one instant; the change log of
`CuratedCases` is a set, as rows are found by their revision only, and a walk in
`ProjectGroups` is a least set; a batch of `Attention` is consumed as a whole, in
some order of its times, since of one batch only the first can be told.  `OrganizationAssumption`, `ProjectsAssumption`,
`LineageAssumption`, `CuratedAssumption`, `ExamplesAssumption`,
`StatusAssumption`, `CacheAssumption`, `IndexAssumption` and `AttentionAssumption`
say what the
constants have to be; TLC evaluates them in the runs.  The code was read again
for each.

**Model-checked only.** The liveness properties (`EventuallyQuiet`,
`EventuallyScanned`, `ServerEnds`): TLAPS has no fairness.  Of `readings_told`:
`NoBacklog`, of `ReadingsAreTrue` the watcher, the figures and the windows, and
of `NoticesAreEarned` what is told of budgets.  Of `surfaces_sound`: the parts
of `SurfacesAreSound` about ranges, rates, schema versions, transcripts, the
timeline, instructions and reports; `SettingsAreKept` and `FindingsAreEarned`,
its other two, are proved.  Those modules compute with folds over sequences,
bags and sums of their data, and what a fold computes for every input needs an
induction over data, which these provers do not do; a parser, a merge of rate
cards or a sum over hours is checked against its reference on all inputs within
the bounds instead.  No module uses a `RECURSIVE` operator.

## 7. Left out, and why

* Real time: poll intervals, back-off and expiry are counters or choices of when
  a step happens.
* SQLite itself: a transaction is one step; a foreign `-wal` file is not modelled.
* Windows: `ReplaceFileW` and access control lists.  Power loss during a rename
  that was not flushed.
* Failures that have no step of their own: a mark or the start of a scan between
  an export's last look at the ledger and the rename of its file; a directory that
  is deleted and made again while it is watched; roots that several providers
  share, which the settings refuse; sessions that have tokens but no usage record,
  which a workflow report counts toward its minimum; a client of the MCP server
  that keeps its output open and never reads it.
* Text: of prompts, hook entries, reports, reviews of upgrades and the interface;
  decoding of JSON; keyword lists; decimal arithmetic and floating point, which
  are small integers and pairs here.
* Moved duplicates of one session: `SessionPublication` has one transcript per
  session, `Lineage` alone has several; a key of `Retention` stands for one
  content, so a fingerprint that changes after a purge is not modelled there.
* The report modules without state (speed, receipts, impact, correlation) and
  everything that only starts other programs.

## 8. Plan

1. *More proofs about small components.*  The schema's steps and the instruction
   inventory, whose control does not depend on what their folds
   compute.
2. *Wider model.*  The front end's session store (revisions that arrive while a
   list is loading); a session with several paths in `SessionPublication`; the
   archive's opening in `DurableWriters` split into assignment and notification.
