# ContractForge in TLA+

ContractForge (`src/src/contractforge`) ingests data into Delta tables from declarative
contracts. A run reads a source above a watermark, checks its quality, writes
the target in one of six modes and records what it did in control tables. Runs
are started by an outside scheduler and retried by it. They share a target and
its control tables, and Delta makes each statement atomic but no sequence of
statements. Most of what can go wrong lies between two statements.

File and line references are to the repository. `ingestion.py:1191` means line
1191 of `src/src/contractforge/ingestion.py`.

## Inventory

| Part | State | Operations | Interacts with |
|---|---|---|---|
| `ingestion.py` orchestrator | locals of `ingest_plan`: `status`, `wm_prev`, `wm_current`, `prepared_df`, `effective_rows` | `ingest_plan`, a try/except/finally of about fifteen stages | every other part; called by streaming and execution windows |
| `state.py` control tables | `ctrl_ingestion_state` (one row per target), `_runs`, `_streams`, `_locks`, `_quarantine` and the write-only logs | `upsert_state`, `log_run`, `log_stream_*`, `find_idempotent_run`, `find_idempotent_stream`, `with_retry` | shared by all runs of a target |
| `state.py` lock | one row per target in `ctrl_ingestion_locks` | `acquire_lock` (MERGE, then read-back), `release_lock` (UPDATE) | orchestrator, streaming |
| `watermark.py` | none (reads state and target) | `get_watermark`, `apply_watermark`, `compute_watermark`, encode and decode | orchestrator, catchup |
| `writers.py` | the Delta target | six write modes, `affected_partition_values`, metrics | orchestrator |
| `quality.py` | none | row and table rules, split into valid and quarantined rows | orchestrator |
| `streaming.py` | stream log, checkpoint, batch results | `ingest_stream_plan`, `_process_batch` as a callback of Spark | lock, orchestrator |
| `execution.py` | results of the windows | window generation, catchup, child plans, `ingest_execution_plan` | watermark, orchestrator |
| `governance.py`, `bundles.py` | tags, comments, grants, filters and masks of the target; audit tables | apply annotations, operations, access; drift report | orchestrator, command line |
| `schema.py` | schema of the target | policy decision, type widening, deduplication, row hashes | orchestrator, writers |
| `sources.py` | cursor, pages and attempts of a REST read | connector resolution, pagination, retries, limits, pushdown, file listing | orchestrator, streaming |
| `maintenance.py` | old rows of the control tables | retention deletes, vacuum | command line |
| `cost.py`, `lineage.py` | logs of their own | read billing, emit an event | command line, orchestrator |
| `plan.py`, `contract_*.py`, `bundles.py`, `presets.py`, `shape.py`, `templates.py`, `cli.py`, `config.py` | none | parsing, validation, defaults, text | everything |

### Where it is hard

* Check, lock, write, save and log are separate statements. Runs interleave
  between any two of them, and a failure or crash may fall between any two.
* `acquire_lock` learns from a second statement whether the first one took the
  row. The lock has a TTL, and a run does not look at it again.
* The watermark of a target is a single row that successes and failures both
  overwrite. With no saved value it is recomputed from the target.
* Failures of control-table statements are swallowed in most places.
* `except Exception` does not see `KeyboardInterrupt` and `SystemExit`.
* `prepared_df` is a lazy query: each action may evaluate it again.
* Retries rely on an idempotency key that is looked up in a log written last,
  and that retention deletes.
* Every run creates and migrates the control tables, beside runs of another
  release.
* The schema of the target is compared in one statement and altered by others.
* Quality rules are SQL conditions: a row may be neither valid nor invalid.
* A source is read in several requests while it changes.
* Grants are read once, and changed one statement at a time.

`PROJECT.json` lists the hazards with their lines and the properties that
cover them.

## Modules

| Module | Role |
|---|---|
| `TargetLock` | the lock row and the three statements on it, as operators another module composes with its own steps |
| `Lease` | abstract specification: what a lock with a TTL promises |
| `IngestRun` | `ingest_plan` by several runs against one target and its control tables |
| `MCIngestRun` | the plans TLC starts runs with, and the symmetry of runs |
| `StreamRun` | `ingest_stream_plan`: several executions of one stream over one checkpoint, each a driver thread and a query that calls back |
| `MCStreamRun` | the plans TLC starts streams with |
| `TimeWindows` | `build_time_windows` and `_window_filter` as operators |
| `ExecutionWindows` | `ingest_execution_plan`: backfills and catchups as sequences of child runs, beside ordinary runs |
| `MCExecutionWindows` | the plans TLC starts executions with |
| `WriteModes` | `execute_write_mode`: successive writes of one contract in each mode, on tables as sets of rows |
| `MCWriteModes` | the contracts TLC writes under |
| `SourceRead` | batch sources and watermarks: loads of one contract from a source that changes while it is read |
| `MCSourceRead` | contracts of every kind of connector |
| `Preparation` | what `ingest_plan` does with a batch between read and commit: mapping, deduplication, schema policy, quality gates, quarantine, hook, merge checks |
| `MCPreparation` | contracts and rules, with the tables, schemas and rows they meet |
| `ControlTables` | the control tables: creation and migration by runs of two releases, key, lock and run log, retention |
| `MCControlTables` | the symmetry of runs |
| `Governance` | annotations, operations and access contracts applied to the catalog by concurrent calls, and their audit |
| `MCGovernance` | two versions of the contracts of a table |
| `IngestRunProofs`, `StreamRunProofs`, `ExecutionWindowsProofs`, `WriteModesProofs`, `SourceReadProofs`, `PreparationProofs`, `ControlTablesProofs`, `GovernanceProofs` | theorems and proofs |

The modules cut `ingest_plan` at different places. `IngestRun` has every
statement on shared state and treats the batch as a set of numbers;
`SourceRead` has what comes before the batch, `Preparation` what happens to it,
`WriteModes` what its commit does to the target. `StreamRun`,
`ExecutionWindows` and `ControlTables` reduce it to the statements they depend
on. `StreamRun` composes `TargetLock` with its own steps as `IngestRun` does,
and both are checked against `Lease`.

A module that has to be checked for several kinds of contract has them as one
constant (`Deployments`, `Contracts`, `Scenarios`, `Schedules`) and a variable
that `Init` sets to a member and no action changes. One run then covers all of
them, and the faults and the plans of a behaviour belong together.

Operators named "faulty variant" are unused: each is a plausible bug in the
operator next to it, kept to show which property would notice it.

### How `IngestRun` corresponds to the code

`pc[r]` names the next statement of run `r`. One action covers a statement that
touches shared state together with the local code up to the next such
statement:

| Action | Code |
|---|---|
| `CheckIdempotency` | `find_idempotent_run` and the policy (`ingestion.py:940-964`) |
| `AcquireLock`, `ReadBack` | the two statements of `acquire_lock` (`state.py:1070-1097`) |
| `ReadWatermark` | `before_read` hook, `get_watermark` (`ingestion.py:971-984`) |
| `Prepare` | `_prepare_dataframe`, schema checks, `count()` (`985-1018`) |
| `EvaluateQuality` | `evaluate_quality`, `write_quarantine`, `effective_rows` (`1019-1066`) |
| `Write` | `execute_write_mode` under `with_retry` (`1075-1111`) |
| `Finish` | `wm_current`, governance, `after_write` hook (`1113-1161`) |
| `SaveState` | `upsert_state(... "SUCCESS" ...)` (`1163-1178`) |
| `Raise`, `RecordFailure` | `except Exception` and its `upsert_state` (`1180-1204`) |
| `Interrupt` | a `BaseException` that passes the except clause by |
| `ReleaseLock`, `LogRun` | the finally clause (`1205-1262`) |
| `Crash`, `Tick`, `Emit` | the driver dies, time passes, the source grows |

`Raise` may fire at any stage before or after the commit and stands for what
the stages may throw. An exception in the finally clause itself, for instance of
`safe_unpersist`, skips the rest of it and so has the effect of `Crash` at that
place.

### How `StreamRun` corresponds to the code

`pc[s]` is the next statement of the driver thread, `query[s]` the place of the
streaming query it waits for.

| Action | Code |
|---|---|
| `CheckStream`, `LogStart` | `find_idempotent_stream`, the policy, `log_stream_start` (`streaming.py:201-253`) |
| `AcquireLock`, `ReadBack` | `acquire_lock` (`255-259`) |
| `StartQuery`, `AwaitTermination` | resolution and start of the query, `awaitTermination` (`261-291`) |
| `BatchCheckKey`, `BatchWrite`, `BatchSave`, `BatchFails`, `BatchLog` | `ingest_plan(sub_plan)` inside `_process_batch` (`265-275`) |
| `BatchReturn` | the end of `_process_batch`: append the result, raise on FAILED (`276-281`) |
| `ReleaseLock`, `Measure`, `LogLateStart`, `LogFinish` | the finally clause (`298-333`) |
| `RaiseBeforeQuery`, `Interrupt`, `Crash` | an Exception, a BaseException, the death of the process |
| `NextBatch`, `EndQuery`, `QueryFails`, `FileArrives` | external: Spark's offset log and commit log, the source |

The checkpoint is an assumption about Spark: a planned batch keeps its number
and its files, is delivered again until it is committed, and one query at a
time works on a checkpoint. `seesCallback` of a deployment is FALSE for Spark Connect, where
the callback fills a copy of `batch_results`
(`state.py:725-728`).

### How `ExecutionWindows` corresponds to the code

| Action | Code |
|---|---|
| `ResolveWindows` | `_resolve_windows`, raising included (`execution.py:84-102`, `150-154`) |
| `CheckIdempotency` .. `SaveState`, `ChildFails`, `RecordFailure` | `ingest_plan(child)` (`160`) |
| `LogChild` | the run log of the child and the rest of the loop body (`160-171`) |
| `Crash`, `Arrive` | the process dies, the source grows |

An ordinary run is an execution with one window that selects everything. A
contract of the constant `Contracts` names plans, faults and whether executions
may overlap. Rows
are event times of a finer resolution than the whole seconds window bounds are
written with (`Second`).

### How `WriteModes` corresponds to the code

| Action | Code |
|---|---|
| `Prepare` | the read, the deduplication of `_prepare_dataframe`, `_validate_merge_source_safety`, the return on zero rows (`ingestion.py:388-403`, `443-534`, `writers.py:708-727`) |
| `WriteAppend` | `write_append` (`217-233`) |
| `WriteOverwrite`, `FallbackDelete`, `FallbackAppend` | `write_overwrite`, its DELETE or DROP and its append (`236-281`) |
| `WriteUpsert`, `ReplacePartitions` | `write_upsert` by strategy (`284-343`) |
| `WriteHashDiff`, `WriteSnapshot`, `WriteScd2` | `write_scd1_hash_diff`, `write_snapshot_soft_delete`, `write_scd2` (`346-607`) |
| `Fail`, `Retry` | `with_retry` (`state.py:1113-1141`) |

The statements of a write that read the target and the commit that follows are
one step: Delta aborts a commit whose reads are stale, and `with_retry` starts
again. Delta's MERGE (ambiguous matches are refused) and the constraint check
of `replaceWhere` are assumptions. A key is one column; a row that a MERGE
updates keeps its identity `born`, so that a duplicate does not disappear in
the set of rows. `scd2_effective_from_column`, `changed_columns` and targets
from before `ingestion_ts_utc` are left out. Rows of one batch are distinct.

### How `SourceRead` corresponds to the code

| Action | Code |
|---|---|
| `Begin` | `get_watermark` (its state row may be unreadable) and `resolve_batch` of the connector up to its first request: `RestRead`, `HttpFileRead`, `JdbcRead`, `TableRead`, `FilesRead` |
| `ReadPage`, `RefusePage` | one turn of the loop of `RestApiConnector.resolve_batch`, or the single request of an HTTP file, with `max_page_bytes`, `max_total_bytes`, `max_pages` |
| `Retry`, `GiveUp` | `_request_with_retry` |
| `ReadPartition`, `QueryFails` | a task of a JDBC read, or the one query of a table, when the DataFrame is evaluated |
| `Refuse`, `OpenFiles`, `FileIsGone` | `_apply_file_regex_filter` and the evaluation of a file read |
| `Write`, `Save`, `FailLate`, `Fail` | `apply_watermark`, the commit, `compute_watermark` and `upsert_state`, success and failure |
| `Arrive`, `Vanish` | external: the source |

Pages by number or offset count records of the source as it is at the moment of
the request; a cursor or a link names the last record returned. A contract with
`snapshot_soft_delete` has no watermark columns (`ingestion.py:635`).

### How `Preparation` corresponds to the code

| Action | Code |
|---|---|
| `Read`, `Prepare` | `_prepare_dataframe` (`ingestion.py:357-443`) |
| `CheckSchema` | `_validate_plan` and `validate_schema_policy` |
| `AddColumns`, `WidenColumn`, `ReportChanges` | `sync_delta_schema`, one statement per step, and `log_schema_changes` |
| `Evaluate`, `LogRules`, `Decide`, `Isolate` | `evaluate_quality`, `write_quality_results`, `effective_action`, `write_quarantine` |
| `CheckMerge`, `BeforeWrite` | `_validate_merge_source_safety`, the `before_write` hook and the second check |
| `Write` | what a write does to the schema: `overwriteSchema`, `mergeSchema` or neither |
| `LogRun` | `_finalize_execution` |

Conditions of rules have SQL's three values.

### How `ControlTables` corresponds to the code

| Action | Code |
|---|---|
| `Begin`, `CreateTable`, `ReadColumns`, `AddColumns` | `ensure_ctrl_tables`, called before the try block (`ingestion.py:909`) |
| `CheckMetadata`, `RecordMetadata`, `MetadataConflict` | `_record_ctrl_metadata` and its retries |
| `Lookup`, `AcquireLock`, `Work`, `ReleaseLock`, `LogRun` | `ingest_plan` as far as keys, lock row and log are concerned |
| `StartRetention`, `DeleteOldRows`, `RetentionFails` | `apply_ctrl_retention` |

Three tables stand for fourteen: two that are migrated and one that is not.
`acquire_lock` is one step here; its two statements are in `TargetLock`.

### How `Governance` corresponds to the code

| Action | Code |
|---|---|
| `Validate` | `validate_governance_contract` |
| `RecordOperations` | `record_operations_contract` |
| `PlanAnnotations`, `PlanAccess` | `apply_annotations_contract`, `apply_access_contract` up to their loops, with `access_drift_report` |
| `Execute`, `ExecuteFails` | one turn of the loops |
| `LogEntries` | `log_annotation_entries`, `log_access_entries`: one INSERT per entry |
| `Check`, `ValidateAccess` | `governance_check` at the end of `apply_access_bundle`, `validate-access` of the command line |
| `ReportedStatus` | the status a call returns: `apply_governance_bundle` (`bundles.py:73`), `apply_annotations_bundle` (104), `apply_access_bundle` (142) |
| `ByHand` | external: an administrator |

`result` is the status of `apply_annotations_contract` or
`apply_access_contract`, an entry of the report and not yet the status of the
call. `ReportedStatus` makes the one from the other: SUCCESS always for
`apply_governance_bundle` and for an ingestion that goes on; for the other two
`WARNED` stays and `IGNORED`, `VALIDATED` and `NOT_CONFIGURED` become SUCCESS.
So SUCCESS alone means little. `AppliedStands` speaks of the calls that were to
apply a contract (`ToApply`: there is one, of a mode or policy that sends
statements) and goes by `ToldStatus`: the status the call returns or, where
that cannot be anything but SUCCESS, the status it reports of the annotations.

### Abstractions

* A row is a number and also its watermark value. The source appends rows with
  growing values. NULLs and composite watermarks are in `SourceRead`.
* The target is `scd0_append` and its commit one step, unless a module says
  otherwise.
* A missing target table is an empty one.
* Time is relative: `lock.left` is the TTL left. Once it is negative it stays there.
* `dry_run` is left out, since it writes nothing. Hooks may raise; hooks that
  replace the DataFrame are left out.
* `lease` and `saved` are ghosts: they record the time left of a lease and the
  runs whose SUCCESS was saved, and no guard reads them except `MayElapse`,
  which states the assumption on the TTL. `written` in `WriteModes` is one too:
  the content that the writes that ended well account for, by what their mode
  promises (`Applied`), the half done and failed ones left out.

## Runs and bounds

| Run | Instance | Shows |
|---|---|---|
| `ingest_safety` | three symmetric runs, two rows, TTL 0, one key; failures after the commit, failing control statements, crashes | exclusive access, no duplicates among successful runs, a truthful log, honest skips, successes never move the watermark back |
| `ingest_anything` | two runs, either locked, keyed and gated by `fail` or unlocked with quarantine, two rows of which one is bad; all faults | no row is skipped; the lock implements `Lease`; every run ends, the lock comes free |
| `busy_wipes_watermark` | **violated** | a failure before `wm_prev` is read wipes the saved watermark |
| `interrupt_logged_success` | **violated** | an interrupted run is logged as SUCCESS and its retry skipped |
| `streams` | two symmetric streams over one checkpoint, two files, three deployments: retries of a keyed serverless job; classic clusters with control failures and slow streams; the same with interrupts and crashes | no committed batch is missing; the lock implements `Lease`; every stream ends; in the first deployment no batch logs a second success, a logged SUCCESS is complete, metrics come from the run log, batches stay under the lock |
| `windows` | two symmetric executions, event times 1 to 5, four contracts: overlapping or successive ordinary runs and catchups; attempts of a keyed backfill, with generated windows or a list | the watermark passes no row that is not in the target; windows neither overlap nor leave a gap; SUCCESS is complete; unless executions overlap, no window succeeds twice |
| `write_modes` | three writes of up to two rows, two keys and NULL, two values, two partitions, fourteen contracts; failures, conflicts, the overwrite fallback | a write does what its mode says and nothing else, keys stay unique, versions are changes and are never lost; whatever failed or was retried, the target is the replay of the writes that ended well |
| `source_reads` | three records, eighteen contracts: every connector and kind of paging, JDBC partitions, file regex, limits, snapshots, no, one or two watermark columns; up to two faults | no record is passed over by the watermark; a read returns each record once; a snapshot deactivates nothing that is still there; every record is loaded by some load |
| `preparation` | one run over every batch of up to three rows with eight sets of rules, two modes, three policies, three hooks; two runs with drifting schemas; failing statements and crashes | every row read is in the target or in the quarantine, which holds what the failed rules reject; no MERGE gets an ambiguous or keyless batch; the schema changes only as its policy permits |
| `control_tables` | two runs of either release, from no tables, old or new ones, retention of a day; all faults | whoever comes through the setup finds every column, and somebody does; a keyed success holds for the retention of it; a live lock stands |
| `governance` | two calls with the same or with rival contracts, one change by hand; all faults | the audit is truthful; a call that was to apply a contract and says SUCCESS has it in force; nothing is changed or revoked that was not asked for and confirmed |
| `scd2_null_key` | **violated** | a current row with a NULL key makes SCD2 drop the new version of another key |

Two rows are enough for a watermark to move twice, to be ahead of a lost row
and to fall behind a row of another run. Three runs are enough for one to hold
the lock, one to lose the race and one to inherit what both left behind; two
are enough where the lock is not the question. TTL 0 is the shortest lease: it
lasts until the first tick and expires with the second, so that takeovers are
frequent; the lock does not count beyond that. Two files make one batch or two,
so that a batch is redelivered before another one and after it. Three records fill a page, leave
one half empty and need a second load. Four ticks of two per day let a date
change twice, so that retention deletes what a run still relies on. Three rows
of a batch are one duplicate and one other row. A second is two ticks
(`Second = 2`), so that every bound can be off a whole second. Bounds: `Runs`,
`Executions` and `Calls`, `MaxRow` (rows of the source), `MaxFile` (files of a
stream), `MaxTime` (event times, or ticks), `MaxBatch` (rows of one write),
`MaxWrites`, `MaxRecords`, `MaxFaults`, `MaxByHand`. Three
writes are enough for a key to appear, to change and to return to what it was.

`NoDuplicateReruns` and `NoWindowTwice` speak of logged successes, the former of
streams with a key. A batch or a
window that fails or crashes after its commit is logged as FAILED or not at
all, and its retry appends the rows again: append mode has no protection
against that, and none is claimed.

What the passing runs do not claim is a named part of the model or of the
property: `Undisturbed` (properties of streams whose deployment may disturb
them), `overlap` (executions that overlap, for `NoWindowTwice`), `RangeHasPassed`, the order
in which rows `Arrive`, `watermarked` backfills, `Pinned`, the `feeds` of a write contract (what its source may yield:
NULL keys, duplicates, keys that change partition), `Moves` and `Splits` (a
source that changes where the code relies on its holding still), `CutsLatest`
and `Reachable` (what `max_pages` cuts off), `FirstAlone` (first loads that
overlap), `disturbed` (catalogs changed by others), and the faults of each cfg.

Deadlock is not checked where a finite set of runs, streams or executions comes
to its end; `governance` has the action `Finished` instead and checks it.

### What the violations mean

Each is a disagreement between the code and the text it is documented with;
`PROJECT.json` quotes the text.

1. `FailureKeepsWatermark`. A run that finds the lock busy goes to the except
   clause with `wm_prev = None` and saves NULL as watermark with status FAILED.
   No row is lost, because `get_watermark` falls back to the target
   (`NoRowLost` holds), but the fallback is a full scan, and a target that
   filters or rewrites rows would give a different value.
2. `SkippedWorkIsDone` under interrupts. `status` is SUCCESS from its
   initialisation until the except clause changes it.
3. `WriteIsApplied` for SCD2 with NULL keys. Rows staged for insertion carry
   NULL merge keys, and the MERGE compares with `<=>`. Once the target has a
   current row with a NULL key, such a row matches it and is not inserted: a
   new key vanishes, with SUCCESS, and a changed key loses its current row.

### Further disagreements

Met while modelling and not kept as runs. Where a property shows one, it is
enough to add it to the cfg named, or to widen the constant named.

Orchestrator and lock:

* With `Pinned` FALSE, `ingest_anything` violates `NoRowLost`: the watermark is
  computed from a second evaluation of the source (`ingestion.py:1120`) and
  passes over rows that were never written, against `docs/usage-guide.md:315`.
* `release_lock` (`ingestion.py:1209`) comes before the run is logged;
  `docs/architecture.md:147-149` gives the opposite order.
* The docstring of `acquire_lock` says "há janela de corrida entre MERGE e
  read-back" (`state.py:1062-1063`), and `ExclusiveAccess` passes without one.
  It rests on two assumptions. `AcquireMerge` makes the MERGE one serializable commit:
  of two that overlap, Delta fails one with a conflict, which never adds
  a second row for the target. And `"slow"` is not among the faults: no run
  outlives its TTL. Then nobody can change the row between the MERGE and the
  read-back, since it is ACTIVE and has not expired, and a run that reads its own
  `run_id` keeps the row. With `"slow"` two locked runs may be at the target
  at once (`ingest_anything`, where what holds is
  `ImplementsLease`); a table that admits two rows of one target would be the window the
  docstring speaks of. Its advice, to leave conflicts to Delta, stands in both
  cases.
* The key is looked up (`ingestion.py:942`) before the lock is taken, and not
  again. A retry that looks it up while the first attempt works, and is locked
  after it, appends under a key that has succeeded. For the same reason
  `NoWindowTwice` asks for executions that do not overlap.

Streams and executions:

* A stream without an `idempotency_key` prefixes its batch keys with a new
  `stream_run_id` (`streaming.py:266`), so a batch that is redelivered after a
  crash between its log and its commit succeeds twice, although
  `CHANGELOG.md:327` announces idempotency per batch.
* Interrupts also make a stream log SUCCESS: without the exception for
  deployments with `"interrupt"`, `streams` violates `SuccessIsComplete`.
* The child plans of a backfill keep `watermark_columns` (`execution.py:131`),
  so late rows of the past, which a backfill is for (`docs/usage-guide.md:328`),
  are filtered out, and the execution reports SUCCESS. `Arrive` brings rows in
  the order of their time; without that condition, and with `watermarked`
  backfills, `windows` violates `BackfillIsComplete`.
* A catchup whose end has not passed reads window `[10, 11)` at 10:59:59 and
  window `[11, 12)` afterwards; the watermark of the second passes what arrived
  in the first in between. Without `RangeHasPassed`, `windows` violates
  `NoRowLost`.
* An `end` with a fraction of a second loses it, and the rows before it
  (`execution.py:35`), although windows are documented as `[start, end)`. The
  range in `BackfillIsComplete` ends with the whole second for this reason.
* Windows of a list without labels are keyed by their number
  (`execution.py:120`): after an edit of the list, a retry under the same key
  skips a window that never ran.

Sources and watermarks:

* With `Moves` TRUE, `source_reads` violates `NothingPassedOver`: a record that
  arrives on a page counted by position, or in a partition, that was read
  before is passed over; a deletion shifts pages that follow.
* `max_pages` (1 unless given) truncates silently. A page of NULL stamps never
  lets the read advance.
* A composite watermark whose first column is pushed down drops ties; a NULL
  in its second column loses rows; of a batch whose stamps are all NULL it is
  saved as a tuple of NULLs, against the docstring of `compute_watermark`: with
  `Values = {0, 1}`, `source_reads` violates `NoNullWatermark`. Rows with a NULL stamp are never loaded after
  the first load.
* The metric `incremental_applied` is true when nothing was pushed down.

Preparation:

* `accepted_values` with a NULL in the list never rejects anything (SQL's NOT
  IN).
* Under `on_quality_fail=warn` a failed rule of severity `abort` only warns,
  and `rows_quarantined` counts rows that were not quarantined.
* Deduplication comes before the gates: when the newest version of a key is
  quarantined, its older good version is gone too.
* `is_type_widening` accepts `decimal(10,2)` to `decimal(10,4)` and `bigint` to
  `double`, which lose digits; Delta refuses some of them after a column has
  been added by the statement before. That column is never recorded in
  `ctrl_ingestion_schema_changes`, against `docs/architecture.md:232`: with
  `Scenarios <- HalfEvolved`, `EvolutionIsAudited` is violated.
* A permissive overwrite drops columns (`overwriteSchema`), and so does an
  additive one beside another run: property `NoColumnDropped`, against the same
  line.
* Two first loads that overlap: the second is not validated, even under
  `strict`, and its write evolves the table (`FirstAlone` FALSE).
* ALTER statements precede the quality gates and stay when the run fails. A
  retry writes its rows to the quarantine again.
* `custom_keys` joins values with `|` and NULL as empty: different keys collide.

Write modes:

* An empty snapshot deactivates nothing (`writers.py:725`), although
  `docs/adrs/ADR-003-snapshot-soft-delete-sql-merge.md:8` has every active row
  that is absent from the source marked inactive.
* `write_modes` restricts the input of some modes by the `feeds` of its
  contracts. Widened, it violates `OneRowPerKey` for `delta_by_partition` when
  a key changes partition or the partition values are truncated;
  `WriteIsApplied` for a partitioned hash diff when a key returns to a partition
  with the values it had there; and `VersionsAreChanges` for a hash diff with
  NULL keys, truncated values or a `dedup_order_expr` that ranks a late row
  below the latest one, which is appended at every replay.

Control tables and governance:

* After an upgrade, two runs add the same columns; the second ALTER fails, and
  its run raises before the try block (`ingestion.py:909`) without a row in the
  run log, against `README.md:108`: property `FailureIsRecorded`.
* Runs of two releases rewrite the metadata row in turns. Retention deletes the
  row of a stream that runs for longer than it, and its finish finds no row.
* Of several row filters only the last is in force, though all are reported as
  APPLIED. Tags that a contract no longer declares stay.
* `apply_governance_bundle` returns SUCCESS when its annotations were WARNED
  (`bundles.py:73`), where `apply_annotations_bundle` returns WARNED for the
  same contract (104). That one and `apply_access_bundle` (142) return SUCCESS
  also of a contract that was ignored, only validated or missing. If
  `AppliedStands` took `ReportedStatus` for every call, without `ToApply`,
  `governance` would violate it.

`ingest_safety` and `ingest_anything` show what holds in spite of these: the
former without interrupts, the latter with a pinned source.

## Fairness

`Fairness` is weak fairness of every run's `Advance` and of `Tick`. Python
executes the statements of a live run one after the other, none of which waits
for another run (a busy lock raises), and clocks run. Nothing is assumed of
`Raise`, `Interrupt`, `Crash` and `Emit`: they may happen or not. A crashed
run takes no step, since `Advance` is disabled for it.

`StreamRun` has weak fairness of `Drive(s)` and `Process(s)`: the driver thread
and the query of a live process both go on. `awaitTermination` is the one
statement that waits, and it waits for the query only. The snapshot an
`availableNow` query takes at its start bounds its batches, so that it ends
although files keep arriving; failing and retrying a batch forever is up to the
scheduler and not part of a stream.

`SourceRead` has weak fairness of `Load`: a load that has begun goes on, and
the scheduler begins another one. Faults are finite (`MaxFaults`), so that a
load gets through; that is what `EveryRecordArrives` needs and no more.

## Proofs

The proofs are for any set of runs, streams, executions or calls, any rows,
plans and contracts, and any faults. Each invariant was checked by TLC on the
instance of its module before it was proved. An assumption a theorem makes
beyond those of the modules is in its ASSUME.

### `IngestRunProofs`

* `LeaseExcludes`: the abstract lease excludes, from its own definitions alone.
* `TypeCorrect`: `TypeOK` is inductive.
* `LeaseExcludesRuns` and `LockedRunsAlone`. The exclusion is not inductive: it
  says nothing of a run between MERGE and read-back. `LeaseIsRow` adds that a
  lease that has not run out is the one the row describes, so that two cannot
  exist. `LiveOwnerHasLease` adds that, without slow runs, a live run that owns
  the row or is at the target has such a lease, so that a takeover finds
  nobody at the target. The read-back needs no window for this: a row that
  names a run was written by that run's MERGE.
* `LockImplementsLease`: the refinement, step by step. Steps that leave the
  lock alone move at most one run in or out (`LocalStep`); for the others
  `RowIsLease` adds to `LeaseIsRow` that the clock of the row is the clock of the
  run it names, so that it can be taken over in the second its holder is
  overdue.
* `NoRowIsLost` assumes `Pinned`. `NoRowLost` speaks of the next watermark
  only. `RowsInv` says of every watermark around (the saved one, the maximum of
  the target, each run's `wmPrev` and, when about to be saved, `wmCurrent`)
  that the rows up to it are ingested, and that the batch of a run is a
  contiguous piece of the source above its `wmPrev` whose bad rows are in
  quarantine once it is gated. It needs no lock: overlapping runs duplicate
  rows and do not lose any.
* `LogIsTruthful`, `SkipsAreDone`: `LogInv` ties the local `status` at every
  place of a run to the ghost `saved`. They are false with interrupts (see the
  second violation), hence `"interrupt" \notin Faults`.
* `SuccessIsDisjoint`, `SuccessRises`. Two steps: while runs exclude each other,
  the `wmPrev` of a run at the target is the current watermark (`HoldInv`), and
  what successes have appended lies at or below it (`SavedInv`, `RisingInv`).
  They assume that the batch is evaluated once (`Pinned`), that plans load
  incrementally (`Watermarked`), that every plan locks and no run outlives its
  lease (`Serialised`; `lock_enabled` belongs to the contract of a target), and
  for the second that a target has one `on_quality_fail` (`OneGate`): a run
  that lets a bad row in and fails leaves the target ahead of what a
  quarantining run saves.

### `StreamRunProofs`

All unconditional; the properties themselves name the deployments they speak of.

* `CommittedIsInTarget`: `CheckpointInv` (the checkpoint only grows, one query at
  a time works on it, and knows what it has committed) and `DataInv` (a
  callback returns without raising only for a batch it has appended, or one
  with a logged success, which had appended it).
* `RerunsDoNotRepeat`: `RerunInv` says that a batch on its way to the log has no
  success under its key: between the lookup and the log no other query is live. The proof did not go through for plans without a
  key, rightly: their prefix is a new `stream_run_id`. `NoDuplicateReruns` now
  says "the same key"; the model had no such deployment.
* `LoggedSuccessIsComplete`: `DriversInv` says that a status that is
  still SUCCESS in the finally clause is that of a query that has ended, whose
  batches `CheckpointInv` knows. `MetricsAreComplete`: `MetricsInv` says that the
  children in the run log are never behind the results of the callback.
* `BatchesAreLocked`, `StreamLockImplementsLease`: `LockInv` for the driver
  that waits while the query works; the query's steps are stutters of `Lease`.

### `PreparationProofs`

* `MergesAreSafe`: `MergeInv`. The duplicate check is skipped where a
  `unique_key` rule has passed. Then the whole gate has, nothing is isolated and
  the batch is the one the rule counted; and after a hook, which may return
  anything, a check follows that does not trust the rule.
* `RowsAreAccountedFor`: `SplitInv` follows the batch from read to commit. A row
  is valid or quarantined, and with three-valued conditions never both.
* `SchemaEvolvesAsPermitted`: `SchemaInv` says what a run may have decided to
  change, and, under `strict`, that every checked run fits the table or creates
  it alone. `FirstAlone` is assumed: of overlapping first loads the second is
  not validated.

### `ExecutionWindowsProofs`

* `WindowsArePartition`: `ResolvedInv` says where the windows of an execution
  come from; the rest is arithmetic of quotients and remainders for any
  duration and resolution of the bounds, whose truncation to seconds is
  idempotent and monotone.
* `WindowsSucceedOnce` assumes `KeysAreChecked` (keys can be looked up and are,
  `always_run` does not), `OneJobPerKey` (a key belongs to one job) and
  `ListsAreInjective`. `KeyInv` adds that a window that may still be logged has
  not been.
* `NoRowIsPassedOver` assumes `OneJobPerKey` and `FromTheBeginning`: where rows
  are read above a watermark, a failed window ends the execution and no plan
  begins beyond the first row. A start that is given passes over the rows
  before it by intention. `MarksInv` says of every watermark around that the
  rows up to it are in the target, `Below` that nothing below the window a
  child works on is missing.
* `BackfillsAreComplete` adds `Before` (the windows behind are complete) and
  assumes also `OneKindOfRead` (`watermark_columns` are those of the target)
  and `ListsReachTheirEnds` (a listed bound cut to seconds loses no row; see the
  disagreements). Executions that overlap turned out to be covered: the
  exclusion the property used to make is gone, and the run has a contract with
  overlapping retries of a backfill.

### `WriteModesProofs`

`WritesTypeCorrect`; `KeysStayUnique`, for contracts with `merge_strategy`
`delta`; `HistoryIsKept`. Uniqueness of keys needs that a batch on its way to a
MERGE has distinct keys (`BatchUnique`, what `_validate_merge_key_duplicates` is
for) and that nobody but an overwrite is between two commits. For SCD2 the
argument is the staging: an unmatched row whose key has a current row is staged
a second time with its key, so that row is closed by the same MERGE; a row
without a key is unmatched only when no current row lacks one. So uniqueness
survives NULL keys, although rows do not.

* `VersionsChange` and `WritesApply` hold for contracts whose source sends what
  the mode copes with (`Sound`, true of every plan of the run `write_modes`): no NULL keys
  under SCD2 and hash diff, which lose or repeat them (see above); for a hash
  diff one row of a key and no `dedup_order_expr`, which would choose the row to
  compare with by another order; and keys that stay in their partition, with no
  more partitions than `max_partition_predicate_values`, where the target is
  read or matched by partition (`FewParts`, `AllPartitionsNamed`).
* Their invariant `VersionInv`: batch and target hold what the source may send,
  the target that of earlier writes (`FedInv`); a write inserts one row of a key
  (`OneOfEachWrite`), and the current row is its last version
  (`LastIsCurrent`). So the row a hash diff compares with and the row SCD2
  closes are the last version (`ComparedWithLast`, `Scd2Writes`).
* `WritesApply` has one lemma per mode. Hash diff and SCD2 share theirs
  (`PutApplies`): both replace what is shown of the keys they insert.
  `HalfInv`, that the first commit of the overwrite fallback leaves nothing to
  replace, makes the second one apply.
* `ReplayOfSuccesses` follows the target over sequences of writes. The step
  that ends a write applies it to what the target shows (`DoneApplies`, the core
  of `WritesApply`) and to `written` alike. They differ only by the range of
  an overwrite that the fallback has emptied (`DeleteEmptiesRange`), and what
  an overwrite makes of the target does not depend on that range
  (`OverwriteForgets`): so however many overwrites stop half way, the next one
  that ends well repairs what they left, and a failed write of another mode
  leaves nothing to repair. It speaks of the content as a set of rows. The emptied range itself is
  real: readers see it until then.

The proof found `Applied`, the right-hand side of `WriteIsApplied`, to be
ambiguous: two cases of its CASE overlapped for `replace_partitions`, where TLC
takes the first. They are one case now.

### `ControlTablesProofs`

* `LiveLocksStand`: `LockInv` says that an `ACTIVE` row has no
  `released_at_utc`. Retention therefore counts its age from its expiry and does
  not delete it before, and another run's MERGE waits for the expiry too.
* `MigratedAlways`: `TablesAreMigrated` says nothing of a run inside
  `ensure_ctrl_tables`. `SetupInv` adds what each place in it knows
  (`AtCreate`: the tables before its own exist; `AtColumns`: all exist, those
  before its own have its columns; `AtAlter`: what is still lacking is in
  `missing`). No step takes a column away (`ProgressStays`), so one run cannot
  undo what another knows, and a recorded release was that of a run that had
  come through.
* `KeysOutliveRetention`: `NoRepeatWithinRetention` relates two logged
  successes; its invariant `KeyInv` follows a success from one to the other. Its
  row is in the run log, or old enough to be deleted (`Stays`), and then it only
  gets older (`DatesRise`). A run that goes on past its look-up knows that every
  success logged before it started is that old (`Searched`): the column of the
  key is there, by `SetupInv`, so that the query cannot fail for want of it.
  The theorem needs no lock.
* `RaceHasWinner`: `SomebodyGetsThrough` says too little, since nothing in it
  forbids the last run to be turned away. `RaceInv` adds by whom a run is
  turned away: by one that is past its table (`Past`), because only that one
  can have added the column. Of runs that are all turned away one would have to
  be past the last table. A commit that outdates another run's MERGE is that of
  a run that comes through.

### `GovernanceProofs`

* `PlanInv`: the steps of a call are the statements of its contract, all of
  them and no other, in an order that does not matter. `AnnotationSteps`
  flattens a sequence of sequences; what `FlattenSeq` returns is proved by
  induction, as a set of numbers closed under successor (`SetInduction`, from
  the minimal element of its complement).
* `AuditIsBelievable`: `LogInv` (APPLIED is the status of the statements the
  catalog accepted) and `AuditInv` (the rows are those of a prefix of the
  entries, of all of them once the call has returned or raised).
* `GrantsAreAskedFor`: a change of the grants is the `Execute` of a planned
  statement.
* `SuccessIsInForce`: `StandInv` (what an undisturbed call got accepted is in
  force), `RevokeInv` (an unmanaged grant is one it has still to revoke),
  `CheckInv` (the final check finds no drift) and `DecidedInv` (a call that is
  to apply its contract ends with SUCCESS or WARNED, so that none of the
  statuses the bundles turn into SUCCESS is behind the one it returns). Statements to one contract must not undo each other; that is
  `Coherent`: it names one row filter, and one mask for a column. The schema of
  contracts allows more (see the disagreements).
* `GovernanceTypeCorrect`.

### `SourceReadProofs`

What a request returns is defined by order and position, so everything rests on
lemmas about the enumeration of a finite set: `OrderedEnumerates` (it lists each
record once), `OrderedIsUnique` (no other sequence in that order does) and
`PieceOfOrdered` (a page has the records between two positions). The proofs are
by induction over positions, as sets closed under successor.

* `SourceTypeCorrect`: `TypeInv` gives every kind of load its fields.
* `ReadsAreExact`, without any assumption on the source. `ReadIsExact` speaks of
  the end of a read; `ExactInv` says that, as long as the source holds still,
  the pages so far are a prefix of the records the read began with, and that a
  cursor names the last record of that prefix, so that the next page continues
  where it ends (`PageIsNext`). Partitions are the records whose query has run.
* `NothingIsPassedOver` and `InactiveAreGone` are about sources that move while
  they are read, except where the code relies on their holding still
  (`~Moves`, see the guards of `Arrive` and `Vanish`; with `Moves` TLC finds
  both violated: a record is lost when a read has passed its place). Both use
  `ReadInv`: a record that must not be missed is in what was read or pending,
  and pages from the oldest on leave only later records pending. A record is
  due if the load began with it, if a later one was read, or if the queries
  still to come can see it. That the last page leaves nothing pending when
  `max_pages` suffices is an argument on positions (`PageBound`, `LeftIsCut`).
* `NothingPassedOver` is not inductive: it does not say that the watermark is
  one of a record that was loaded. `PassInv` adds that (`Reached`), and that
  everything wanted before a record in the target is in the target. A write
  keeps it because what `apply_watermark` or the pushdown left out lies at or
  below a record in the target (`BatchFillsUp`). It rests on `StampsRise`:
  the order of stamps is the order of arrival, which incremental loads require
  and `Arrive` grants.
* `SnapshotInv` adds to `InactiveIsGone` that what is stored and still listed is
  asked for by every load: `snapshot_soft_delete` filters by no watermark, and
  pushes down only `initial_value`.

Assumptions on constants: those the modules name, which TLC evaluates in every
run.

`LeaseExclusion` of `IngestRun` is proved and not among the runs, and neither
are the `TypeOK` of modules other than `IngestRun`.

Every invariant the runs check is proved. Only model-checked is liveness
(`EveryRunEnds`, `LockComesFree`, `EveryStreamEnds`, `EveryRecordArrives`), which
is out of the prover's reach.

## Plan

The plan is carried out: every module of it is written, and every safety
property the runs check is proved. What could be added is the version counter
of the target around a write (`delta_version_before` and `delta_version_after`,
`ingestion.py:1099`), which needs a model of commits by others, and `shape.py`
as a function on small trees.

## Not modelled

* `plan.py`, `contract_schema.py`, `contract_bundle.py`, `presets.py`,
  `config.py`: parsing, defaults and validation of documents, without state.
  What they guarantee is stated as assumptions on plans (`PlanOK`,
  `IsContract`, `IsScenario`, `IsRequest`).
* `shape.py` builds a query that flattens one DataFrame; `templates.py` and
  `cli.py` write text.
* `cost.py` multiplies durations by rates, `lineage.py` posts an event; nothing
  depends on either, and their failures are swallowed.
* Of `sources.py`: authentication, options, response formats and the
  credentials of storage providers.
* Metrics and the history of table versions around a write, `dry_run`, VACUUM,
  and the logs that nothing reads back (errors, explain plans, lineage).
