# Verification of quickhouse

quickhouse copies tables from SQL sources and vendor APIs into ClickHouse,
BigQuery or CSV folders. A call of `run_transfer`
(`crates/quickhouse-core/src/sync.rs`) is one run: it reads one relation,
streams it in batches into the destination or a staging table, promotes what
was staged and saves a cursor for the next run. Most of what can go wrong is in
what one run leaves for the next, in how statements, inserts and retries
overlap, and in what is left after an error. The TLA+ modules here model that;
TLC checks them on small instances and TLAPS proves the central ones in
general.

All paths below are relative to `crates/quickhouse-core/src/` unless they
start with `docs/`.

| module | what it models | checked by | proved |
|---|---|---|---|
| `IncrementalSync` | the runs of one incremental sync, with the source that changes under them and the state row between them | `MCIncrementalSync`, `MCLateDeletes`, `MCLiveness`; four disagreements in `MCDisagreements` | all its safety |
| `InsertPipeline` | one attempt's readers, insert buffers, memory budget, inserts and sweep windows | `MCInsertPipeline` | all its safety |
| `RunTransfer` | one run of any source: its attempts, staging, checkpoints, promotion, cursor, cleanup | `MCRunTransfer`; one disagreement in `MCUnansweredInsert` | all its safety |
| `CsvFolder` | the CSV sink: folders, parts, manifests, the root lock, swaps and appends of runs that overlap | `MCSinks` | all its safety, and that it implements `TableContract` |
| `TableContract` | what a reader of a table is promised: whole runs only | refined by `CsvFolder` | |
| `BigQuerySink` | the BigQuery sink: jobs, streams, the pruned MERGE, the state table | `MCSinks` | all its safety |
| `ClickHouseSink` | the ClickHouse sink: inserts with tokens, promotion statement by statement, state rows | `MCSinks` | all its safety |
| `Sinks` | the three sinks, one in each behaviour | `MCSinks` | types, of all three |
| `RowVersions` | the logs of row versions both of these share | | |
| `ChunkedRead` | one chunked read of any SQL source: statements, batches, inserts, markers | `MCReads` | its property |
| `TransferConfig` | which combinations of options are accepted, and the run they become | `MCReads` | its property |
| `ColumnDrift` | a run's columns against those of a table that is there | `MCReads` | its property |
| `CursorProbe` | the saved cursor against what the source holds | `MCReads` | its property |
| `KeyRanges` | the ranges and windows of the key a read asks for | `MCReads` | its property |
| `ApiRead` | runs of an API source: day windows, pages, the cursor | `MCReads` | its properties |
| `RowValues` | what decoders, transforms and the NULL guard make of a value and a row | `MCReads` | |
| `Archive` | Parquet uploads over attempts, runs and crashes | `MCReads` | its property |
| `Reconcile` | `reconcile_keys` between a changing source and running syncs | `MCReads` | its property |
| `ValueDrift` | the comparison of one column in `reconcile_values` | `MCReads` | |
| `Reads` | what surrounds a read, one of the ten modules above in each behaviour | `MCReads` | |

A module `M` that is proved about has a companion `MInv`, which EXTENDS it with
the inductive invariant; `TransferConfig`, `ColumnDrift`, `CursorProbe` and `ApiRead`
have theirs at the end. The theorems are in `M_proofs`, or, of a module that is
one of several in a composition, in `Sinks_proofs` (ClickHouse), `BigQuery_proofs`
or `Reads_proofs`: these state them of the composition, whose properties the
runs check. `SumTheorems` has the facts about sums that three of them use. The MC
modules only give constants their values; they take the `MInv`, so that TLC can
check the invariants too.

## 1. The system

### Components

| component | state it keeps | operations | correct when |
|---|---|---|---|
| Run and attempts (`run_transfer`, `run_transfer_impl`) | attempt number, rows landed in the destination, carried warnings | setup, prepare_target, fan-out, promotion, cursor, cleanup, retry on a transient source error | a failed run leaves no part of an attempt behind that it should not, and what it reports is so |
| Incremental cursor and resume marker (`sync.rs`, state tables of `sink/*.rs`) | one state row per key: `last_watermark`, `chunk_cursor`, `chunk_upper` | read_saved_state, probes, keyset chunks, persist_chunk_cursor, persist_watermark, clear_discarded_state | no row the destination lacks is ever below the next run's lower bound |
| Readers (`transfer_partition_*`, `transfer_keyset_*`) | position, window width, a buffer and its mark | read a statement, cancel and narrow a window, finish | every row is read, and once unless the read is repeated |
| Insert pipeline (`SendCtx`, `InsertBuffer`, `MemoryBudget`) | buffered batches and reservations, inserts in flight, tallies | push, flush, reap, reserve, try_reserve, truncate | memory stays under the ceiling, no deadlock, nothing lost or counted twice |
| Warnings and `fail_on_warnings` | what was raised so far | push, take_write_warnings, check_fatal at each `Before` | a fatal warning stops the run before the change it is about, and the error says what is left |
| Full-refresh shrink guard | none | count, compare, refuse, warn | no table shrinks unnoticed |
| Options (`config.rs`) | none | validate, normalize, the refusals of each flow | what is accepted is a run whose steps fit together |
| Destination columns | the table's columns | compare, warn, evolve, stage, write | no column is harmed without a warning |
| ClickHouse sink | tables, state table, tokens used | insert with retries, EXCHANGE, insert-select, delete of stale rows, state rows | with tokens each row is stored once; the newest state row is the last saved |
| BigQuery sink | Storage Write streams and offsets, jobs, write warnings | append, finalize, submit and poll, MERGE, transactional swap | a stream that miscounts is never promoted from staging; a MERGE leaves one row a key |
| CSV sink | parts and a manifest per folder, a lock per root | write parts, commit the manifest, swap folders | a reader sees whole commits |
| Sources (`source/*.rs`) | a connection | MIN, MAX, NULL and cost probes, COPY or paged reads | the statements of a read cover the rows the cursor will pass, each once |
| API sources (`source/clevertap.rs`, ...) | cursors seen, a date window | pages, retries | a read ends and its window has no holes |
| NULL guard, transforms, decoders | per batch | pure | every value arrives, rounded once, or is counted |
| Parquet archive | one object per partition or chunk | write, finish, abort | complete before the marker that skips its rows |
| Key reconciliation (`reconcile.rs`) | the keys of both sides | read the destination, read the source, diff, delete in chunks | deletes only what the source lost |
| Value reconciliation (`reconcile_values.rs`) | the rows of both sides | compare per column by a rule of its types | reports what a sync would not have written |

### How they interact

`run_transfer` calls `run_transfer_impl` once per attempt. Setup reads the
state row, probes the source and plans the read as one statement, several
ranges of the key in parallel (`parallelism`), a sweep of key windows, or keyset
chunks. The readers are futures of one task (`buffer_unordered`); a reader's
inserts are tasks of their own, which share one memory budget and are joined
with `reap`. A chunk is made durable, then its marker is saved, before the next
one is read. When all is read, staged rows are promoted and the cursor is
saved; the next run starts from that row. The source goes on changing during
all of it, and nothing but the state row and the tables survives the process.

### What is hard

- A read of several statements has no snapshot, so the largest watermark it
  read can be later than rows it missed. The code moves cursors back, pins
  bounds in markers and keeps a committed cursor, each under its own condition.
- A marker, a failure and a change that matters to it can be three runs apart.
- A window the source cancels is read again after part of it was decoded,
  tallied and possibly sent.
- Readers hold memory while they wait for more of it.
- The inserts of a failed attempt are dropped, not undone.
- Each error path leaves another set of tables, state and counts, and several
  error messages say which.

`PROJECT.json` lists these, and others, line by line as hazards with the
properties that cover them.

## 2. The plan

1. **IncrementalSync**, its runs and proofs: done.
2. **InsertPipeline** with the sweep, its run and proofs: done, `MemoryInv`, a
   sum over the readers, included.
3. **RunTransfer** with the four flows, its run and proofs: done.
4. **Sinks**: done. `CsvFolder` implements `TableContract`, by a run and by a
   proof; the other two are checked and proved on their own. `RunTransfer` has
   each of their operations as one step, and these modules say when that is so.
5. **ChunkedRead**, its run and proof: done.
6. **Archive** and **Reconcile**, their runs and proofs: done.
7. **Options, columns, cursor, key ranges, APIs, values and the value
   reconciliation**: done, one module each, model-checked; all but values and their
   reconciliation are proved too.

No module uses a RECURSIVE operator; sums are folds of the community modules
or recursive functions.

## 3. IncrementalSync

### Model and code

Time is the source's clock, one tick per change. A source row is
`[wm, at]`: `at` is when its last change committed, `wm` the watermark that
change was stamped with, at most `Lag` ticks before. The destination maps a key
to the `at` of the version it holds; a later version wins, as in a MERGE or a
`ReplacingMergeTree` ordered by the watermark. The state row is `committed`
and `marker = [cursor, upper]`.

`Change`, `Delete`, `Tick` and `DropDestination` are the environment. They may
happen between any two steps of a run. The steps of a run follow
`run_transfer_impl`:

| action | code |
|---|---|
| `Begin`, `Exit`, `Fail` | `run_transfer`, its loop and its retry of transient source errors; `Fail` is also a crash |
| `ReadCursor`, `ReadMarker` | `read_saved_state`: two queries, then whether the destination exists |
| `Probe` | the MAX probe and `effective_upper` (a resume is held to the marker's bound) |
| `ProbeBounds` | MIN and MAX of the key, through the table or the query; the ranges read later |
| `ClearDiscarded`, `Prepare` | `clear_discarded_state`, then `prepare_target` |
| `ReadChunk`, `LandChunk`, `CommitChunk` | `transfer_keyset_postgres`: a chunk's statement, its inserts, `persist_chunk_cursor` |
| `ReadWindow`, `CancelWindow`, `LandSome`, `ReadDone` | a window, range or single statement, a cancelled one, inserts at any time, the end of the fan-out |
| `Finish` | the computed cursor, `persist_watermark`, the clearing of the marker |

`Configs` ranges over `from` (where the cursor comes from: MAX through the
query, MAX through `source_table`, or the stream of rows read), `mode` (chunks,
windows, single) and `advance_watermark`. `Rewound`, `Rewind`, `AdvanceFrom`,
`MarkerUpper`, `NewWatermark` are the functions of the same names.

Left out: full and append modes (no cursor, or covered by `RunTransfer`),
`seed_watermark` and `skip_to_max`, `create_if_missing=False`, a marker that
another query wrote, the state table's own compaction. Watermark units are
ticks, so the extra day of a DATE column is not there. Runs of one state key do
not overlap; nothing in the code ensures it, and the hazard list says so.
Inserts of a failed attempt are applied at its failure or not at all here; that
they may be applied later is in `RunTransfer`. The commit of a staged chunk
(BigQuery) is the one step `LandChunk`.

### Properties

- `NoLostUpdate`: a selected row whose current version the destination does not
  hold is above the lower bound of a read from the saved cursor.
- `MarkerVouches`: the same of a resume marker, for the keys it skips and the
  bound its resume will save.
- `RunDelivers`: a run that resumed nothing delivers every change committed
  before its first attempt began.
- `CursorNeverBehindStart`: no run ends with a cursor before the one it started
  from, unless that one was ahead of the source. The exception is a run that
  resumes the marker of a read whose cursor is a stream's, and it is bounded: the
  cursor stays above the lookback before the old one (section 8).
- `CursorUntouched`: `advance_watermark=False` moves no cursor.
- `EventuallySynced`: once the source and the failures are quiet, the
  destination catches up and stays so.

These do not hold of every configuration. `Sound` in `IncrementalSyncInv` says
where: a change is stamped at most `Lookback` before its commit; cursors taken
from rows of several statements need `Lag = 0`; windows with such a cursor need
that no key appears outside the probed range, or a bound from
`source_table`'s MAX; chunked reads need a marker with a bound or a cursor to
keep. Outside of `Sound` the code disagrees with its documentation, see
section 8.

### Runs

| run | instance | size |
|---|---|---|
| `MCIncrementalSync` | 3 keys of which 2 are selected, 2 initial rows, every cursor source and read mode, first and established syncs, chunks of 1, lookback 2, 2 attempts, drops of the destination, 4 ticks, 2 failures | 3.6M states |
| `MCLateDeletes` | `Lag` 1 and deletes, established, with and without `advance_watermark`, 1 failure | 2.4M states |
| `MCLiveness` | NULL watermarks, 1 attempt, 3 ticks, 1 failure, under `FairSpec` | 0.2M states |

Three keys make a first, a middle and a last chunk, a row left out by the
query, and a key above the probed MAX. Four ticks are a change before, during
and after a read that outlasts the lookback. Two failures are an interrupted
run and an interrupted resume, or a failed attempt and a drop. The lookback is 2
because at 1 it ends at the cursor itself, so that no chunk can be of rows in
the lookback only.

`FairSpec` adds weak fairness of `Run`, the steps of a run: the scheduler starts
runs again and again, and the process goes on. Failures, cancellations, source
changes are not fair, and are bounded by `MaxFaults` and `MaxTime`. A retry by
`run_transfer` is a step of the run.

## 4. InsertPipeline

Readers are the partitions of one attempt, or the single reader of a sweep.
`plan` is what they will decode: batches with a size, whether `NullGuard`
tallies rows of them, whether it leaves any. `step`, `lo`, `hi`, `at`, `width`
are a reader's place; `buf`, `takes`, `null_rows`, `mark` the `InsertBuffer` and
its `BufferMark`; `sends` the inserts in flight or failed; `waiters` the queue
of the semaphore. `written`, `warned` and `spilled` count what reached the
destination, what was reported, and what memory pressure sent from a window
that was then cancelled.

| action | code |
|---|---|
| `Start` | `buffer_unordered(parallelism)` |
| `BeginStatement` | a partition's statement, or a window with its mark, from `lo` |
| `PushBatch`, `Granted` | `push_batch`: tally, try_reserve, else send what the reader holds and wait |
| `EndWindow`, `CancelWindow` | `between_windows` and `next_window`; `truncate` and a narrower window |
| `EndStatement`, `FinishRead`, `Drained` | `ReadOut::finish` |
| `SendLands`, `SendFails`, `ReapFails` | the insert tasks and `reap` |
| `StatementFails`, `Abort`, `AllRead` | the fan-out's first error, or its end |

The readers run in one task, so `push_batch` is atomic up to its await.
tokio's semaphore is fair: memory that is free belongs to the waiters first
(`TryReserve`). A window may take any time, so `NextWidths` is every width
`next_window` can return. A cancellation needs a width above the floor, as in
the code, and is otherwise unbounded; at the floor it is a failure.

- `MemoryInv`: the buffers and inserts of all readers hold at most
  `max_memory_bytes`, or one batch (`MemoryCeiling`), because reservations never
  exceed it; and a reader that waits for memory has nothing buffered. It has the
  batch it waits with, though, decoded before anything was reserved for it
  (`BytesInHand`), so what is decoded and not yet inserted (`BytesInMemory`) goes
  past the ceiling by a batch for each of `parallelism` readers at most. The
  run reaches states where it does, with two readers waiting at once (section 8).
- `NothingLost`: a run that succeeds has written every batch.
- `WrittenTwiceIfSpilled`: only a batch that pressure sent from a cancelled
  window is written twice.
- `NullsCountedOnce`: a batch's NULL rows are counted once.
- `RunEnds`: readers never wait on each other's memory for ever, and a sweep
  whose windows are cancelled again and again comes to an end.

`MCInsertPipeline` checks three plans (three partitions two at a time with a
batch over the ceiling; sweeps of six keys with and without an `IS NULL`
window) with one failure: 7,000 states. Sizes 0 to 4 under a ceiling of 3 give
waits, oversized batches and batches of nothing; widths 1 to 4 over six keys
give growth, shrinking and windows cancelled at several widths. The fairness is
weak fairness of each reader, of each reader's inserts and of the end: the
runtime polls what is ready, the source sends or times out
(`read_idle_timeout_secs`), the destination answers. The i64 ends of the key
range are in `KeyRanges`, the retry loop inside an insert in the sink modules,
reads in keyset chunks in `IncrementalSync`.

## 5. RunTransfer

One call of `run_transfer`. What is read is `N` batches of a key each. A row
`<<a, b>>` is batch `b` as attempt `a` read it, `<<0, b>>` one that was there
before. `cfg` is the transfer: how it promotes (`swap` a full refresh, `merge`
BigQuery, `insert` a staged ClickHouse incremental, `append` CSV, `direct`),
whether it is chunked, gated, deletes stale rows, and its `fail_on_warnings`.

| action | code |
|---|---|
| `SetupDatabase`, `SetupSession`, `SetupApi`, `SetupFrame`, `SetupFails` | each flow up to `check_fatal(Before::Write)` |
| `Prepare`, `PrepareFails` | `prepare_target`, whose errors are outside of the block that cleans up |
| `Send`, `Lands`, `LandsShort`, `EndRead`, `ReadFails` | the read and its inserts; a Storage Write stream that miscounts; the first error |
| `OpenChunk`, `CheckChunk`, `CommitChunk`, `Mark` and their failures | `begin_chunk`, `Before::Chunk`, `end_chunk`, `persist_chunk_cursor` and `chunk_committed` |
| `Veto`, `ApproveSwap`, `ApproveUncounted`, `ApprovePromotion` | `on_staged`, `guard_full_refresh_shrink`, the checkpoint of the promotion, in the order of each mode |
| `DeleteStale`, `Promote`, `DropStaging` and their failures | `promote_staged_incremental`, `promote_staged_append`, `atomic_swap` |
| `SaveCursor`, `SaveFails` | the checkpoint before it and `persist_watermark` |
| `CheckDone` | the last checkpoint of a frame, and of an API append (`Before::Done`) |
| `Cleanup` | the drops after an error, each best effort, then the end of the attempt |
| `LandsLate` | an insert of a failed attempt is applied after all |
| `Crash` | the process dies at any step |

Every call to the destination can fail, after having been applied or not. An
insert-select may be applied in part; MERGE, EXCHANGE, BigQuery's transaction and
CSV's append are whole or nothing. Only a source error is worth another attempt
(`is_transient_source`).

`cfg.flow` is the flow of the source. `Flow` says how they differ: a database
(`run_transfer_impl`) retries setup and read and may chunk; a BigQuery source
(`run_transfer_bigquery`) retries a read that stalls; an API
(`run_transfer_api`) is never retried, and an append of it saves the cursor
before its last checkpoint; a frame (`run_transfer_frame`) keeps no cursor. The
assumption `TransferConstants` is what `TransferConfig!AcceptedIsSound` shows of
every combination of options that is accepted: its `IsTransfer` has the same
conjuncts. One of them is about `counts`, the transfers whose Storage Write
streams can miscount: they stage before a swap or a MERGE, or they are appends of
an API or a frame, which write straight into BigQuery.

- `PromotedWhole`: a staged run changes the destination by the whole of one
  attempt or not at all.
- `WrittenOnce`: a run that stages writes no batch twice, chunks included.
- `SavedMeansWritten`: the cursor, a run's success and a marker vouch for rows
  that are in the destination. The exception is the code's: an append straight
  into BigQuery whose stream finalized without some rows (`Missing`) saves its
  cursor past them. It has raised the warning then, and ends in an error where
  `fail_on_warnings` names it (section 8).
- `StoppedAsSaid`: when `fail_on_warnings` stops a run, tables and cursor are as
  `Before::describe` says, but for what `Before::Done` says of rows in `Missing`.
  The text is held against what the attempt found: a second attempt says of a
  table its first one created that it is untouched.
- `StagingKnown`: at every step the tables beside the destination are those the
  attempt still has to drop; when the run ends none is left (`StagingReclaimed`),
  but for drops that failed, errors in `prepare_target`, and a chunk's table
  whose creation failed after it was applied (`ChunkStager::open`): no drop is
  sent for those.
- `PartialCounted`: `rows_written_failed_attempts` is the number of rows that
  were written again, and a run that is to fail on
  `retried_after_partial_write` writes nothing more.
- `NoSilentShrink`: a full refresh leaves fewer rows only where allowed, warned
  of, and not to be stopped on it, or where the guard could not count.

`MCRunTransfer` checks twenty-seven transfers, seventeen of databases, four of APIs
and three of each other flow, with two batches, three attempts and three failures:
534,000 states. Two batches distinguish whole from partial and a first chunk from a
last; three attempts a count over two failed ones; three failures a failed
attempt whose cleanup fails and whose insert lands in the next. Not modelled: a
second writer of the destination, state set aside for a recreated destination
(`IncrementalSync` has it), the archive (`Archive` has it), and a run that reads
no rows.

## 6. The sinks

`Sinks` runs one of three modules in each behaviour (`which`), to its own
bounds on faults: 336,000 states of `MCSinks`. It EXTENDS `CsvFolder`, which is at
rest while another destination runs, and instantiates the other two. They refine what `RunTransfer` takes as one
step.

### CsvFolder

Runs of one process or of several write one table under one root. A path holds
`[there, files, manifest]`; a part is known by its run and number.

| action | code (`sink/csv.rs`) |
|---|---|
| `CheckWrite`, `FindDest`, `MakeDir`, `DescribeDest`, `DescribeFails`, `CreateStaging` | `check_write`, `table_exists`, `create_table` of the destination and of staging |
| `BeginInsert`, `WritePart`, `OpenPart`, `InsertFails`, `EndInsert` | the tasks of `insert_batches`, `new_part`, the idle parts of a stream |
| `Finalize`, `LockTable`, `RefuseCommit` | the manifest of staging; `with_root_lock` and what is looked at again under it |
| `Swap`, `MoveAside`, `MoveIn`, `MoveInFails`, `MoveOut` | `swap_dirs`, and `swap_dirs_by_renames` with its undo |
| `MovePart`, `ListParts`, `MoveFails` | `insert_select` |
| `Drop`, `Unlink`, `RemoveDir`, `RemoveFails` | `drop_table`, `remove_dir` with its retries |
| `LockState`, `WriteState` | the state file, read and written back whole |
| `Crash` | a process dies; its lock is free |

- `CommitsWhole` is `TableContract!Spec` under the mapping `table <- Published,
  shown <- Shown`: a reader of the manifest sees whole runs of one layout, each
  commit is one change of the table, and while two renames replace the folder
  the old one is kept. `Contents` maps a manifest whose parts are not all there,
  with every row, to no set of runs, so a torn state is no state of the
  contract.
- `CursorsKept`: no save of one key's cursor loses another's.
- `FolderTidy`: the folder holds no part its manifest does not list, but during
  an append and after a crash or a failed undo; a run that is over leaves no
  staging folder, though the inserts of a failed one still write.

Two runs, parts of one row (`MaxRows`), an insert of two, one retry of a removal
(`RemoveTries`) and two failures (`MaxFaults`) are enough for a full part, two
commits that cross, an insert that outlives its run, and a crash between two
renames.

Runs overlap where a table is there and the platform exchanges two folders in
one step (`Placed`). Elsewhere the run does not let them, because there
`CommitsWhole` and `FolderTidy` do not hold, see section 8.

### BigQuerySink

Runs follow one another; each clones a staging table, writes, promotes, drops
and saves the cursor. Every statement is a job that is submitted under one id
until it is answered, polled, and resubmitted as another when it is rate
limited. A job nobody waits for goes on (`JobRuns`, `JobFails` are BigQuery's
steps, not the run's).

| action | code (`sink/bigquery.rs`) |
|---|---|
| `EnsureState`, `OtherRunEnsuresState`, `CompactState` | `ensure_state_table`, `migrate_state_table`, `compact_state` |
| `Submit`, `SubmitUnanswered`, `SubmitConflict`, `Poll`, `PollFails` | `submit_job`, the poll loop, `run_query_job` |
| `OpenStream`, `StreamNotFound`, `TryAppend`, `AppendFails`, `FinalizeStream`, `FinalizeFails` | insertAll and the Storage Write calls, offsets, `finalized_row_count_warning` |
| `ProbeStaging`, `ProbeFails` | the bounds a MERGE is pruned with |
| `DropStaging`, `Cleanup`, `Crash` | the end of a run |

- `WrittenOnce`: a MERGE leaves one row of each key and Storage Write stores each
  row once, through lost answers, retries, a key staged twice and jobs that run
  late.
- `CursorCovered`: up to the saved cursor the destination holds the newest
  version of every key, or a newer one; the exception is a MERGE of an earlier
  run that nobody waited for and that runs during a later one.
- `SuccessIsDone`: what a run that succeeds read is promoted, its cursor is the
  one the next run starts from, and the stale rows of its window are gone.

### ClickHouseSink

| action | code (`sink/clickhouse.rs`) |
|---|---|
| `StartRun`, `Prepare`, `DropState`, `CompactState` | `read_last_watermark`, `ensure_state_table` with `ready_state_tables`, a table dropped by hand, OPTIMIZE FINAL |
| `Insert`, `InsertFails` | `insert_batches`: blocks, `next_dedup_token`, attempts |
| `DeleteStale`, `InsertSelect`, `ExchangeTables`, `DropStaging` | the promotion, each statement sent once, its answer perhaps lost |
| `PersistRow` | `insert_state_row`, `state_dedup_token` |

- `StoredOnce`: with a token, a table that deduplicates holds each row of a run
  once.
- `CursorCovered`: as for BigQuery, through failed promotions and resumed reads.
- `StateTold`: a run that succeeds leaves its cursor as the newest state row,
  though the table drops rows it has seen.

## 7. What surrounds a read

`Reads` runs one of ten modules in each behaviour: 2.9 million states of `MCReads`, of
which 350,000 are initial, most of them inputs of the pure modules. Several of
them share variables of the model; an unused one is 0.

| module | state and actions, and their code | bounds |
|---|---|---|
| `TransferConfig` | a set of options that differ from the defaults: `Validate` (`validate_with`, `validate_frame_only`, `refuse_unsupported_options`, `normalize`), `Dispatch` (each flow's refusals and the plan), `Resolve` (`build_chunk_plan`, `forced_window_key`, `prepare_target`) | every mode, source and destination with its usual options and up to three others |
| `ColumnDrift` | the destination's columns: `CheckDestination` (`warn_on_destination`), `PrepareTarget` (evolve, stage), `Write`, `Promote` | columns of one name in either case and of a second one, two types |
| `CursorProbe` | two rows and a saved cursor: `Probe`, `Judge` (`check_cursor_against_max`, `judge_cursor_ahead_of_query`), `Read`, `Finish`, and one `Change` in between | watermarks to 3 and NULL; a cursor read back as written, shifted, or unreadable |
| `KeyRanges` | the keys there are: `PlanRanges`, `PlanOnePass`, `PlanGiven`, `PlanSweep`, `ProbeFails`, `ReadPart`, `ReadWindow`, `CancelWindow`, `ReadNull`, and `Grow` at any time | an 8-value integer with both of its ends, up to four keys |
| `ApiRead` | runs, days, pages: `StartRun` (`derive_api_window`), `CreateExport`, `TakePage`, `AskAgain`, `RequestFails`, `EndRead`, `Promote`, `SaveCursor`, and the vendor's turns | three runs, five hours of half a day, two faults |
| `RowValues` | rows of a read: `Plan` (nullability and exact decimals), `Read`, `Push` (a decoder, the guard), `Finish` | two rows, three columns, decimals around every limit |
| `Archive` | uploads: `Open`, `SendParts`, `Close`, `CloseFails`, `Mark`, `WindowCancelled`, `AbortUnfinished`, `Retry`, `Crash` | two runs of two attempts, two faults |
| `Reconcile` | both sides, syncs and the source: `ReadSides`, `Diff`, `DeleteChunk`, `ChangeRow`, `DeleteRow`, `SyncReads`, `SyncWrites` | three keys, three changes, one fault |
| `ValueDrift` | rows of both sides: `ReadDest`, `ReadSource`, `Diff` with `RuleFor`, `Classify` | thirteen pairs of types, two rows a side |

- `AcceptedIsSound`: what is accepted is a transfer `RunTransfer` assumes; stale
  rows are deleted only against a batch that is the whole of its window; a
  cursor is saved only in the values the next filter compares; a retry into a
  table that keeps duplicates stages. It relates refusals that are spread over
  `config.rs`, `sync.rs` and the sinks.
- `HarmIsTold`: the warnings raised before a run writes are exactly the harm it
  then does to columns that were there.
- `CursorTroubleTold`: a cursor past the source, one the read does not move past
  a row that is there, rows with no watermark, and a read that ends with no
  cursor are each told, and not told of a source that has none of it.
- `KeysReadOnce`: every key that was there when the bounds were found is read by
  exactly one range or window, except i64::MIN, which is in no window.
- `PagesOnce`, `DaysCovered`: a chain of pages visits none twice; a saved cursor
  vouches for its days, of records no later than `lookback_days`, through
  failed runs.
- `RowsAccounted`: each row read is written with each value as its column holds
  it, rounded once, or is counted; the cursor sees rows left out too.
- `ArchiveWhole`: what a marker or a cursor is past is in completed objects, and
  a run that is over leaves no upload open.
- `OnlyDriftDeleted`: a row the source has is not deleted, because the
  destination's keys are read first. A key that leaves the window, or is
  deleted, and comes back and is synced between the reads and the delete is
  excluded by assumption: it is deleted.
- `DriftIsDamage`: against a reference of what a sync writes, the comparison
  reports each cell that differs and no other.

### ChunkedRead

`IncrementalSync` has a chunk as one step of a source that changes;
`ChunkedRead` takes that step apart, over a source that does not. It is the loop
the three SQL sources share (`transfer_keyset_postgres`, `_mysql` and
`_clickhouse`). The actions are `Statement` (`select_sql` with
`keyset_predicate`), `ReadBatch` (decode, `last_int_key`, the NULL guard,
`push_batch`), `InsertLands`, `EndStatement` (the check that the stream is whole,
then `flush`), `EndChunk` (`reap`, an empty chunk, a chunk with no key to go on
from) and `Mark` (`persist_chunk_cursor`). `Fails` is any error or crash, and
`Resume` the next attempt or run, from the marker. The dialects differ in where
they sort NULL and in how they know that a stream is whole; of a ClickHouse body
it is assumed that one broken off does not end between two Arrow messages.

Rows without a key are returned in any order, as SQL says, so a statement may
return any of `FirstRows`.

- `ChunksWhole`: nothing behind a marker is missing from the destination, and a
  read that ends well has everything. If `keyset_not_null` was asserted of a key
  that holds NULLs, no row with a key is passed over; the rows without are kept or
  told where NULL sorts first. Where it sorts last, those beyond the first chunk
  are never read, as the option's documentation says.
`ChunkedReads` are of four keys, chunks of one to three rows against batches of
two (shorter, as long, longer), up to two NULL keys and three starts, so that a
read that was resumed can be broken off and resumed again.

## 8. Where code and documentation disagree

Each is a run that TLC ends with a counterexample.

| run | what it shows |
|---|---|
| `MCResumedFirstRun` | a first chunked run over an empty source writes a marker with no bound; the run that resumes past it has no cursor to keep (`sync.rs:2452`) and takes one from what it reads, past a row that changed in a skipped chunk |
| `MCLateStampedStream` | a cursor from the stream of a read longer than the lookback is moved back to the start of the read, which leaves nothing of the lookback for changes stamped before they commit |
| `MCNewKeyWindow` | a key inserted above MAX between the probe of the key's range and the read is in no window, and the cursor passes it |
| `MCBackfillRecreated` | with `advance_watermark=False` and `chunk_rows`, a destination dropped by hand has its saved cursor erased by the rows that save and clear the markers |
| `MCUnansweredInsert` | an insert in flight when its attempt fails can be applied and is then written again, uncounted |

What the models also brought out, with no run of its own:

- **Cursors from the stream.** The first chunk of a chunked read can hold rows of
  the lookback only. Its marker's bound is then the largest of those, below the
  saved cursor (`sync.rs:5236`), a run that resumes past it saves that bound, and
  the cursor has moved back within the lookback. The test of the floor
  (`sync.rs:12505`) allows it where everything read is below the cursor; here the
  rows past it are yet to be read. Nothing is lost, rows are read again, so
  `CursorNeverBehindStart` bounds it and does not forbid it.
- **Memory.** `config.rs:1091`, `sync.rs:1194` and `memory.rs:11` say that
  `max_memory_bytes` covers everything decoded and not yet sent or landed,
  whatever the parallelism. `push_batch` reserves once the batch is decoded
  (`sync.rs:1451`), and a reader waits with it in hand: with `n` readers waiting,
  `n` batches are beyond the ceiling. `MemoryInv` bounds it by `parallelism`
  batches; what a decoder is still building is in no count of either.
- **Append by Storage Write.** An API or a frame appends straight into BigQuery.
  A stream that finalizes with fewer rows than were sent is a warning there
  (`sync.rs:997` stops promotions only), the API run saves its cursor past the
  rows (`sync.rs:4174`), and no later run reads them again. The kind's
  documentation says that it is only reported (`config.rs:2153`), and
  `sync.rs:11145` tests that. But where `fail_on_warnings` names it, the error is
  that of `Before::Done`: "The rows are already in the destination ... reading
  them again would only write them twice" (`sync.rs:961`), which is untrue of rows
  the stream lost. `SavedMeansWritten` and `StoppedAsSaid` except these rows.
- **BigQuery source.** Rows with a NULL watermark are counted only by a read that
  has no bound (`sync.rs:3166`); `docs/guide/performance.md:350` says
  `null_watermark` is raised whenever the watermark is nullable and rows hold
  NULL. `CursorTroubleTold` asks it of SQL sources and of unbounded session
  reads only.
- **Options.** `delete_stale_in_window` with an `order_by` and no key into
  ClickHouse is accepted, reads and stages everything, and fails at promotion
  with an error that says it should have been validated
  (`sink/clickhouse.rs:1012`). An incomplete API export with it only warns,
  unless `fail_on_warnings` names `incomplete_export`, and the delete takes rows
  the source still has.
- **Warnings.** `Before::Done` says a run writes straight into the destination;
  a frame's swap or MERGE reaches that checkpoint too.
- **Decimals.** `decimal.rs:167` says a truncated tail never moves a half-way
  decision; where the last fractional digit an i128 keeps is the column's last
  one, the value is truncated. `RowsAccounted` excepts it as `Shortened`.
- **CSV.** `create_table` makes the folder and writes its manifest without the
  root lock (`sink/csv.rs:850`): of two runs that find no table, the one that is
  late writes an empty manifest over what the other has committed. Two renames in
  the place of an exchange have the same gap: a run that looks between them finds
  no table and makes one. A crash or a failed undo in an append leaves parts the
  manifest does not list (`FolderTidy` excepts it).
- **BigQuery jobs.** One whose submission was never answered may run in a later
  run: a late MERGE can overwrite newer rows, a late INSERT move the cursor back.
  The properties that it would break except `late`.
- **ClickHouse.** Without tokens inserts are at least once, as documented; a
  DELETE and the insert-select after it are two statements, sent once each.
- **API sources.** The HTTP source compares the next cursor with the one just sent
  only (`source/http_api.rs:215`): a cycle of two pages does not end. A vendor
  that cuts a multi-page export short is not noticed. `PagesOnce` is of
  CleverTap's chain.
- **Reconciliation.** A partial mismatch of how the two sides render keys is not
  detected, only a total one; `distinct_keys`' comment says keys with a tab or a
  newline are rejected by `reconcile_keys`, which does not look at them;
  `rows_deleted` is lost when a later chunk fails.

## 9. What is proved

TLC shows a property of the instances above; the theorems here are of every
value of the constants: any number of readers, batches, keys, runs, attempts,
faults. "Property" is what a run checks.

| theorem | statement | property |
|---|---|---|
| `IncrementalSync_proofs!Invariance` | `Sound => (Spec => []IInv)` | `IInv` |
| `!Typing` | every variable keeps its type | |
| `!NoUpdateIsLost` | no row is lost below the cursor | `NoLostUpdate` |
| `!MarkersVouch` | the same of a resume marker | `MarkerVouches` |
| `!RunsDeliver` | a run delivers what was committed before it began | `RunDelivers` |
| `!BackfillsLeaveTheCursor` | `advance_watermark=False` moves no cursor | `CursorUntouched` |
| `!CursorsDoNotFall` | `Sound /\ SourceNeverEmpty => (Spec => CursorNeverBehindStart)` | `CursorNeverBehindStart` |
| `RunTransfer_proofs!TransferInvariant` | `Spec => []IInv` | |
| `!StagingIsKnown`, `!PromotionIsWhole`, `!StagedIsWrittenOnce`, `!SavedIsWritten`, `!StopIsAsSaid`, `!PartialIsCounted`, `!ShrinkIsTold` | each of the seven promises of section 5, exceptions included | `StagingKnown`, `PromotedWhole`, `WrittenOnce`, `SavedMeansWritten`, `StoppedAsSaid`, `PartialCounted`, `NoSilentShrink` |
| `InsertPipeline_proofs!PipelineInvariant` | `Spec => []PInv` | |
| `!NothingIsLost`, `!TwiceIsSpilled`, `!NullsAreCountedOnce`, `!MemoryHolds` | the four safety promises of section 4 | `NothingLost`, `WrittenTwiceIfSpilled`, `NullsCountedOnce`, `MemoryInv` |
| `CsvFolder_proofs!FolderInvariant` | `Placed => (Spec => []FInv)` | |
| `!CursorsAreKept`, `!FolderIsTidy` | of the state file and of the folder | `CursorsKept`, `FolderTidy` |
| `!CommitsAreWhole` | the folder implements `TableContract` | `CommitsWhole` |
| `Sinks_proofs!ClickHouseInvariant` | `SinksSpec => [](which = "clickhouse" => Ch!CInv)` | |
| `!RowsAreStoredOnce`, `!ClickHouseCursorIsCovered`, `!StateIsTold` | the three promises of the ClickHouse sink | `ChStoredOnce`, `ChCursorCovered`, `ChStateTold` |
| `BigQuery_proofs!BigQueryInvariant` | `SinksSpec => [](which = "bigquery" => Bq!BInv)` | |
| `!RowsAreWrittenOnce`, `!BigQueryCursorIsCovered`, `!SuccessMeansDone` | the three promises of the BigQuery sink | `BqWrittenOnce`, `BqCursorCovered`, `BqSuccessIsDone` |
| `!FolderInSinks` | `SinksSpec => Spec`: what is proved of `CsvFolder` holds in `Sinks` | |
| `!SinksTyping` | `Placed => (SinksSpec => []SinksTypeOK)` | `SinksTypeOK` |
| `Reads_proofs!ChunkInvariant`, `!KeysInvariant`, `!ArchiveInvariant`, `!ReconcileInvariant` | the invariant of each, where it is the one | |
| `!ChunksAreWhole` | a marker has nothing behind it that is not written | `ChunksWhole` |
| `!KeysAreReadOnce` | each key asked for is read once, and none twice | `KeysReadOnce` |
| `!ConfigInvariant`, `!ProbesInvariant`, `!ColumnsInvariant` | the invariant of each, where it is the one | |
| `!AcceptedRunsAreSound` | what is accepted is a sound run | `AcceptedIsSound` |
| `!CursorTroublesAreTold` | a run that ends well has told of a cursor of no use | `CursorTroubleTold` |
| `!HarmsAreTold` | what a run's columns do to a table is told, and nothing else | `HarmIsTold` |
| `!ApiInvariant` | the invariant of `ApiRead`, where it is the one | |
| `!PagesAreReadOnce` | CleverTap's chain of pages visits none twice | `PagesOnce` |
| `!ApiDaysAreCovered` | a saved cursor vouches for the days before it | `DaysCovered` |
| `!ArchiveIsWhole` | what is marked or saved is archived | `ArchiveWhole` |
| `!DriftAlone` | only what the source lost is deleted | `OnlyDriftDeleted` |
| `SumTheorems` | the sum of a function under a changed, added or larger value | |

Each module is proved in the same way: the invariant holds at first, each action
keeps each part of it (a lemma an action), so `[Next]_vars` keeps it, and it
implies the property. The invariants themselves were checked by TLC, on all
states of the module's run, before they were proved.

### Assumptions

| module | hypotheses | where TLC evaluates them |
|---|---|---|
| `IncrementalSync` | `ConstantTypes` (finite integer keys, natural bounds, `None` no integer); `Sound` (section 3); for `CursorsDoNotFall` also `SourceNeverEmpty` | `MCIncrementalSync`, `MCLateDeletes` (`SoundModel`, `CursorsModel`) |
| `RunTransfer` | `TransferConstants`: the options of a transfer fit together, which `TransferConfig!AcceptedIsSound` shows, conjunct by conjunct, of those that are accepted | `MCRunTransfer` |
| `InsertPipeline` | `PipelineConstants`: finitely many readers, a sweep has one; batch sizes and limits are naturals | `MCInsertPipeline` |
| `CsvFolder` | `CsvConstants`: run ids are positive, the inserts of a run are finitely many, a part takes a row; `Placed`: runs overlap only where the table is there and folders are exchanged in one step | `MCSinks` |
| `ClickHouseSink`, in `Sinks` | `ClickHouseConstants`: only a read into the destination itself is chunked; stale rows are deleted by the watermark's column; a key that is gone is gone in all its versions; the destination starts with what is at watermark 0, or newer | `MCSinks` |
| `BigQuerySink`, in `Sinks` | `BigQueryConstants`: bounds are naturals and each call is tried once at least; the column a MERGE is pruned by never changes for a key, as the option's documentation asks; stale rows are deleted by the column of the watermark, which is the one that prunes; a key that is gone is gone in all its versions; the destination starts with one row of a key, and with what is at watermark 0, or newer | `MCSinks` |
| `ChunkedRead`, in `Reads` | `ChunkConstants`: natural bounds, a chunk and a batch take a row, `NoCursor` is no key | `MCReads` |
| `KeyRanges`, in `Reads` | `RangesConstants`: finitely many keys, none below i64::MIN; 0 is an i64 and bounds that are given are an interval of them; only MySQL's and ClickHouse's keys are unsigned, and no ClickHouse read is swept | `MCReads` |
| `TransferConfig`, in `Reads` | `ConfigConstants`: what is asked for are the options there are, of the sources, destinations and modes there are | `MCReads` |
| `CursorProbe`, in `Reads` | `ProbesConstants`: watermarks are naturals, and `NoCursor` is none; a lookback is a natural | `MCReads` |
| `ColumnDrift`, in `Reads` | `ColumnsConstants`: the names a run writes differ, as its destination compares them; a run into CSV parts that are there is staged | `MCReads` |
| `ApiRead`, in `Reads` | `ApiConstants`: finitely many records, of days from 1 on; `from_date` and `to_date` of an incremental or append transfer are not after the day of its first run; a vendor's turn skips no page, and one that ends CleverTap's chain early does so at the first page or with a partial answer | `MCReads` |
| `Archive`, in `Reads` | `ArchiveConstants`: streams are a sequence of lengths; a chunked read has one | `MCReads` |
| `Reconcile`, in `Reads` | `ReconcileConstants`: keys are positive, a chunk takes a key | `MCReads` |

`Sound`, `Placed` and `ApiConstants` say more than types. Outside of the first two the
properties fail, by the counterexamples and the schedule of section 8. Outside of the
last `DaysCovered` does: with a `to_date` to come, a cursor is saved for days that are
not over, and a lookback does not reach them; with a `from_date` to come, the first
window is moved to its end and the days up to `from_date` are then left out; and
what CleverTap leaves out of a chain of several pages is not noticed (section 8). A
run that is alone at its table is always `Placed`. `SourceNeverEmpty` (no deletes, and an initial row that
is selected and has a watermark) holds of `MCIncrementalSync`; where the rows a
cursor came from are deleted, the MAX of the source, and a cursor computed from
it, can fall. `CursorsKept` needs neither the table nor the exchange,
but its theorem rests on the same invariant.

### IncrementalSync

`NoLostUpdate` is not inductive: it speaks of the saved cursor, and what makes
the next saved cursor right is what the run under way still owes. `IInv` adds

- `Clock`, `Versions`: nothing is later than now, and a version in flight is not
  older than the one it replaces;
- `StateRow`: what a state row says when its destination is gone, and when a
  marker may have no bound;
- `RunPlan`: what the run's own variables say of the state row it read, so that
  a bound pinned to a marker is still that marker's;
- `Spanned`: a row outside the ranges split at the probe came too late for this
  run to owe it;
- `ReadPlan`: how far the read has got, and that chunks come in key order;
- `ReadCovers`: every owed row is in hand (in the destination or buffered),
  settled (changed so late that the cursor this read will save stays below it)
  or still due (to be read, and within the filter);
- `ReadDelivers`: the same without "settled", for changes from before the run.

The argument of the cursor is `ReadCovers`: when the read is over nothing is due
or buffered, so a row is current or settled, and each way of computing the
cursor (`NewWatermark`) is shown to stay at or below what "settled" allows.

`CursorsDoNotFall` needs to know why a cursor computed later is not smaller.
`CInv` says it, next to `IInv`: every cursor and bound, saved or held, is one
that some row at the source is stamped with or later (`CursorsAttained`), hence a
MAX probed later is not behind it; what a marker records or the tracker holds is
not behind the cursor beside it, but for a stream's rows of the lookback
(`MarkersInReach`); and a read of everything has such a row in front of it until
it has read one as late (`StreamReaches`), so the floor of `rewound` is the
cursor the run started from.

`Cursors` and `Markers` are unions of integers or records with `None`; the
proofs keep them folded and use the lemmas `CursorCases` and `MarkerCases`,
since the SMT translation of such unions is not to be relied on.

### RunTransfer

The promises are of what a run has left when it stops, saves or says something,
and what makes them true is how far the attempt had got. `IInv` adds

- `RowsMade`, `TablesThere`: rows are of attempts that were made, and the tables
  an attempt is about to create are not there;
- `AbortedApart`: an insert that was left in flight writes to a table of its own
  attempt, or a row the destination does not hold yet;
- `ReadSoFar`: at each step, which of this attempt's batches have landed, in
  which table, and that a step that promotes has all of them;
- `Settled`, `Vouched`: each batch behind the marker or the cursor has an attempt
  that wrote it last and that nothing will write again;
- `DestinationKept`: until it promotes, a run that stages leaves the destination
  as it was, or as its chunks have made it;
- `SaidSinceStopped`: what the error says is true from the stop on, through the
  cleanup and through inserts that land late;
- `CountsKept`: `landed` and `partial` are the cardinalities of the rows this
  attempt wrote and may write again, and of those failed attempts wrote.

`Vouched` is the centre: `WrittenOnce`, `SavedMeansWritten` and `PartialCounted`
need it because an insert of a dead attempt may be applied between any two
steps of a later one, and only the order of attempts in `Settled` keeps its row
from being taken for the one that counts.

### InsertPipeline

`PInv` accounts for every batch a reader has decoded (`Reached`, `Covered`): it
is buffered, in an insert, or written, and one that no cancelled window sent is
in one of these places only (`InOnePlace`). What a cancelled window takes back
is told by its mark (`Marked`): unless the buffer was sent since, the positions
past the mark are exactly the batches of the window, so `truncate` takes them
and no other. `Tallied` says the same of the tallies of NULL rows.

`MInv` adds that reservations keep to the ceiling and that a read that has ended
holds nothing. `MemoryHolds` then compares three sums over the readers: bytes in
buffers and inserts, bytes reserved for them, and batches. A reader whose batches
are all within the ceiling holds no more than it reserved; one with a larger batch
has reserved all of the ceiling for it. So either no batch is larger and the first
sum is at most the second, or one is and there is no other batch at all
(`CeilingHolds`). The batches waiting readers hold are a fourth sum, of at most
`Parallelism` readers (`FewRun`, an invariant of its own: a reader starts only
below that number, and none waits once the run is over) with at most the largest
batch each (`InHandWithin`).

### Sums

`SumFunction` of the community modules is a fold, hence a recursive function, and
the library's induction theorems take an operator as their parameter.
`SumTheorems` does without: a statement of all subsets of a finite set that has
a counterexample has a smallest one (`SmallestSubset`, from the well-foundedness
of the strict subsets of a finite set), and removing the element the fold picks
gives a smaller. So the fold does not depend on the order it picks in
(`AnyFirst`), from which the rest follows: adding or changing a value, comparing
two sums, bounding one by its parts.

### CsvFolder

`FInv` says, for each run,

- `Fresh`: one that has not created its folder has nothing;
- `Balanced`: while it reads, each part it wrote is open in one insert, full in
  one, idle in one stream or closed, and in one of these only; the rows of its
  parts and those its inserts have left are what was asked for;
- `Ready`: when it is to commit, all its parts are closed and have every row;
- `Committing`: what is at the table's path, and beside it, at each step of a
  swap, of two renames, or of an append, part by part;
- `Cleaned`: what of its staging folder is left while it is removed, and that
  only inserts of a failed run can write to it then;

and of all of them, that the lock is held by the run that is under it and what
that run read has not changed since (`LockInv`), that runs take turns or find a
table (`TurnInv`), and that the table and what was moved aside list whole
committed runs with all parts there (`TableInv`).

Only one run at a time creates the table or holds the lock (`Alone`), and every
other run touches its own staging folder only, so each action's lemma is about the
run that takes it (`BusyKeeps`). The
refinement goes step by step: whatever a run does leaves the runs a reader is
shown as they are, makes an empty table, puts the run in the place of all others,
or adds it to them (`TableMoves`), and each is a step of `TableContract` or a
stutter (`MovesRefine`).

### ClickHouseSink

- `StoredOnce` is of staging tables too, and rests on `Once`: while a run inserts,
  a row that staging holds was sent, or is of the insert that is tried again and
  its block was seen, so the next attempt is dropped.
- `StateTold`: every write of a state row has a token of its own (`Told`), since a
  counter is part of it.
- `CursorCovered` rests on `Saved`: what is not past the cursor is covered, and after
  a marker the rest lies past it. A run under way owes what is missing up to its
  upper bound (`Reading`, `Owed`), and each step pays or passes that on: a
  block that is dropped as a duplicate is of rows that are there (`Seen`); an
  exchange brings the newest version of every key, since staging holds what was
  sent and no more (`Staged`); a delete of stale rows takes only those of keys that
  are gone, since the window is of the watermark and the batch holds all that is
  visible from its oldest row on.

### BigQuerySink

A job that was submitted may run at any later time, in a later run too, and
several of one statement may be out at once. So the invariant speaks of every job
there is, not of the step the run is at.

- `Jobs`: a promotion is submitted once its clone was seen done, a cursor once its
  promotion was. A run that ends well has seen them all, which is half of
  `SuccessIsDone`; `Done` is the other half, that nothing undoes what they did
  while no job of an earlier run comes late.
- `Staged` and `Counted`: of the request under way staging holds all or nothing,
  and a stream with offsets counts more than was sent as soon as a row is there
  twice. So either the row count of `finalize` is what was sent and each row is
  there once, or the warning was raised (`unsure`).
- `Once`: from the moment a promotion can be submitted until its staging table is
  dropped, that table holds the whole batch, and the bounds of the MERGE let all
  of it in. A job that runs at any time in between therefore does the same.
- `OneRow`: a MERGE takes one row of each key staging has, and replaces the one
  row the destination may have of it. That is where the pruning column has to be
  the same for a key: a row outside of the bounds would not be matched, and the key
  be there twice. `BqMergeIs` computes the statement row by row.
- `Reading` and `Saved`: what is visible to a run is in its batch or covered, since
  the batch is everything from its lower bound on and the cursor it read vouches
  for the rest; a MERGE that is done covers the whole, and takes away stale rows of
  its window only, whose keys are gone. A late MERGE can put older versions back,
  which is why these hold while `"promote" \notin late`.

### ChunkedRead, KeyRanges, Archive, Reconcile

- `ChunkedReadInv`: each decoded row of a chunk is in the destination, buffered,
  on its way or left out (`RowsHandled`), and the candidate for the next cursor is a
  key that was decoded (`CandidateDecoded`). As a chunk's rows are first ones past
  the cursor, keys up to the candidate are accounted for when buffer and inserts
  are empty.
- `KeyRangesInv`: no two partitions of a plan have a key in common, and each key
  that is there or may come inside the plan has one (`Divided`); what has been
  read is what the partitions already read hold of the rows there were
  (`PartsRead`), or the keys from below the smallest to the end of the last window
  (`WindowsRead`). `Divided` of `range_partitions` is arithmetic: ranges of the
  width of the rounded-up quotient reach the largest key (`KeysSplitIs`), and each
  integer between has one of them, and only one (`KeysRangeOf`, `KeysOneRange`).
- `ArchiveInv`: an upload that is unfinished is the file a stream has open
  (`WritersKnown`), and the pieces a stream has left behind are objects
  (`PiecesKept`), before the marker passes them (`MarkerBehind`).
- `ReconcileInv`: what was read of the destination left the window or is at the
  source (`OrphansLeft`), since the destination is read first; syncs in between
  bring back no key that has left (`BatchNewer`, `LeftStaysOut`, `PhantomsFound`).

### TransferConfig, CursorProbe, ColumnDrift

- `ConfigInv`: a run that starts was asked for as some combination of options that
  `Validate` does not refuse, as `normalize` left it (`Validated`), and the flow and
  the columns did not refuse it either. `normalize` takes options away from a full
  refresh only, so that what was refused of the original is still refused of it
  where it matters.
- `ProbesInv`: the MAX is past every row untouched since, and is their newest where
  none was touched (`MaxIsOf`); each warning raised so far is of what it says
  (`WasProbed`, `WasJudged`). A row that changes becomes touched, so the statements
  about the others stay true whatever the source does.
- `ColumnsInv`: what was raised is of the table as it was found (`WasTold`); what
  the write goes into is that table, or that with the run's columns added
  (`WasPrepared`); and the table a run leaves lacks the columns of the run that were
  told as dropped, and those only (`WasLeft`). The names a run writes differ, so no
  column of its own can be taken for one that was there.

### ApiRead

- `PagesKnown`: the pages asked for are the first ones, without a gap, and of
  CleverTap's chain the current one is the last of them. A next cursor that was not
  answered yet is then a later page, so none comes twice: `PagesOnce`.
- `RecordsKept`: while pages come, the records of each page that was left are held
  or handed on; when the read ends, either they are the whole of the window
  (`AllTaken`: the last page is reached, and pages have no gap), or the run has said
  that they are not, or is about to (`Single`), or an HTTP vendor's chain ended
  where its records did not. The promotion and the save keep that.
- `RunsKnown`, `CursorKnown`: the window is the one of the cursor the run started
  with, which is the end of a window that was over or of the day it was saved on.
  A window starts at most `lookback_days` behind that cursor or at `from_date`
  (`WindowIs`), so a record of an earlier day was covered when the cursor was
  saved, or can be read now.

### Only model-checked

- Liveness (`EventuallySynced`, `RunEnds`): liveness under fairness and ENABLED
  are out of the prover's reach.
- `RowsAccounted`, `DriftIsDamage`: what decoders and comparisons compute digit by
  digit is induction over data, which is out of the prover's reach.

## 10. What is not modelled

- The Python package and its bindings (`quickhouse-py`, `python/`): one call of
  `run_transfer` with arguments converted, no state.
- Wire formats and I/O: HTTP clients, TLS and authentication, COPY and RowBinary
  layouts, protobuf encoding, CSV quoting, EXPLAIN parsing, catalog queries.
- How names are made: state keys, hosts, staging names beyond their being
  distinct (`staging_name` has a run id, which the models take as unique).
- Expressions of `column_transforms`, renames, type names and time zones; the
  models have whether a column is transformed, and what its type holds.
- Two runs of one state key at once. Nothing prevents them and no text promises
  anything; the modules let one end before the next starts, but for the CSV
  sink's runs of one table, which may overlap.
- Performance: rate limits, sleeps and durations are steps that may take any
  time.

## 11. Running the checks

    tlc -config MCIncrementalSync.cfg MCIncrementalSync
    tlc -config MCLateDeletes.cfg     MCIncrementalSync
    tlc -config MCLiveness.cfg        MCIncrementalSync
    tlc -config MCInsertPipeline.cfg  MCInsertPipeline
    tlc -config MCRunTransfer.cfg     MCRunTransfer
    tlc -config MCSinks.cfg           MCSinks
    tlc -config MCReads.cfg           MCReads
    tlapm IncrementalSync_proofs.tla
    tlapm RunTransfer_proofs.tla
    tlapm InsertPipeline_proofs.tla
    tlapm CsvFolder_proofs.tla
    tlapm Sinks_proofs.tla
    tlapm BigQuery_proofs.tla
    tlapm Reads_proofs.tla
    tlapm SumTheorems.tla

An inductive invariant is checked by adding it to the `INVARIANTS` of the run of
its module: `CInv` in `MCIncrementalSync.cfg`, `IInv` in `MCRunTransfer.cfg`, `MInv`
in `MCInsertPipeline.cfg`, `FInv` in `MCSinks.cfg`. That of an instance needs a
definition to name it there, such as `which = "clickhouse" => Ch!CInv`.

`MCResumedFirstRun`, `MCLateStampedStream`, `MCNewKeyWindow` and
`MCBackfillRecreated` are configurations of `MCDisagreements`, and
`MCUnansweredInsert` of `MCRunTransfer`; these end with the counterexample of
section 8. Operators whose comment calls them a variant are plausible mistakes;
putting one in the place of the definition after it makes TLC refute the
property `PROJECT.json` names for it.
