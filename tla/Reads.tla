------------------------------- MODULE Reads -------------------------------
(***************************************************************************)
(* What surrounds a table's read, one part of it in each behaviour: what   *)
(* may be asked of a transfer, the columns of the table it writes, the     *)
(* cursor held against the source, an API read over a few days, a parallel *)
(* or swept read's key ranges, a chunked read, the rows of a read on their *)
(* way to the destination, its Parquet archive, and the two                *)
(* reconciliations.                                                        *)
(***************************************************************************)
EXTENDS Integers, Sequences, FiniteSets

CONSTANTS
  ApiRuns, ApiHours, ApiTransfers, PageSize, ApiBatchRows, HttpAttempts,
  PageAttempts, ApiFaults,                                                     \* ApiRead's
  ArchiveRuns, ArchiveAttempts, ArchivedReads, ArchiveFaults,                  \* Archive's
  KeyedReads, RangeKeys, NullKey, MinInt, MaxInt, LeastWindow, BoundsAttempts,
  KeyRows,                                                                     \* KeyRanges's
  ReconcileKeys, OldKeys, Requests, ChunkKeys, ReconcileChanges,
  ReconcileFaults,                                                             \* Reconcile's
  RowTransfers, Limit, NumericWhole, NumericScale, GroupDigits, DecodedRows,   \* RowValues's
  ComparedColumns, SourceKeys, DestKeys, Cells(_, _), ValueRows, FinestScale,
  MicrosPerDay,                                                                \* ValueDrift's
  AskedFor,                                                                    \* TransferConfig's
  ColumnRuns, TablesFound,                                                     \* ColumnDrift's
  CursorRuns, Ids, Top,                                                        \* CursorProbe's
  ChunkedReads, LastKeyed, ChunkBatchRows, MaxStarts,                          \* ChunkedRead's
  NoCursor                                                                     \* of more than one

VARIABLES
  which,  \* "api", "archive", "chunks", "columns", "config", "cursor", "keys",
          \* "reconcile", "rows" or "values"
  cfg, now, turn, page, answered, repeats, again, held, staging, exists, incomplete, since,
  savedAt, excused,                                            \* ApiRead's
  at, uploads, writer, marker, synced,                         \* Archive's
  rows, tries, parts, todo, lo, present, early, got,           \* KeyRanges's
  request, clock, left, theirs, ours, orphans, phantom,        \* Reconcile's
  transfer, plan, written, coerced, nullRows, observed,        \* RowValues's
  column, result,                                              \* ValueDrift's
  asked, flow,                                                 \* TransferConfig's
  run, attempt, window, step, read, dest, cursor, source, batch, faults, \* of more than one
  pc                                                           \* all of them's

apiOnly       == <<cfg, now, turn, page, answered, repeats, again, held, staging, exists,
                   incomplete, since, savedAt, excused>>
archiveOnly   == <<at, uploads, writer, marker, synced>>
keysOnly      == <<rows, tries, parts, todo, lo, present, early, got>>
reconcileOnly == <<request, clock, left, theirs, ours, orphans, phantom>>
rowsOnly      == <<transfer, plan, written, coerced, nullRows, observed>>
valuesOnly    == <<column, result>>
configOnly    == <<asked, flow>>
shared        == <<run, attempt, window, step, read, dest, cursor, source, batch, faults>>

-----------------------------------------------------------------------------
Api     == INSTANCE ApiRead
           WITH LastRun <- ApiRuns, LastHour <- ApiHours, Transfers <- ApiTransfers,
                BatchRows <- ApiBatchRows, MaxFaults <- ApiFaults
ASSUME ApiInstance == Api!ApiConstants
Arch    == INSTANCE ArchiveInv
           WITH LastRun <- ArchiveRuns, MaxAttempts <- ArchiveAttempts, Reads <- ArchivedReads,
                MaxFaults <- ArchiveFaults
ASSUME ArchiveInstance == Arch!ArchiveConstants
Ranges  == INSTANCE KeyRangesInv
           WITH Reads <- KeyedReads, Keys <- RangeKeys, MaxRows <- KeyRows
ASSUME RangesInstance == Ranges!RangesConstants
Rec     == INSTANCE ReconcileInv
           WITH Keys <- ReconcileKeys, MaxChanges <- ReconcileChanges, MaxFaults <- ReconcileFaults
ASSUME ReconcileInstance == Rec!ReconcileConstants
Decoded == INSTANCE RowValues WITH Transfers <- RowTransfers, MaxRows <- DecodedRows
Drift   == INSTANCE ValueDrift WITH Columns <- ComparedColumns, MaxRows <- ValueRows
Config  == INSTANCE TransferConfig WITH Transfers <- AskedFor, plan <- flow
ASSUME ConfigInstance == Config!ConfigConstants
Columns == INSTANCE ColumnDrift
           WITH Runs <- ColumnRuns, Tables <- TablesFound, table <- dest, found <- source,
                target <- window, raised <- step, stored <- cursor, copies <- batch
ASSUME ColumnsInstance == Columns!ColumnsConstants
Probes  == INSTANCE CursorProbe
           WITH Runs <- CursorRuns, committed <- dest, shift <- window,
                max <- step, raised <- attempt, touched <- batch
ASSUME ProbesInstance == Probes!ProbesConstants
Chunks  == INSTANCE ChunkedReadInv
           WITH Reads <- ChunkedReads, BatchRows <- ChunkBatchRows,
                candidate <- lo, buffer <- batch, flying <- parts, leftOut <- early, marker <- todo,
                at <- got, starts <- tries
ASSUME ChunkInstance == Chunks!ChunkConstants

-----------------------------------------------------------------------------
\* What a module does not have stays 0.
WithoutApi ==
  /\ cfg = 0 /\ now = 0 /\ turn = 0 /\ page = 0 /\ answered = 0 /\ repeats = 0
  /\ again = 0 /\ held = 0 /\ staging = 0 /\ exists = 0 /\ incomplete = 0 /\ since = 0
  /\ savedAt = 0 /\ excused = 0
WithoutArchive ==
  /\ at = 0 /\ uploads = 0 /\ writer = 0 /\ marker = 0 /\ synced = 0
WithoutKeys ==
  /\ rows = 0 /\ tries = 0 /\ parts = 0 /\ todo = 0 /\ lo = 0 /\ present = 0
  /\ early = 0 /\ got = 0
WithoutReconcile ==
  /\ request = 0 /\ clock = 0 /\ left = 0 /\ theirs = 0 /\ ours = 0 /\ orphans = 0
  /\ phantom = 0
WithoutRows ==
  /\ transfer = 0 /\ plan = 0 /\ written = 0 /\ coerced = 0 /\ nullRows = 0 /\ observed = 0
WithoutValues ==
  /\ column = 0 /\ result = 0
WithoutConfig ==
  /\ asked = 0 /\ flow = 0

Init ==
  \/ /\ which = "api" /\ Api!Init
     /\ WithoutArchive /\ WithoutKeys /\ WithoutReconcile /\ WithoutRows /\ WithoutValues /\ WithoutConfig
     /\ step = 0 /\ read = 0 /\ source = 0 /\ batch = 0
  \/ /\ which = "archive" /\ Arch!Init
     /\ WithoutApi /\ WithoutKeys /\ WithoutReconcile /\ WithoutRows /\ WithoutValues /\ WithoutConfig
     /\ window = 0 /\ dest = 0 /\ cursor = 0 /\ source = 0 /\ batch = 0
  \/ /\ which = "keys" /\ Ranges!Init
     /\ WithoutApi /\ WithoutArchive /\ WithoutReconcile /\ WithoutRows /\ WithoutValues /\ WithoutConfig
     /\ run = 0 /\ attempt = 0 /\ dest = 0 /\ cursor = 0 /\ source = 0 /\ batch = 0
     /\ faults = 0
  \/ /\ which = "reconcile" /\ Rec!Init
     /\ WithoutApi /\ WithoutArchive /\ WithoutKeys /\ WithoutRows /\ WithoutValues /\ WithoutConfig
     /\ run = 0 /\ attempt = 0 /\ window = 0 /\ step = 0 /\ read = 0
  \/ /\ which = "rows" /\ Decoded!Init
     /\ WithoutApi /\ WithoutArchive /\ WithoutKeys /\ WithoutReconcile /\ WithoutValues /\ WithoutConfig
     /\ run = 0 /\ attempt = 0 /\ window = 0 /\ step = 0 /\ dest = 0 /\ cursor = 0
     /\ source = 0 /\ faults = 0
  \/ /\ which = "values" /\ Drift!Init
     /\ WithoutApi /\ WithoutArchive /\ WithoutKeys /\ WithoutReconcile /\ WithoutRows /\ WithoutConfig
     /\ run = 0 /\ attempt = 0 /\ window = 0 /\ step = 0 /\ read = 0 /\ cursor = 0
     /\ batch = 0 /\ faults = 0
  \/ /\ which = "config" /\ Config!Init
     /\ WithoutApi /\ WithoutArchive /\ WithoutKeys /\ WithoutReconcile /\ WithoutRows
     /\ WithoutValues
     /\ run = 0 /\ attempt = 0 /\ window = 0 /\ step = 0 /\ read = 0 /\ dest = 0
     /\ cursor = 0 /\ source = 0 /\ batch = 0 /\ faults = 0
  \/ /\ which = "columns" /\ Columns!Init
     /\ WithoutApi /\ WithoutArchive /\ WithoutKeys /\ WithoutReconcile /\ WithoutRows
     /\ WithoutValues /\ WithoutConfig
     /\ attempt = 0 /\ read = 0 /\ faults = 0
  \/ /\ which = "cursor" /\ Probes!Init
     /\ WithoutApi /\ WithoutArchive /\ WithoutKeys /\ WithoutReconcile /\ WithoutRows
     /\ WithoutValues /\ WithoutConfig
     /\ faults = 0
  \/ /\ which = "chunks" /\ Chunks!Init
     /\ WithoutApi /\ WithoutArchive /\ WithoutReconcile /\ WithoutRows /\ WithoutValues /\ WithoutConfig
     /\ present = 0 /\ run = 0 /\ attempt = 0 /\ window = 0 /\ step = 0 /\ source = 0
     /\ faults = 0

ApiStep ==
  /\ which = "api" /\ Api!Next
  /\ UNCHANGED <<which, archiveOnly, keysOnly, reconcileOnly, rowsOnly, valuesOnly, configOnly,
                 step, read, source, batch>>
ArchiveStep ==
  /\ which = "archive" /\ Arch!Next
  /\ UNCHANGED <<which, apiOnly, keysOnly, reconcileOnly, rowsOnly, valuesOnly, configOnly,
                 window, dest, cursor, source, batch>>
KeysStep ==
  /\ which = "keys" /\ Ranges!Next
  /\ UNCHANGED <<which, apiOnly, archiveOnly, reconcileOnly, rowsOnly, valuesOnly, configOnly,
                 run, attempt, dest, cursor, source, batch, faults>>
ReconcileStep ==
  /\ which = "reconcile" /\ Rec!Next
  /\ UNCHANGED <<which, apiOnly, archiveOnly, keysOnly, rowsOnly, valuesOnly, configOnly,
                 run, attempt, window, step, read>>
RowsStep ==
  /\ which = "rows" /\ Decoded!Next
  /\ UNCHANGED <<which, apiOnly, archiveOnly, keysOnly, reconcileOnly, valuesOnly, configOnly,
                 run, attempt, window, step, dest, cursor, source, faults>>
ValuesStep ==
  /\ which = "values" /\ Drift!Next
  /\ UNCHANGED <<which, apiOnly, archiveOnly, keysOnly, reconcileOnly, rowsOnly, configOnly,
                 run, attempt, window, step, read, cursor, batch, faults>>

ConfigStep ==
  /\ which = "config" /\ Config!Next
  /\ UNCHANGED <<which, apiOnly, archiveOnly, keysOnly, reconcileOnly, rowsOnly, valuesOnly,
                 shared>>
ColumnsStep ==
  /\ which = "columns" /\ Columns!Next
  /\ UNCHANGED <<which, apiOnly, archiveOnly, keysOnly, reconcileOnly, rowsOnly, valuesOnly,
                 configOnly, attempt, read, faults>>
CursorStep ==
  /\ which = "cursor" /\ Probes!Next
  /\ UNCHANGED <<which, apiOnly, archiveOnly, keysOnly, reconcileOnly, rowsOnly, valuesOnly,
                 configOnly, faults>>
ChunksStep ==
  /\ which = "chunks" /\ Chunks!Next
  /\ UNCHANGED <<which, apiOnly, archiveOnly, reconcileOnly, rowsOnly, valuesOnly, configOnly,
                 present, run, attempt, window, step, source, faults>>

Next ==
  \/ ApiStep \/ ArchiveStep \/ KeysStep \/ ReconcileStep \/ RowsStep \/ ValuesStep \/ ConfigStep
  \/ ColumnsStep \/ CursorStep \/ ChunksStep

readsVars ==
  <<which, apiOnly, archiveOnly, keysOnly, reconcileOnly, rowsOnly, valuesOnly, configOnly, shared, pc>>

Spec == Init /\ [][Next]_readsVars

-----------------------------------------------------------------------------
(* The properties of each, where it is the one, and its types.             *)

\* A CleverTap export's chain of pages is read without a page twice.
PagesOnce == which = "api" => Api!TypeOK /\ Api!PagesOnce

\* A saved API cursor leaves no day before it unread.
DaysCovered == which = "api" => Api!DaysCovered

\* The archive holds the whole of what a marker or a cursor counts as done.
ArchiveWhole == which = "archive" => Arch!TypeOK /\ Arch!ArchiveWhole

\* Every key is read by one range or window, whatever is added meanwhile.
KeysReadOnce == which = "keys" => Ranges!TypeOK /\ Ranges!KeysReadOnce

\* A key reconciliation deletes only rows the source no longer has.
OnlyDriftDeleted == which = "reconcile" => Rec!TypeOK /\ Rec!OnlyDriftDeleted

\* Every row and value of a read is written or accounted for.
RowsAccounted == which = "rows" => Decoded!TypeOK /\ Decoded!RowsAccounted

\* A value reconciliation reports the damage, and nothing that is none.
DriftIsDamage == which = "values" => Drift!TypeOK /\ Drift!DriftIsDamage

\* Whatever combination of options is accepted is a sound run.
AcceptedIsSound == which = "config" => Config!TypeOK /\ Config!AcceptedIsSound

\* What a run's columns do to a table that was there is told before it is done.
HarmIsTold == which = "columns" => Columns!TypeOK /\ Columns!HarmIsTold

\* Each way the cursor of a run can be of no use is told, and none that is not.
CursorTroubleTold == which = "cursor" => Probes!TypeOK /\ Probes!CursorTroubleTold

\* A chunked read leaves nothing out behind its markers, however it goes.
ChunksWhole == which = "chunks" => Chunks!TypeOK /\ Chunks!ChunksWhole
=============================================================================
