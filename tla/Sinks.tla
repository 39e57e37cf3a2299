------------------------------- MODULE Sinks -------------------------------
(***************************************************************************)
(* The three destinations, one of them in each behaviour: the CSV folder,  *)
(* BigQuery and ClickHouse.  CsvFolder is extended, so its properties are  *)
(* the very ones its theorems are about; where another destination runs,   *)
(* its folder stays as it is.                                              *)
(***************************************************************************)
EXTENDS CsvFolderInv

CONSTANTS
  BqRuns, BqTransfers, BqRowsPerCall, RowsPerRequest, BqInsertAttempts,
  HttpAttempts, JobAttempts, BqFaults,                               \* BigQuerySink's
  ChRuns, ChTransfers, ChRowsPerCall, ChInsertAttempts, ChFaults     \* ClickHouseSink's

VARIABLES
  which,  \* the destination: "csv", "bigquery" or "clickhouse"
  stmt, again, stream, seen, schema, job, bounds, late, unsure,          \* BigQuerySink's
  epoch, upper, blocks, tokens, chWrites, ready,                         \* ClickHouseSink's
  cfg, run, attempt, batch, sent, dest, staging,                         \* both's
  at, saved, failures                                                    \* both's pc, state, faults

bqOnly   == <<stmt, again, stream, seen, schema, job, bounds, late, unsure>>
chOnly   == <<epoch, upper, blocks, tokens, chWrites, ready>>
bqChOnly == <<cfg, run, attempt, batch, sent, dest, staging, at, saved, failures>>

-----------------------------------------------------------------------------
Bq  == INSTANCE BigQuerySinkInv
       WITH LastRun <- BqRuns, Transfers <- BqTransfers, RowsPerCall <- BqRowsPerCall,
            InsertAttempts <- BqInsertAttempts, MaxFaults <- BqFaults,
            pc <- at, state <- saved, faults <- failures
Ch  == INSTANCE ClickHouseSinkInv
       WITH LastRun <- ChRuns, Transfers <- ChTransfers, RowsPerCall <- ChRowsPerCall,
            InsertAttempts <- ChInsertAttempts, MaxFaults <- ChFaults, writes <- chWrites,
            pc <- at, state <- saved, faults <- failures
ASSUME BigQueryInstance == Bq!BigQueryConstants
ASSUME ClickHouseInstance == Ch!ClickHouseConstants

-----------------------------------------------------------------------------
\* What a destination does not have stays 0, or what it is at the start.
AtRest == plan = (CHOOSE p \in Plans : TRUE) /\ setting = (CHOOSE s \in Settings : TRUE)
WithoutBq ==
  /\ stmt = 0 /\ again = 0 /\ stream = 0 /\ seen = 0 /\ schema = 0 /\ job = 0
  /\ bounds = 0 /\ late = 0 /\ unsure = 0
WithoutCh ==
  /\ epoch = 0 /\ upper = 0 /\ blocks = 0 /\ tokens = 0 /\ chWrites = 0 /\ ready = 0
WithoutBqCh ==
  /\ cfg = 0 /\ run = 0 /\ attempt = 0 /\ batch = 0 /\ sent = 0 /\ dest = 0
  /\ staging = 0 /\ at = 0 /\ saved = 0 /\ failures = 0

SinksInit ==
  /\ Init
  /\ \/ which = "csv" /\ WithoutBq /\ WithoutCh /\ WithoutBqCh
     \/ which = "bigquery" /\ AtRest /\ Bq!Init /\ WithoutCh
     \/ which = "clickhouse" /\ AtRest /\ Ch!Init /\ WithoutBq

CsvStep == which = "csv" /\ Next /\ UNCHANGED <<which, bqOnly, chOnly, bqChOnly>>
BqStep  == which = "bigquery" /\ Bq!Next /\ UNCHANGED <<which, vars, chOnly>>
ChStep  == which = "clickhouse" /\ Ch!Next /\ UNCHANGED <<which, vars, bqOnly>>

SinksNext == CsvStep \/ BqStep \/ ChStep

sinksVars == <<which, vars, bqOnly, chOnly, bqChOnly>>

SinksSpec == SinksInit /\ [][SinksNext]_sinksVars

-----------------------------------------------------------------------------
(* The properties of BigQuery and ClickHouse, where it is the one; those   *)
(* of the folder are CsvFolder's CommitsWhole, CursorsKept and FolderTidy. *)

\* The type invariants.
SinksTypeOK ==
  /\ TypeOK
  /\ which = "bigquery" => Bq!TypeOK
  /\ which = "clickhouse" => Ch!TypeOK

\* BigQuery holds each row it should once, whatever was sent again.
BqWrittenOnce == which = "bigquery" => Bq!WrittenOnce

\* BigQuery's cursor is never past a row that was not written.
BqCursorCovered == which = "bigquery" => Bq!CursorCovered

\* A run on BigQuery that succeeded did what it said.
BqSuccessIsDone == which = "bigquery" => Bq!SuccessIsDone

\* ClickHouse stores a row sent again once where it deduplicates.
ChStoredOnce == which = "clickhouse" => Ch!StoredOnce

\* ClickHouse's cursor is never past a row that was not written.
ChCursorCovered == which = "clickhouse" => Ch!CursorCovered

\* What ClickHouse says of the cursor is the last one a run saved.
ChStateTold == which = "clickhouse" => Ch!StateTold
=============================================================================
