---------------------------- MODULE BigQuerySink ----------------------------
(***************************************************************************)
(* The BigQuery destination.  Runs follow one another: each clones a       *)
(* staging table, writes what it read into it with insertAll or the        *)
(* Storage Write API, promotes it with a job, a MERGE or a transaction,    *)
(* drops it, and saves the cursor with another job.  The answer of a call  *)
(* may be lost, and BigQuery goes on with a job nobody waits for.          *)
(*                                                                         *)
(* The source is a log of row versions [k: the merge key, p: what the      *)
(* table is partitioned by, w: the watermark]; run r sees those up to      *)
(* watermark r.  A table is a bag of them: how often it holds each.        *)
(***************************************************************************)
EXTENDS RowVersions

CONSTANTS
  LastRun,        \* bound: runs
  Transfers,      \* the transfers a behaviour may be of, each
                  \*   [log: a sequence of versions,
                  \*    old: those the destination starts with,
                  \*    gone: those the source no longer returns,
                  \*    promote: "merge" or "swap", offsets: Storage Write,
                  \*    honours: BigQuery refuses what it has stored,
                  \*    lookback: lookback_seconds, prune: by partition,
                  \*    bound: on the key: "none", "range" or "list",
                  \*    stale: delete_stale_in_window,
                  \*    state: the state table: "none", "old" or "new"]
  RowsPerCall,    \* rows of one insert_batches
  RowsPerRequest, \* INSERT_ALL_MAX_ROWS_PER_REQUEST and its twin, 5000
  InsertAttempts, \* MAX_INSERT_ATTEMPTS, 5
  HttpAttempts,   \* JOB_HTTP_ATTEMPTS, 5
  JobAttempts,    \* RATE_LIMITED_JOB_ATTEMPTS, 6
  MaxFaults       \* bound: failures, lost answers and crashes

VARIABLES
  cfg,     \* a member of Transfers
  run,     \* the run
  pc,      \* where it is
  stmt,    \* the statement whose job it submits or polls
  attempt, \* attempt, of an insert or of jobs.insert
  again,   \* jobs of this statement before this one
  batch,   \* the versions the run read
  sent,    \* those an insert sent
  stream,  \* rows the call's committed stream holds
  seen,    \* the state table when the run looked
  dest,    \* the destination
  staging, \* each run's staging table, or Missing
  state,   \* the state table's rows, oldest first: the cursors
  schema,  \* the state table: absent, without the chunk columns, or with
  job,     \* each job: "absent", "pending", "done", "failed" or "limited"
  bounds,  \* what each run's MERGE is bounded by
  late,    \* history: statements of an earlier run whose jobs ran in a later one
  unsure,  \* history: a stream miscounted and could not be finalized
  faults   \* within MaxFaults

writing == <<batch, sent, stream>>
tables  == <<dest, staging>>
saved   == <<state, schema>>
jobs    == <<job, bounds>>
told    == <<late, unsure, faults>>
vars    == <<cfg, run, pc, stmt, attempt, again, writing, seen, tables, saved, jobs, told>>

-----------------------------------------------------------------------------
RunIds   == 1..LastRun
Versions == DOMAIN cfg.log
Empty    == [v \in Versions |-> 0]
Keys     == {cfg.log[v].k : v \in Versions}
K(v)     == cfg.log[v].k
P(v)     == cfg.log[v].p
W(v)     == cfg.log[v].w

Statements == {"clone", "promote", "persist"}
JobIds     == RunIds \X Statements \X (0..JobAttempts - 1)
Job        == <<run, stmt, again>>

Over  == pc \in {"ok", "failed", "dead"}
Fault == faults < MaxFaults /\ faults' = faults + 1
Goto(s) == pc' = s

\* The cursor a read finds: the newest row of the state table.
Cursor == IF state = <<>> THEN 0 ELSE state[Len(state)]

\* What a run reads.
Newest(S) == NewestOf(cfg.log, S)
Visible(r) == {v \in Versions \ cfg.gone : W(v) <= r}
Read(r) == IF cfg.promote = "swap" THEN Newest(Visible(r))
           ELSE {v \in Visible(r) : W(v) > Cursor - cfg.lookback}

-----------------------------------------------------------------------------
(* The state table, made when the run starts.                              *)

StartRun ==
  /\ Over /\ run < LastRun
  /\ run' = run + 1
  /\ seen' = schema
  /\ Goto("state")
  /\ UNCHANGED <<cfg, stmt, attempt, again, writing, tables, saved, jobs, told>>

\* The run reads and goes on to its first statement: the clone.
Begin ==
  /\ batch' = InOrder(Read(run))
  /\ sent' = 0 /\ stream' = 0
  /\ stmt' = "clone" /\ attempt' = 1 /\ again' = 0
  /\ Goto("submit")

\* ensure_state_table creates what it found missing, and migrate_state_table
\* patches what had no chunk columns.  When another run was first, the create
\* is refused, and the patch's etag has moved: it looks again and goes on.
EnsureState ==
  /\ pc = "state"
  /\ \/ /\ seen = "none" /\ schema # "none"
        /\ Goto("failed")
        /\ UNCHANGED <<schema, stmt, attempt, again, writing>>
     \/ /\ ~(seen = "none" /\ schema # "none")
        /\ schema' = "new"
        /\ Begin
  /\ UNCHANGED <<cfg, run, seen, tables, state, jobs, told>>

\* A run of another table.
OtherRunEnsuresState ==
  /\ pc = "state" /\ schema # "new"
  /\ schema' = "new"
  /\ UNCHANGED <<cfg, run, pc, stmt, attempt, again, writing, seen, tables, state, jobs, told>>

\* compact_state: a row goes when its key has a newer one.
\* A variant in which a row as new is enough.
StaleOrNewest == DOMAIN state
StaleRows == {i \in DOMAIN state : \E j \in DOMAIN state : j > i}

CompactState ==
  /\ StaleRows # {}
  /\ state' = IF StaleRows = DOMAIN state THEN <<>> ELSE <<state[Len(state)]>>
  /\ UNCHANGED <<cfg, run, pc, stmt, attempt, again, writing, seen, tables, schema, jobs, told>>

-----------------------------------------------------------------------------
(* Jobs.  submit_job sends the same id until it has an answer.             *)

Fails == Goto("cleanup") /\ UNCHANGED <<stmt, attempt, again, writing, bounds>>

Submit ==
  /\ pc = "submit" /\ job[Job] = "absent"
  /\ job' = [job EXCEPT ![Job] = "pending"]
  /\ Goto("poll")
  /\ UNCHANGED <<cfg, run, stmt, attempt, again, writing, seen, tables, saved, bounds, told>>

\* A transient failure: the job reached BigQuery, or not.
SubmitUnanswered ==
  /\ pc = "submit" /\ Fault
  /\ \/ job' = [job EXCEPT ![Job] = IF @ = "absent" THEN "pending" ELSE @]
     \/ UNCHANGED job
  /\ IF attempt < HttpAttempts
     THEN attempt' = attempt + 1 /\ UNCHANGED pc
     ELSE Goto("cleanup") /\ UNCHANGED attempt
  /\ UNCHANGED <<cfg, run, stmt, again, writing, seen, tables, saved, bounds, late, unsure>>

\* 409: an earlier attempt's job is there, and is polled.
SubmitConflict ==
  /\ pc = "submit" /\ attempt > 1 /\ job[Job] # "absent"
  /\ Goto("poll")
  /\ UNCHANGED <<cfg, run, stmt, attempt, again, writing, seen, tables, saved, jobs, told>>

\* run_query_job, the MERGE's and the cursor's, submits a job that was
\* limited again, as another job; the clone and the swap fail.
Resubmits == cfg.promote = "merge" \/ stmt = "persist"

\* A variant that never gives a limited job up.
Forever == TRUE
TriesLeft == again + 1 < JobAttempts

Poll ==
  /\ pc = "poll"
  /\ \/ job[Job] = "done" /\ Goto("next") /\ UNCHANGED <<attempt, again>>
     \/ /\ job[Job] = "limited" /\ Resubmits /\ stmt # "clone" /\ TriesLeft
        /\ again' = again + 1 /\ attempt' = 1
        /\ Goto("submit")
     \/ /\ job[Job] = "failed" \/ (job[Job] = "limited" /\
                                     (~Resubmits \/ stmt = "clone" \/ ~TriesLeft))
        /\ Goto("cleanup") /\ UNCHANGED <<attempt, again>>
  /\ UNCHANGED <<cfg, run, stmt, writing, seen, tables, saved, jobs, told>>

\* jobs.get fails JOB_HTTP_ATTEMPTS times.
PollFails ==
  /\ pc = "poll" /\ Fault /\ Fails
  /\ UNCHANGED <<cfg, run, seen, tables, saved, job, late, unsure>>

-----------------------------------------------------------------------------
(* Inserts.                                                                *)

\* The statement's job is done: what the run does next.
NextStep ==
  /\ pc = "next"
  /\ CASE stmt = "clone"   -> Goto(IF batch = <<>> THEN "bounds" ELSE "open")
       [] stmt = "promote" -> Goto("drop")
       [] stmt = "persist" -> Goto("ok")
  /\ attempt' = 1
  /\ UNCHANGED <<cfg, run, stmt, again, writing, seen, tables, saved, jobs, told>>

\* The rows of the call the run is in, and of the request it sends.
CallEnd == Min({((sent \div RowsPerCall) + 1) * RowsPerCall, Len(batch)})
Request == {batch[i] : i \in (sent + 1)..Min({sent + RowsPerRequest, CallEnd})}
\* The offset of the request in its call's stream.
Offset == sent % RowsPerCall

\* create_write_stream; insertAll has no stream.
OpenStream ==
  /\ pc = "open"
  /\ stream' = 0 /\ attempt' = 1
  /\ Goto("append")
  /\ UNCHANGED <<cfg, run, stmt, again, batch, sent, seen, tables, saved, jobs, told>>

\* A table that was just cloned may not be found yet.
StreamNotFound ==
  /\ pc = "open" /\ cfg.offsets /\ Fault
  /\ IF attempt < InsertAttempts
     THEN attempt' = attempt + 1 /\ UNCHANGED pc
     ELSE Goto("cleanup") /\ UNCHANGED attempt
  /\ UNCHANGED <<cfg, run, stmt, again, writing, seen, tables, saved, jobs, late, unsure>>

\* The stream holds the request, or the table its rows, with the ids they
\* have in each attempt: one before this was stored.
Repeated == IF cfg.offsets THEN stream > Offset ELSE Request \subseteq Held(staging[run])

Store ==
  /\ staging[run] # Missing
  /\ staging' = [staging EXCEPT ![run] = Adding(@, Request)]
  /\ stream' = stream + Cardinality(Request)
Refuse == UNCHANGED <<staging, stream>>

\* A stream that honours offsets refuses one it has, ALREADY_EXISTS, and
\* insertAll mostly remembers the ids of its rows.
Stored ==
  \/ ~Repeated /\ Store
  \/ Repeated /\ cfg.honours /\ Refuse
  \/ Repeated /\ ~(cfg.honours /\ cfg.offsets) /\ Store

AfterRequest ==
  /\ sent' = sent + Cardinality(Request)
  /\ attempt' = 1
  /\ Goto(IF sent + Cardinality(Request) = CallEnd THEN "finalize" ELSE "append")

TryAppend ==
  /\ pc = "append"
  /\ Stored
  /\ AfterRequest
  /\ UNCHANGED <<cfg, run, stmt, again, batch, seen, dest, saved, jobs, told>>

\* A transient failure: stored or not.  Any other one ends the run.
AppendFails ==
  /\ pc = "append" /\ Fault
  /\ \/ Stored
     \/ UNCHANGED <<staging, stream>>
  /\ \/ attempt < InsertAttempts /\ attempt' = attempt + 1 /\ UNCHANGED pc
     \/ Goto("cleanup") /\ UNCHANGED attempt
  /\ UNCHANGED <<cfg, run, stmt, again, batch, sent, seen, dest, saved, jobs, late, unsure>>

\* finalized_row_count_warning, which stops the run before the promotion.
CountMatches == cfg.offsets => stream = ((sent - 1) % RowsPerCall) + 1

\* The call ends, and the next one has a stream of its own.
FinalizeStream ==
  /\ pc = "finalize"
  /\ Goto(IF ~CountMatches THEN "cleanup"
          ELSE IF sent = Len(batch) THEN "bounds" ELSE "open")
  /\ UNCHANGED <<cfg, run, stmt, attempt, again, writing, seen, tables, saved, jobs, told>>

\* A finalize that fails is taken for harmless.
FinalizeFails ==
  /\ pc = "finalize" /\ cfg.offsets /\ Fault
  /\ Goto(IF sent = Len(batch) THEN "bounds" ELSE "open")
  /\ unsure' = (unsure \/ ~CountMatches)
  /\ UNCHANGED <<cfg, run, stmt, attempt, again, writing, seen, tables, saved, jobs, late>>

-----------------------------------------------------------------------------
(* The promotion.                                                          *)

Unbounded == [keys |-> {}, parts |-> {}]

\* The bounds staging gives: its keys, or their range, and the range of its
\* partitions.  There is no bound on what staging has no value of.
Probed ==
  LET rows == Held(staging[run])
      keys == {K(v) : v \in rows}
  IN [keys  |-> IF cfg.stale \/ cfg.bound = "none" THEN {}
                ELSE IF cfg.bound = "list" THEN keys ELSE Between(keys),
      parts |-> IF cfg.prune THEN Between({P(v) : v \in rows}) ELSE {}]

Promoting == stmt' = "promote" /\ attempt' = 1 /\ again' = 0

ProbeStaging ==
  /\ pc = "bounds"
  /\ bounds' = [bounds EXCEPT ![run] = Probed]
  /\ Promoting /\ Goto("submit")
  /\ UNCHANGED <<cfg, run, writing, seen, tables, saved, job, told>>

\* A probe that fails leaves the MERGE without bounds; one that deletes needs
\* its window.
ProbeFails ==
  /\ pc = "bounds" /\ cfg.promote = "merge" /\ Fault
  /\ Promoting
  /\ bounds' = [bounds EXCEPT ![run] = Unbounded]
  /\ Goto(IF cfg.stale THEN "cleanup" ELSE "submit")
  /\ UNCHANGED <<cfg, run, writing, seen, tables, saved, job, late, unsure>>

\* A variant of the MERGE's source that keeps every staged row.
EveryRow(s) == s
\* ROW_NUMBER: one row of each key, of the newest ones.
OnePerKey(s) ==
  LET newest == Newest(Held(s))
  IN [v \in Versions |->
        IF v \in newest /\ \A u \in newest : K(u) = K(v) => v <= u THEN 1 ELSE 0]

\* Rows of the destination the ON clause admits.
Admitted(b) == {v \in Versions : (b.keys # {} => K(v) \in b.keys)
                                 /\ (b.parts # {} => P(v) \in b.parts)}

\* A variant that deletes what is not in the batch wherever it is.
Anywhere(b) == Versions
\* WHEN NOT MATCHED BY SOURCE AND the window: without one, nothing.
Window(b) == IF cfg.stale /\ b.parts # {} THEN {v \in Versions : P(v) \in b.parts} ELSE {}

CountOf(t, k) == SumFunctionOnSet(t, {v \in Versions : K(v) = k})

Merged(s, b) ==
  LET src       == OnePerKey(s)
      matched   == {v \in Admitted(b) : dest[v] > 0 /\ CountOf(src, K(v)) > 0}
      updated   == {K(v) : v \in matched}
      times(k)  == SumFunctionOnSet(dest, {v \in matched : K(v) = k})
      deleted   == {v \in Window(b) : CountOf(src, K(v)) = 0}
      landed(v) == IF K(v) \in updated
                   THEN IF src[v] > 0 THEN times(K(v)) ELSE 0
                   ELSE src[v]
  IN [v \in Versions |->
        landed(v) + IF v \in matched \cup deleted THEN 0 ELSE dest[v]]

\* What a job of run r does: a MERGE, or TRUNCATE and INSERT in a transaction.
Promoted(r) == IF cfg.promote = "swap" THEN staging[r] ELSE Merged(staging[r], bounds[r])

\* A job finds its run's staging table, or fails.
CanRun(id) == id[2] \in {"clone", "persist"} \/ staging[id[1]] # Missing

JobRuns(id) ==
  /\ job[id] = "pending" /\ CanRun(id)
  /\ job' = [job EXCEPT ![id] = "done"]
  /\ dest' = IF id[2] = "promote" THEN Promoted(id[1]) ELSE dest
  /\ staging' = IF id[2] = "clone" THEN [staging EXCEPT ![id[1]] = Empty] ELSE staging
  /\ state' = IF id[2] = "persist" THEN Append(state, id[1]) ELSE state
  /\ late' = IF id[1] = run THEN late ELSE late \cup {id[2]}
  /\ UNCHANGED <<cfg, run, pc, stmt, attempt, again, writing, seen, schema, bounds, unsure, faults>>

\* A failed job did nothing: a rate limit, a backend error, or a real error.
JobFails(id) ==
  /\ job[id] = "pending"
  /\ \/ ~CanRun(id) /\ job' = [job EXCEPT ![id] = "failed"] /\ UNCHANGED faults
     \/ Fault /\ \E how \in {"limited", "failed"} : job' = [job EXCEPT ![id] = how]
  /\ UNCHANGED <<cfg, run, pc, stmt, attempt, again, writing, seen, tables, saved, bounds,
                 late, unsure>>

DropStaging ==
  /\ pc = "drop"
  /\ staging' = [staging EXCEPT ![run] = Missing]
  /\ IF cfg.promote = "merge"
     THEN stmt' = "persist" /\ attempt' = 1 /\ again' = 0 /\ Goto("submit")
     ELSE Goto("ok") /\ UNCHANGED <<stmt, attempt, again>>
  /\ UNCHANGED <<cfg, run, writing, seen, dest, saved, jobs, told>>

\* The run failed: staging is dropped, if that succeeds.
Cleanup ==
  /\ pc = "cleanup"
  /\ \/ staging' = [staging EXCEPT ![run] = Missing] /\ UNCHANGED faults
     \/ Fault /\ UNCHANGED staging
  /\ Goto("failed")
  /\ UNCHANGED <<cfg, run, stmt, attempt, again, writing, seen, dest, saved, jobs, late, unsure>>

Crash ==
  /\ ~Over /\ Fault
  /\ Goto("dead")
  /\ UNCHANGED <<cfg, run, stmt, attempt, again, writing, seen, tables, saved, jobs, late, unsure>>

-----------------------------------------------------------------------------
Init ==
  /\ cfg \in Transfers
  /\ run = 0 /\ pc = "ok" /\ stmt = "clone" /\ attempt = 1 /\ again = 0
  /\ batch = <<>> /\ sent = 0 /\ stream = 0 /\ seen = cfg.state
  /\ dest = [v \in Versions |-> IF v \in cfg.old THEN 1 ELSE 0]
  /\ staging = [r \in RunIds |-> Missing]
  /\ state = <<>> /\ schema = cfg.state
  /\ job = [id \in JobIds |-> "absent"]
  /\ bounds = [r \in RunIds |-> Unbounded]
  /\ late = {} /\ unsure = FALSE /\ faults = 0

StateTable == StartRun \/ EnsureState \/ OtherRunEnsuresState \/ CompactState
Submission == Submit \/ SubmitUnanswered \/ SubmitConflict \/ Poll \/ PollFails \/ NextStep
Insert == OpenStream \/ StreamNotFound \/ TryAppend \/ AppendFails \/ FinalizeStream
          \/ FinalizeFails
Promotion == ProbeStaging \/ ProbeFails \/ DropStaging
Ended == Over /\ run = LastRun

Next ==
  \/ StateTable \/ Submission \/ Insert \/ Promotion \/ Cleanup \/ Crash
  \/ \E id \in JobIds : JobRuns(id) \/ JobFails(id)
  \/ Ended /\ UNCHANGED vars

Spec == Init /\ [][Next]_vars

-----------------------------------------------------------------------------
TypeOK ==
  /\ cfg \in Transfers /\ run \in 0..LastRun
  /\ attempt \in 1..HttpAttempts \cup 1..InsertAttempts
  /\ again \in 0..JobAttempts - 1
  /\ dest \in [Versions -> Nat]
  /\ job \in [JobIds -> {"absent", "pending", "done", "failed", "limited"}]
  /\ sent \in 0..Len(batch) /\ stream \in Nat
  /\ faults \in 0..MaxFaults

\* A MERGE leaves one row of each key, though staging may hold a row twice or
\* two versions of a key, and though a job may run late.  Storage Write stores
\* each row once through lost answers and retries: a stream that counts
\* otherwise stops the run before a swap, unless the count was not to be had.
WrittenOnce ==
  /\ cfg.promote = "merge" => \A k \in Keys : CountOf(dest, k) <= 1
  /\ cfg.offsets /\ ~unsure => \A v \in Versions : dest[v] <= 1

\* A cursor vouches for what it is past: the destination has the newest
\* version of each key up to it, or a newer one, unless a MERGE nobody waited
\* for ran in a later run.
CursorCovered ==
  "promote" \notin late /\ cfg.promote = "merge" =>
    \A v \in Newest({u \in Versions \ cfg.gone : W(u) <= Cursor}) :
      \E u \in Held(dest) : K(u) = K(v) /\ W(u) >= W(v)

\* A run that succeeds has promoted what it read, and the next one starts at
\* the cursor it saved: each of its jobs was seen to be done.
SuccessIsDone ==
  pc = "ok" /\ run > 0 /\ late = {} =>
    IF cfg.promote = "swap" THEN Held(dest) = Newest(Visible(run))
    ELSE /\ Cursor = run
         /\ cfg.stale => \A v \in cfg.gone : P(v) \in bounds[run].parts => dest[v] = 0
=============================================================================
