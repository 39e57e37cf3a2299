----------------------------- MODULE RunTransfer -----------------------------
(***************************************************************************)
(* One call of run_transfer: its attempts, and in each of them setup, the  *)
(* destination and staging tables, the read, the checkpoints of            *)
(* fail_on_warnings, the promotion of what was staged, the cursor, and the *)
(* cleanup after an error.                                                 *)
(*                                                                         *)
(* What is read is N batches, of a key each.  A row <<a, b>> is batch b as *)
(* attempt a read it; a row <<0, b>> was in the destination before the     *)
(* run.  Rows of keys 0..N are in the run's window: 0 is a key the source  *)
(* no longer has, and keys above N are outside of the window.              *)
(***************************************************************************)
EXTENDS Integers, FiniteSets

CONSTANTS
  Configs,     \* the transfers a behaviour may be of, each
               \*   [flow: "database" (PostgreSQL, MySQL, ClickHouse),
               \*      "session" (BigQuery), "api" or "frame",
               \*    promote: "swap" (full refresh), "merge" (BigQuery),
               \*      "insert" (a staged incremental into ClickHouse),
               \*      "append" (a staged append, CSV) or "direct",
               \*    append: mode=append,
               \*    chunked: chunk_rows, gate: on_staged,
               \*    delete_stale: delete_stale_in_window,
               \*    counts: Storage Write counts the rows of a stream (BigQuery,
               \*      which stages all but an append),
               \*    allow_shrink: allow_full_refresh_shrink,
               \*    fail: fail_on_warnings,
               \*    exists: the destination does, old: keys it holds]
  N,           \* batches the source returns
  MaxAttempts, \* retry_max_attempts
  MaxFaults    \* bound: failures, crashes included

Promotions == {"swap", "merge", "insert", "append", "direct"}
Flows      == {"database", "session", "api", "frame"}
Kinds      == {"setup", "read", "partial", "shrink", "count"}

ASSUME TransferConstants ==
  /\ N \in Nat \ {0} /\ MaxAttempts \in Nat \ {0} /\ MaxFaults \in Nat
  /\ \A c \in Configs :
       /\ c.flow \in Flows /\ c.promote \in Promotions
       /\ {c.append, c.chunked, c.gate, c.delete_stale, c.counts, c.allow_shrink, c.exists}
            \subseteq BOOLEAN
       /\ c.fail \subseteq Kinds
       /\ c.old \subseteq Nat /\ IsFiniteSet(c.old)
       /\ c.old # {} => c.exists
       /\ c.promote = "append" => c.append
       /\ c.append => c.promote \in {"append", "direct"}
       /\ c.chunked => c.flow = "database" /\ c.promote \in {"merge", "insert", "direct"}
                       /\ ~c.append /\ ~c.gate /\ ~c.delete_stale
       /\ c.gate => c.promote \in {"swap", "merge", "insert"}
       /\ c.delete_stale => c.promote \in {"merge", "insert"}
       /\ c.append /\ c.promote = "direct" => c.flow \in {"api", "frame"}
       /\ c.counts => c.promote \in {"swap", "merge"} \/ (c.append /\ c.promote = "direct")

VARIABLES
  cfg,       \* the transfer, a member of Configs
  pc,        \* where the attempt is, or how the run ended
  attempt,   \* attempt
  retry,     \* the error of a failed attempt is_transient_source
  tables,    \* the tables there are
  rows,      \* what each holds
  created,   \* created_dest
  at,        \* batches handed to an insert, or committed as chunks
  inflight,  \* batches in an insert
  open,      \* ChunkStager.open
  raised,    \* the attempt's warnings
  short,     \* history: batches the attempt's streams finalized without
  carried,   \* carried
  landed,    \* landed
  partial,   \* partial
  marker,    \* the resume marker saved
  saved,     \* the cursor is saved
  unchecked, \* history: the shrink guard could not count
  aborted,   \* inserts in flight when their attempt failed
  late,      \* history: rows such an insert wrote into the destination
  lost,      \* history: tables no drop was sent for, or none succeeded
  before,    \* history: the destination when the attempt began
  stopped,   \* history: the checkpoint that stopped the run
  faults     \* within MaxFaults

control  == <<cfg, pc, attempt, retry>>
store    == <<tables, rows>>
reading  == <<at, inflight, open>>
warnings == <<raised, short, carried, unchecked>>
counters == <<landed, partial>>
state    == <<marker, saved>>
history  == <<late, lost, before, stopped>>
vars     == <<control, store, created, reading, warnings, counters, state,
              aborted, history, faults>>

-----------------------------------------------------------------------------
Batches == 1..N

\* Tables are named for the attempt that creates them and for their chunk.
Dest   == <<0, 0>>
Names  == {Dest} \cup ((1..MaxAttempts) \X (0..(N + 1)))
NoName == <<0, 1>>

\* A variant without a run id in the name.
StagingOfAnyRun == <<1, 0>>

\* staging_name: a run id of its own for every attempt.
Staging == <<attempt, 0>>

Staged     == cfg.promote # "direct"
ChunkTable == <<attempt, at + 1>>
Target     == IF Staged THEN Staging ELSE Dest

\* The table an attempt's inserts go to: a chunk has its own.
WriteTable == IF open # NoName THEN open ELSE Target

RowsOf(a) == {<<a, b>> : b \in Batches}
KeysOf(t) == {r[2] : r \in rows[t]}
InWindow(r) == r[2] <= N

Adding(t, new) == [rows EXCEPT ![t] = @ \cup new]
Emptying(gone) == [t \in Names |-> IF t \in gone THEN {} ELSE rows[t]]

Fault == faults < MaxFaults /\ faults' = faults + 1
Ended == pc \in {"ok", "failed", "dead"}

-----------------------------------------------------------------------------
(* fail_on_warnings.                                                       *)

\* A variant in which a stream that miscounted is only a warning.
SuspectNone == {}

\* The checkpoints at which a stream that miscounted is fatal on its own.
Suspect == {"Swap", "SwapIntoNew", "Merge", "MergeIntoNew", "Append",
            "AppendIntoNew", "Chunk"}

\* check_fatal.
Fatal(warned, point) ==
  warned \cap (cfg.fail \cup IF point \in Suspect THEN {"count"} ELSE {}) # {}

\* A variant that says the same of a destination the run created.
BeforeUntouched ==
  CASE cfg.promote = "swap"   -> "Swap"
    [] cfg.promote = "append" -> "Append"
    [] OTHER                  -> "Merge"

\* Before::swap, merge and append.
BeforePromotion ==
  CASE cfg.promote = "swap"   -> IF created THEN "SwapIntoNew" ELSE "Swap"
    [] cfg.promote = "append" -> IF created THEN "AppendIntoNew" ELSE "Append"
    [] OTHER                  -> IF created THEN "MergeIntoNew" ELSE "Merge"

BeforeCursor == IF cfg.chunked THEN "CursorAfterChunks" ELSE "Cursor"

-----------------------------------------------------------------------------
(* The flows: at which steps an error may be worth another attempt         *)
(* (is_transient_source), whether what attempts write is counted, whether  *)
(* a cursor is kept, and whether the last checkpoint comes after it.       *)

DatabaseFlow ==
  [retried |-> {"setup", "read"}, counted |-> TRUE, cursor |-> cfg.promote # "swap",
   last |-> FALSE]

\* Of the errors of a BigQuery source only a read that stalls is transient.
SessionFlow == [DatabaseFlow EXCEPT !.retried = {"read"}]

\* An append has no key to converge on: it checks once the cursor is saved.
ApiFlow ==
  [retried |-> {}, counted |-> FALSE, cursor |-> cfg.promote # "swap", last |-> cfg.append]

FrameFlow == [retried |-> {}, counted |-> FALSE, cursor |-> FALSE, last |-> TRUE]

Flow ==
  CASE cfg.flow = "database" -> DatabaseFlow
    [] cfg.flow = "session"  -> SessionFlow
    [] cfg.flow = "api"      -> ApiFlow
    [] cfg.flow = "frame"    -> FrameFlow

Transient(step) == IF step \in Flow.retried THEN BOOLEAN ELSE {FALSE}

AfterTables == IF Flow.cursor THEN "cursor" ELSE IF Flow.last THEN "done" ELSE "ok"

-----------------------------------------------------------------------------
(* The end of an attempt.                                                  *)

\* run_transfer: the attempt's error is the run's, or worth another attempt.
EndAttempt(transient) ==
  \/ /\ transient
     /\ attempt < MaxAttempts
     /\ pc' = "setup"
     /\ attempt' = attempt + 1
     /\ partial' = partial + landed
     /\ carried' = IF landed > 0 THEN {"partial"} ELSE carried
     /\ landed' = 0
  \/ /\ ~transient \/ attempt = MaxAttempts
     /\ pc' = "failed"
     /\ UNCHANGED <<attempt, counters, carried>>

\* An error inside the block whose errors are cleaned up after: inserts in
\* flight are dropped, and the destination may yet apply them.
Break(transient) ==
  /\ pc' = "cleanup"
  /\ retry' = transient
  /\ aborted' = aborted \cup {<<WriteTable, <<attempt, b>>>> : b \in inflight}
  /\ inflight' = {}

\* A checkpoint inside of it stops the run.
Stop(point) ==
  /\ pc' = "cleanup"
  /\ retry' = FALSE
  /\ stopped' = point

Proceed(step) == pc' = step /\ UNCHANGED <<retry, stopped>>

Check(warned, point, step) == IF Fatal(warned, point) THEN Stop(point) ELSE Proceed(step)

-----------------------------------------------------------------------------
(* Setup.                                                                  *)

\* A variant that reads from the start whatever chunks are committed.
ResumeFromStart == 0

\* resume: the read goes on after the marker.
Resume == marker

\* Setup may warn; the checkpoint before anything is written, with nothing to
\* clean up yet.
Begin(from) ==
  /\ pc = "setup"
  /\ raised' \in {carried, carried \cup {"setup"}}
  /\ short' = {}
  /\ at' = from
  /\ before' = [exists |-> Dest \in tables, rows |-> rows[Dest]]
  /\ IF Fatal(raised', "Write")
     THEN pc' = "failed" /\ stopped' = "Write"
     ELSE pc' = "prepare" /\ UNCHANGED stopped
  /\ UNCHANGED <<cfg, attempt, retry, store, created, inflight, open, carried, unchecked,
                 counters, state, aborted, late, lost, faults>>

\* Connections, the schema and the plan, the saved state and the filter.
SetupDatabase == cfg.flow = "database" /\ Begin(Resume)

\* A session or a query job of BigQuery, and the filter.
SetupSession == cfg.flow = "session" /\ Begin(0)

\* The declared columns, the saved state and the window of days.
SetupApi == cfg.flow = "api" /\ Begin(0)

\* The stream's schema, and no state.
SetupFrame == cfg.flow = "frame" /\ Begin(0)

SetupFails ==
  /\ pc = "setup"
  /\ Fault
  /\ \E transient \in Transient("setup") : EndAttempt(transient)
  /\ UNCHANGED <<cfg, retry, store, created, reading, raised, short, unchecked, state, aborted,
                 history>>

\* prepare_target: the destination if it is missing, then staging.
Prepare ==
  /\ pc = "prepare"
  /\ created' = (Dest \notin tables)
  /\ tables' = tables \cup {Dest, Target}
  /\ pc' = "read"
  /\ UNCHANGED <<cfg, attempt, retry, rows, reading, warnings, counters, state, aborted,
                 history, faults>>

\* It fails after any of its statements, outside of the block.
PrepareFails ==
  /\ pc = "prepare"
  /\ Fault
  /\ tables' \in {tables, tables \cup {Dest}, tables \cup {Dest, Target}}
  /\ lost' = lost \cup (tables' \ (tables \cup {Dest}))
  /\ EndAttempt(FALSE)
  /\ UNCHANGED <<cfg, retry, rows, created, reading, raised, short, unchecked, state, aborted,
                 late, before, stopped>>

-----------------------------------------------------------------------------
(* The read.                                                               *)

\* A batch is read, which may raise warnings, and sent.
Send ==
  /\ pc = "read" /\ ~cfg.chunked
  /\ at < N
  /\ at' = at + 1
  /\ inflight' = inflight \cup {at + 1}
  /\ raised' \in {raised, raised \cup {"read"}}
  /\ UNCHANGED <<control, store, created, open, short, carried, unchecked, counters, state,
                 aborted, history, faults>>

\* begin_chunk, and the chunk's read; one after the last is empty.
OpenChunk ==
  /\ pc = "read" /\ cfg.chunked
  /\ pc' = "chunk"
  /\ open' = IF Staged THEN ChunkTable ELSE NoName
  /\ tables' = tables \cup IF Staged THEN {ChunkTable} ELSE {}
  /\ inflight' = {at + 1} \cap Batches
  /\ raised' \in {raised, raised \cup {"read"}}
  /\ UNCHANGED <<cfg, attempt, retry, rows, created, at, short, carried, unchecked, counters,
                 state, aborted, history, faults>>

\* ChunkStager::open fails, before it has noted the table's name.
OpenFails ==
  /\ pc = "read" /\ cfg.chunked /\ Staged
  /\ Fault
  /\ tables' \in {tables, tables \cup {ChunkTable}}
  /\ lost' = lost \cup (tables' \ tables)
  /\ Break(FALSE)
  /\ UNCHANGED <<cfg, attempt, rows, created, at, open, warnings, counters, state, late,
                 before, stopped>>

\* An insert is acknowledged, and counted when it went straight in.
Lands(b) ==
  /\ pc \in {"read", "chunk"}
  /\ b \in inflight
  /\ inflight' = inflight \ {b}
  /\ rows' = Adding(WriteTable, {<<attempt, b>>})
  /\ landed' = IF Staged \/ ~Flow.counted THEN landed ELSE landed + 1
  /\ UNCHANGED <<control, tables, created, at, open, warnings, partial, state, aborted,
                 history, faults>>

\* A Storage Write stream finalizes with fewer rows than were sent.
LandsShort(b) ==
  /\ pc \in {"read", "chunk"} /\ cfg.counts
  /\ b \in inflight
  /\ Fault
  /\ inflight' = inflight \ {b}
  /\ raised' = raised \cup {"count"}
  /\ short' = short \cup {b}
  /\ UNCHANGED <<control, store, created, at, open, carried, unchecked, counters, state,
                 aborted, history>>

\* The source fails, in a way that is worth another attempt or not, or an
\* insert fails for good.
ReadFails ==
  /\ pc \in {"read", "chunk"}
  /\ Fault
  /\ \E transient \in Transient("read") : Break(transient)
  /\ UNCHANGED <<cfg, attempt, store, created, at, open, warnings, counters, state, history>>

\* An insert of a failed attempt is applied after all.
LandsLate(w) ==
  /\ w \in aborted
  /\ w[1] \in tables
  /\ aborted' = aborted \ {w}
  /\ rows' = Adding(w[1], {w[2]})
  /\ late' = IF w[1] = Dest THEN late \cup {w[2]} ELSE late
  /\ UNCHANGED <<control, tables, created, reading, warnings, counters, state, lost, before,
                 stopped, faults>>

\* reap(block): every insert has ended.
Reaped == inflight = {}

\* All partitions are read, and their inserts have landed.
EndRead ==
  /\ pc = "read" /\ ~cfg.chunked
  /\ at = N /\ Reaped
  /\ pc' = "approve"
  /\ UNCHANGED <<cfg, attempt, retry, store, created, reading, warnings, counters, state,
                 aborted, history, faults>>

-----------------------------------------------------------------------------
(* Promotion.                                                              *)

\* Rows of the window whose keys were not staged.
Stale(t) == {r \in rows[Dest] : InWindow(r) /\ r[2] \notin KeysOf(t)}

Replaced(t) == {r \in rows[Dest] : r[2] \in KeysOf(t)}

\* The destination once t is promoted.
Promoted(t) ==
  CASE cfg.promote = "swap"  -> rows[t]
    [] cfg.promote = "merge" ->
         (rows[Dest] \ (Replaced(t) \cup IF cfg.delete_stale THEN Stale(t) ELSE {})) \cup rows[t]
    [] OTHER                 -> rows[Dest] \cup rows[t]

\* What a promotion that fails can leave: a MERGE, a swap and a CSV append are
\* whole or nothing, an insert-select may stop halfway.
HalfPromoted(t) ==
  IF cfg.promote = "insert"
  THEN {rows[Dest] \cup part : part \in SUBSET rows[t]}
  ELSE {rows[Dest], Promoted(t)}

\* EXCHANGE TABLES leaves the old rows in staging; the others leave it as is.
Promotes(t) ==
  rows' = [rows EXCEPT ![Dest] = Promoted(t),
                       ![t] = IF cfg.promote = "swap" THEN rows[Dest] ELSE @]

\* warn_unclustered_merge_target and the checks of the cursor, which come too
\* late for the checkpoint before the promotion.
Warned == {raised} \cup IF cfg.promote = "swap" THEN {} ELSE {raised \cup {"read"}}

\* A chunk's rows are durable: the checkpoint before its commit.
CheckChunk ==
  /\ pc = "chunk" /\ Reaped
  /\ Check(raised, "Chunk", "commit")
  /\ UNCHANGED <<cfg, attempt, store, created, reading, warnings, counters, state, aborted,
                 late, lost, before, faults>>

\* end_chunk: a staged chunk is promoted and its table dropped; an empty one
\* is only dropped, and ends the read.
CommitChunk ==
  /\ pc = "commit"
  /\ rows' = [t \in Names |->
       CASE t = Dest /\ Staged -> Promoted(open) [] t = open -> {} [] OTHER -> rows[t]]
  /\ tables' = tables \ {open}
  /\ open' = NoName
  /\ landed' = IF cfg.promote = "insert" THEN landed + Cardinality(rows[open]) ELSE landed
  /\ raised' \in Warned
  /\ pc' = IF at < N THEN "mark" ELSE "approve"
  /\ UNCHANGED <<cfg, attempt, retry, created, at, inflight, short, carried, unchecked, partial,
                 state, aborted, history, faults>>

CommitFails ==
  /\ pc = "commit" /\ Staged
  /\ Fault
  /\ \E left \in HalfPromoted(open) : rows' = [rows EXCEPT ![Dest] = left]
  /\ Break(FALSE)
  /\ UNCHANGED <<cfg, attempt, tables, created, at, open, warnings, counters, state, history>>

\* A variant that counts what a retry resumes past.
CountKept == landed

\* chunk_committed: what landed so far isn't written again by a retry.
CountAfterMark == 0

\* persist_chunk_cursor, then chunk_committed; a short chunk ends the read.
Mark ==
  /\ pc = "mark"
  /\ marker' = at + 1 /\ at' = at + 1
  /\ landed' = CountAfterMark
  /\ pc' \in {"read"} \cup IF at + 1 = N THEN {"approve"} ELSE {}
  /\ UNCHANGED <<cfg, attempt, retry, store, created, inflight, open, warnings, partial,
                 saved, aborted, history, faults>>

MarkFails ==
  /\ pc = "mark"
  /\ Fault
  /\ marker' \in {marker, at + 1}
  /\ Break(FALSE)
  /\ UNCHANGED <<cfg, attempt, store, created, at, open, warnings, counters, saved, history>>

\* What is not staged as a whole has nothing left to promote.
NothingStaged ==
  /\ pc = "approve" /\ (cfg.chunked \/ ~Staged)
  /\ pc' = IF Staged THEN "drop" ELSE AfterTables
  /\ UNCHANGED <<cfg, attempt, retry, store, created, reading, warnings, counters, state,
                 aborted, history, faults>>

\* on_staged refuses what is staged; an incremental run asks it after the
\* checkpoint, a full refresh before.
Veto ==
  /\ pc = "approve" /\ cfg.gate
  /\ cfg.promote # "swap" => ~Fatal(raised, BeforePromotion)
  /\ Break(FALSE)
  /\ UNCHANGED <<cfg, attempt, store, created, at, open, warnings, counters, state, history,
                 faults>>

\* full_refresh_shrink_verdict, of batches.
Shrinks == Cardinality(rows[Dest]) > N

ShrinkWarning == IF Shrinks THEN {"shrink"} ELSE {}

\* A variant that checks warnings before the guard has raised its own.
SeenBeforeGuard == raised

\* The warnings the checkpoint before a swap sees.
SeenAtSwap == raised \cup ShrinkWarning

\* guard_full_refresh_shrink, then the checkpoint.
ApproveSwap ==
  /\ pc = "approve" /\ cfg.promote = "swap"
  /\ IF Shrinks /\ ~cfg.allow_shrink THEN Break(FALSE) /\ UNCHANGED <<stopped, raised>>
     ELSE /\ raised' = raised \cup ShrinkWarning
          /\ Check(SeenAtSwap, BeforePromotion, "promote")
          /\ UNCHANGED <<aborted, inflight>>
  /\ UNCHANGED <<cfg, attempt, store, created, at, open, short, carried, unchecked, counters,
                 state, late, lost, before, faults>>

\* The guard cannot count the destination, and lets the swap go on.
ApproveUncounted ==
  /\ pc = "approve" /\ cfg.promote = "swap"
  /\ Fault
  /\ unchecked' = TRUE
  /\ Check(raised, BeforePromotion, "promote")
  /\ UNCHANGED <<cfg, attempt, store, created, reading, raised, short, carried, counters, state,
                 aborted, late, lost, before>>

\* The checkpoint of a staged incremental or append.
ApprovePromotion ==
  /\ pc = "approve" /\ ~cfg.chunked /\ cfg.promote \in {"merge", "insert", "append"}
  /\ Check(raised, BeforePromotion,
           IF cfg.delete_stale /\ cfg.promote = "insert" THEN "delete" ELSE "promote")
  /\ UNCHANGED <<cfg, attempt, store, created, reading, warnings, counters, state, aborted,
                 late, lost, before, faults>>

\* delete_stale_against_staging, where the upsert cannot do it.
DeleteStale ==
  /\ pc = "delete"
  /\ rows' = [rows EXCEPT ![Dest] = @ \ Stale(Staging)]
  /\ pc' = "promote"
  /\ UNCHANGED <<cfg, attempt, retry, tables, created, reading, warnings, counters, state,
                 aborted, history, faults>>

\* atomic_swap, merge_into or insert_select; what comes with an incremental
\* run's promotion may warn.
Promote ==
  /\ pc = "promote"
  /\ Promotes(Staging)
  /\ raised' \in Warned
  /\ pc' = "drop"
  /\ UNCHANGED <<cfg, attempt, retry, tables, created, reading, short, carried, unchecked,
                 counters, state, aborted, history, faults>>

PromoteFails ==
  /\ pc \in {"delete", "promote"}
  /\ Fault
  /\ \/ pc = "delete" /\ rows' \in {rows, [rows EXCEPT ![Dest] = @ \ Stale(Staging)]}
     \/ pc = "promote" /\ \/ Promotes(Staging)
                          \/ \E left \in HalfPromoted(Staging) : rows' = [rows EXCEPT ![Dest] = left]
  /\ Break(FALSE)
  /\ UNCHANGED <<cfg, attempt, tables, created, at, open, warnings, counters, state, history>>

\* Staging, or the template of the chunks' tables, is dropped.
DropStaging ==
  /\ pc = "drop"
  /\ tables' = tables \ {Staging}
  /\ rows' = Emptying({Staging})
  /\ landed' = IF ~cfg.chunked /\ cfg.promote \in {"insert", "append"} /\ Flow.counted
               THEN landed + N ELSE landed
  /\ pc' = AfterTables
  /\ UNCHANGED <<cfg, attempt, retry, created, reading, warnings, partial, state, aborted,
                 history, faults>>

DropFails ==
  /\ pc = "drop"
  /\ Fault
  /\ Break(FALSE)
  /\ UNCHANGED <<cfg, attempt, store, created, at, open, warnings, counters, state, history>>

\* The checkpoint before the cursor.
Withheld == ~Flow.last /\ Fatal(raised, BeforeCursor)

\* The checkpoint, and persist_watermark, which clears the marker.
SaveCursor ==
  /\ pc = "cursor"
  /\ IF Withheld THEN Stop(BeforeCursor) /\ UNCHANGED state
     ELSE /\ pc' = IF Flow.last THEN "done" ELSE "ok"
          /\ saved' = TRUE /\ marker' = 0
          /\ UNCHANGED <<retry, stopped>>
  /\ UNCHANGED <<cfg, attempt, store, created, reading, warnings, counters, aborted, late, lost,
                 before, faults>>

SaveFails ==
  /\ pc = "cursor" /\ ~Withheld
  /\ Fault
  /\ \/ saved' = TRUE /\ marker' = 0
     \/ UNCHANGED state
  /\ Break(FALSE)
  /\ UNCHANGED <<cfg, attempt, store, created, at, open, warnings, counters, history>>

\* The checkpoint of what keeps no cursor, or has saved it.
CheckDone ==
  /\ pc = "done"
  /\ Check(raised, "Done", "ok")
  /\ UNCHANGED <<cfg, attempt, store, created, reading, warnings, counters, state, aborted, late,
                 lost, before, faults>>

\* A variant that forgets the chunk's table.
DoomedStaging == IF Staged THEN {Staging} ELSE {}

\* What an attempt that failed inside the block drops: an open chunk's table,
\* and staging.
Doomed == ({open} \ {NoName}) \cup IF Staged THEN {Staging} ELSE {}

\* The cleanup, each drop of which is best effort.
Cleanup ==
  /\ pc = "cleanup"
  /\ \E kept \in SUBSET (Doomed \cap tables) :
       /\ faults + Cardinality(kept) <= MaxFaults
       /\ faults' = faults + Cardinality(kept)
       /\ tables' = tables \ (Doomed \ kept)
       /\ rows' = Emptying(Doomed \ kept)
       /\ lost' = lost \cup kept
  /\ open' = NoName
  /\ EndAttempt(retry)
  /\ UNCHANGED <<cfg, retry, created, at, inflight, raised, short, unchecked, state, aborted,
                 late, before, stopped>>

\* The process dies.
Crash ==
  /\ ~Ended
  /\ Fault
  /\ pc' = "dead"
  /\ aborted' = aborted \cup {<<WriteTable, <<attempt, b>>>> : b \in inflight}
  /\ inflight' = {}
  /\ UNCHANGED <<cfg, attempt, retry, store, created, at, open, warnings, counters, state,
                 history>>

Init ==
  /\ cfg \in Configs
  /\ pc = "setup" /\ attempt = 1 /\ retry = FALSE
  /\ tables = (IF cfg.exists THEN {Dest} ELSE {})
  /\ rows = [t \in Names |-> IF t = Dest THEN {<<0, b>> : b \in cfg.old} ELSE {}]
  /\ created = FALSE
  /\ at = 0 /\ inflight = {} /\ open = NoName
  /\ raised = {} /\ short = {} /\ carried = {} /\ unchecked = FALSE
  /\ landed = 0 /\ partial = 0
  /\ marker = 0 /\ saved = FALSE
  /\ aborted = {} /\ late = {} /\ lost = {}
  /\ before = [exists |-> cfg.exists, rows |-> rows[Dest]]
  /\ stopped = "none"
  /\ faults = 0

Attempt ==
  \/ SetupDatabase \/ SetupSession \/ SetupApi \/ SetupFrame \/ Prepare \/ Send \/ EndRead
  \/ \E b \in Batches : Lands(b)
  \/ OpenChunk \/ CheckChunk \/ CommitChunk \/ Mark
  \/ NothingStaged \/ Veto \/ ApproveSwap \/ ApprovePromotion
  \/ DeleteStale \/ Promote \/ DropStaging \/ SaveCursor \/ CheckDone \/ Cleanup

Failure ==
  \/ SetupFails \/ PrepareFails \/ OpenFails \/ ReadFails \/ CommitFails \/ MarkFails
  \/ ApproveUncounted \/ PromoteFails \/ DropFails \/ SaveFails \/ Crash
  \/ \E b \in Batches : LandsShort(b)

Returned == Ended /\ UNCHANGED vars

Next ==
  \/ Attempt
  \/ Failure
  \/ \E w \in aborted : LandsLate(w)
  \/ Returned

Spec == Init /\ [][Next]_vars

-----------------------------------------------------------------------------
\* Types, and what always goes together: inserts are in flight only while the
\* attempt reads, rows are only in tables that exist, and an attempt's counts
\* start from nothing.
ControlTyped ==
  /\ cfg \in Configs
  /\ pc \in {"setup", "prepare", "read", "chunk", "commit", "mark", "approve", "delete",
            "promote", "drop", "cursor", "done", "cleanup", "ok", "failed", "dead"}
  /\ attempt \in 1..MaxAttempts /\ retry \in BOOLEAN
  /\ faults \in 0..MaxFaults

StoreTyped ==
  /\ tables \subseteq Names /\ DOMAIN rows = Names
  /\ \A t \in Names : t \notin tables => rows[t] = {}
  /\ at \in 0..N /\ marker \in 0..N /\ saved \in BOOLEAN
  /\ inflight \subseteq Batches
  /\ inflight # {} => pc \in {"read", "chunk"}
  /\ open = NoName \/ open \in tables
  /\ aborted \subseteq Names \X (Nat \X Batches)

CountsTyped ==
  /\ raised \cup carried \subseteq Kinds /\ short \subseteq Batches
  /\ landed \in 0..N /\ partial \in Nat
  /\ partial > 0 => "partial" \in carried

TypeOK == ControlTyped /\ StoreTyped /\ CountsTyped

Ours == {r \in rows[Dest] : r[1] > 0}
Theirs == {r \in rows[Dest] : r[1] = 0}
Failing == pc \in {"cleanup", "failed", "dead"}

\* A staged run changes the destination by the whole of one attempt or not at
\* all, whatever failed, retried, landed late or was left behind
\* (promote_staged_incremental, atomic_swap): no row goes before its
\* replacement is in, but for the stale rows an insert-select run deletes
\* first, and only an insert-select that failed leaves part of an attempt.
PromotedWhole ==
  Staged /\ ~cfg.chunked =>
    /\ Ours # {} => \E a \in 1..attempt :
         Ours = RowsOf(a) \/ (cfg.promote = "insert" /\ Failing /\ Ours \subseteq RowsOf(a))
    /\ Ours = {} => \A b \in cfg.old :
         <<0, b>> \in Theirs \/ (cfg.promote = "insert" /\ cfg.delete_stale /\ b = 0)
    /\ cfg.promote # "swap" =>
         \A b \in cfg.old : b > N => <<0, b>> \in Theirs

\* A run that stages, and one that commits chunk by chunk into staging, writes
\* no batch twice, whatever is retried (Sink::stage_for_retries).
WrittenOnce ==
  Staged => \A r, s \in Ours : r[2] = s[2] => r = s

\* Batches a stream straight into the destination has lost.
Missing == IF Staged THEN {} ELSE short

\* What the state says is read is in the destination: the cursor and a run's
\* success vouch for every batch, a marker for every batch up to it
\* (transfer_keyset_postgres, check_fatal on a stream that miscounted).  Only
\* an append that writes straight into BigQuery, which is past stopping, may
\* save its cursor without a batch its own stream lost: it has the warning of
\* it, and does not succeed where fail_on_warnings names it.
SavedMeansWritten ==
  \A b \in Batches :
    saved \/ pc \in {"done", "ok"} \/ b <= marker =>
      \/ \E a \in 1..attempt : <<a, b>> \in rows[Dest]
      \/ /\ cfg.append /\ b \in Missing /\ "count" \in raised
         /\ pc = "ok" => "count" \notin cfg.fail

Untouched ==
  (before.exists <=> Dest \in tables) /\ rows[Dest] \ late = before.rows \ late

\* The error of a run that fail_on_warnings stopped says what the attempt
\* left behind (Before::describe, fatal_warning_error), but for the rows an
\* append's stream lost, which Before::Done says are there.
StoppedAsSaid ==
  pc = "failed" =>
    CASE stopped \in {"Write", "Swap", "Merge", "Append"} -> Untouched /\ ~saved
      [] stopped \in {"SwapIntoNew", "MergeIntoNew", "AppendIntoNew"} ->
           Dest \in tables /\ rows[Dest] = {} /\ ~saved
      [] stopped = "Chunk" ->
           /\ ~saved /\ marker = at
           /\ Staged => \A r \in Ours : r[2] <= at
      [] stopped = "Cursor" -> ~saved /\ Batches \subseteq KeysOf(Dest)
      [] stopped = "CursorAfterChunks" -> ~saved /\ marker = N
      [] stopped = "Done" -> saved = Flow.cursor /\ Batches \ Missing \subseteq KeysOf(Dest)
      [] OTHER -> TRUE

\* An attempt leaves no table of its own behind, unless a drop failed or the
\* error came before the block that cleans up (cleanup_staging, ChunkStager).
StagingReclaimed == pc \in {"ok", "failed"} => tables \subseteq {Dest} \cup lost

\* The tables an attempt still has to drop: an open chunk's, and staging from
\* the moment it is created to the moment it is dropped.
ToDrop ==
  ({open} \ {NoName}) \cup
    IF Staged /\ pc \notin {"setup", "prepare", "cursor", "done", "ok", "failed"}
    THEN {Staging} ELSE {}

\* The invariant StagingReclaimed rests on: at every step, of every attempt, the
\* tables there are beside the destination are those the attempt still has to
\* drop or no drop will reach (staging_name, ChunkStager, cleanup_staging).
StagingKnown ==
  /\ TypeOK
  /\ tables \subseteq {Dest} \cup lost \cup ToDrop
  /\ StagingReclaimed

\* Rows a later attempt wrote again.
Rewritten == {r \in Ours : \E s \in Ours : s[2] = r[2] /\ r[1] < s[1]}

\* rows_written_failed_attempts counts what failed attempts wrote and a later
\* one wrote again, but for an insert that was applied unanswered; and a run
\* that fails on retried_after_partial_write stops before it writes any more.
PartialCounted ==
  /\ pc = "ok" => partial = Cardinality(Rewritten \ late)
  /\ partial > 0 /\ "partial" \in cfg.fail => \A r \in Ours : r[1] < attempt

\* A full refresh replaces more rows by fewer only where that is allowed and
\* no warning of it was to stop the run, or where it could not count
\* (guard_full_refresh_shrink before check_fatal).
NoSilentShrink ==
  cfg.promote = "swap" /\ Ours # {} /\ Cardinality(cfg.old) > N =>
    unchecked \/ (cfg.allow_shrink /\ "shrink" \in raised \ cfg.fail)

\* What run_transfer and the guide say of the count, with no exception: a row
\* a failed attempt wrote and a later one wrote again is counted.
EveryPartialRowCounted == pc = "ok" => partial = Cardinality(Rewritten)
=============================================================================
