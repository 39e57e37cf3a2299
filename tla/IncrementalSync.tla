--------------------------- MODULE IncrementalSync ---------------------------
(***************************************************************************)
(* One incremental sync of quickhouse, run after run: the source rows it   *)
(* reads while other transactions change them, the destination it upserts  *)
(* into, and the state row (the committed cursor and the resume marker of  *)
(* an unfinished chunk_rows read) that one run leaves for the next.        *)
(*                                                                         *)
(* A row's content is the time its last change committed (`at`); its       *)
(* watermark (`wm`) is the time that change was stamped with, at most Lag  *)
(* ticks earlier.  A key of the destination holds the `at` of the version  *)
(* written there last, 0 when it holds none.                               *)
(***************************************************************************)
EXTENDS Integers, FiniteSets, FiniteSetsExt

CONSTANTS
  Keys,          \* the keyset column's values, unique integers
  Selected,      \* the keys source_query returns (all, without a query)
  InitialRows,   \* the rows of the source at the first state
  NullRows,      \* those of them whose watermark is NULL
  Starts,        \* what precedes the behaviour, a subset of StartKinds
  Configs,       \* the configurations a behaviour may be of
  ChunkRows,     \* chunk_rows: rows per keyset chunk
  Lookback,      \* lookback_seconds, in ticks
  Lag,           \* how long before its commit a change may be stamped
  NullLands,     \* the destination can hold a row whose watermark is NULL
  MaxAttempts,   \* retry_max_attempts
  CanDelete,     \* the source deletes rows
  CanDrop,       \* the destination is dropped by hand between runs
  MaxTime,       \* bound: the last tick
  MaxFaults,     \* bound: failed attempts, crashes and drops together
  None           \* an absent cursor, bound or marker ("" in the state row)

\* "max": MAX(watermark) probed through the query; "table_max": through
\* source_table, which also holds rows the query leaves out; "stream": the
\* probe is too costly (and there is a lookback), so the cursor is the largest
\* watermark read.
CursorSources == {"max", "table_max", "stream"}

\* "chunks": keyset chunks with a resume marker; "windows": key windows swept
\* one after another, or parallel key ranges; "single": one statement.
ReadModes == {"chunks", "windows", "single"}

\* "first": no run came before; "established": one synced the initial rows.
StartKinds == {"first", "established"}

\* advance is advance_watermark.  A chunked read never takes the table's MAX
\* (table_max_possible).
Config ==
  {c \in [from : CursorSources, mode : ReadModes, advance : BOOLEAN] :
     c.mode = "chunks" => c.from # "table_max"}

ASSUME ConstantTypes ==
  /\ IsFiniteSet(Keys) /\ Keys \subseteq Int /\ Keys # {}
  /\ Selected \subseteq Keys
  /\ InitialRows \subseteq Keys
  /\ NullRows \subseteq InitialRows
  /\ Starts \subseteq StartKinds
  /\ Configs \subseteq Config
  /\ ChunkRows \in Nat \ {0}
  /\ Lookback \in Nat
  /\ Lag \in Nat
  /\ {NullLands, CanDelete, CanDrop} \subseteq BOOLEAN
  /\ MaxAttempts \in Nat \ {0}
  /\ MaxTime \in Nat
  /\ MaxFaults \in Nat
  /\ None \notin Int

VARIABLES
  cfg,         \* the configuration, the same in every run of a behaviour
  now,         \* the source's clock
  src,         \* [Keys -> [wm, at]], at = 0 for an absent row
  dest,        \* [Keys -> the version held]
  destExists,  \* the destination table exists
  committed,   \* the state row's last_watermark
  marker,      \* the state row's (chunk_cursor, chunk_upper), or None
  pc,          \* where the run is
  last,        \* the cursor the run started from
  resume,      \* the marker it resumes past, or None
  discarded,   \* it set aside the state of a table that no longer exists
  upper,       \* effective_upper: the bound of its read
  snapMax,     \* what the MAX probe returned
  span,        \* the keys the statements of its read cover
  spans_statements, \* read_spans_statements: they are several
  todo,        \* keys it has still to read
  pos,         \* cursor_candidate: the last key of the chunk being read
  buf,         \* rows read and not yet durable in the destination
  seen,        \* WatermarkTracker.max
  best,        \* MarkerBound::Stream.best
  started,     \* when this attempt began to read (stage_started)
  stage_secs,  \* how long that read took, once it has ended
  first,       \* when the first attempt began (first_started)
  attempt,     \* the attempt number, within MaxAttempts
  faults       \* failures so far, within MaxFaults

source == <<cfg, now, src>>
store  == <<dest, destExists>>
state  == <<committed, marker>>
plan   == <<last, resume, discarded, upper, snapMax, span, spans_statements>>
read   == <<todo, pos, buf, seen, best, started, stage_secs>>
retry  == <<first, attempt, faults>>
vars   == <<source, store, state, pc, plan, read, retry>>

Chunked == cfg.mode = "chunks"
Absent  == [wm |-> None, at |-> 0]
NoRows  == [k \in Keys |-> 0]

LowerOf(a, b)  == IF a <= b THEN a ELSE b
HigherOf(a, b) == IF a <= b THEN b ELSE a

\* A cursor-or-None as the larger of two.
LaterOf(a, b) == IF a = None THEN b ELSE IF b = None THEN a ELSE HigherOf(a, b)

-----------------------------------------------------------------------------
(* The source: ordinary transactions on the table being read.              *)

\* A change is committed one tick later than everything before it and
\* stamped at most Lag ticks before that, always later than the row's
\* previous watermark.
Change(k) ==
  /\ now < MaxTime
  /\ now' = now + 1
  /\ \E stamp \in (now + 1 - Lag)..(now + 1) :
       /\ src[k].wm # None => stamp > src[k].wm
       /\ src' = [src EXCEPT ![k] = [wm |-> stamp, at |-> now + 1]]
  /\ UNCHANGED <<cfg, store, state, pc, plan, read, retry>>

Delete(k) ==
  /\ CanDelete
  /\ now < MaxTime
  /\ src[k].at # 0
  /\ now' = now + 1
  /\ src' = [src EXCEPT ![k] = Absent]
  /\ UNCHANGED <<cfg, store, state, pc, plan, read, retry>>

\* Time passes with no change.
Tick ==
  /\ now < MaxTime
  /\ now' = now + 1
  /\ UNCHANGED <<cfg, src, store, state, pc, plan, read, retry>>

\* The destination is dropped by hand, between runs, to be created again.
DropDestination ==
  /\ CanDrop
  /\ pc = "idle"
  /\ destExists
  /\ faults < MaxFaults
  /\ faults' = faults + 1
  /\ destExists' = FALSE
  /\ dest' = NoRows
  /\ UNCHANGED <<source, state, pc, plan, read, first, attempt>>

\* MAX(watermark) over a set of rows: None when no row holds one.
MaxWatermark(rows) ==
  LET stamps == {src[k].wm : k \in rows} \ {None}
  IN IF stamps = {} THEN None ELSE Max(stamps)

-----------------------------------------------------------------------------
(* What the saved state makes of a run.                                    *)

\* The run resumes past a marker that froze a bound.
Pinned == resume # None /\ resume.upper # None

\* The run resumes past a marker that froze none, and keeps the cursor.
KeepCommitted == resume # None /\ resume.upper = None /\ last # None

\* A WatermarkTracker folds the watermarks read.
Tracked == cfg.from # "max"

\* The incremental filter is `watermark > last - lookback AND watermark <=
\* upper`; a row whose watermark is NULL is read only where it bounds nothing.
ReturnsNull ==
  /\ NullLands
  /\ last = None
  /\ upper = None \/ (Pinned /\ cfg.from = "stream")

\* A variant that excludes the bound itself, for the checks of the model.
InFilterBelowUpper(row) ==
  /\ row.at # 0
  /\ IF row.wm = None
     THEN ReturnsNull
     ELSE /\ last # None => row.wm + Lookback > last
          /\ upper # None => row.wm < upper

\* build_watermark_filter_*.
InFilter(row) ==
  /\ row.at # 0
  /\ IF row.wm = None
     THEN ReturnsNull
     ELSE /\ last # None => row.wm + Lookback > last
          /\ upper # None => row.wm <= upper

Returned == {k \in Selected : InFilter(src[k])}

\* A variant that saves the largest watermark as it was read.
RewindNothing == 0

\* How far a read of several statements moves a cursor back: what it took
\* beyond the lookback.
Excess(secs) == HigherOf(secs - Lookback, 0)
Rewind == IF spans_statements THEN Excess(stage_secs) ELSE 0

\* A variant without the floor.
RewoundPastStart(secs) == IF seen = None THEN None ELSE seen - secs

\* WatermarkTracker::rewound, never below the cursor the run started from
\* unless everything read is.
Rewound(secs) ==
  IF seen = None \/ secs = 0 THEN seen
  ELSE LET v == seen - secs
       IN IF last = None THEN v ELSE HigherOf(v, LowerOf(last, seen))

\* WatermarkTracker::advance_from: None when nothing was read past `last`.
AdvanceFrom(secs) ==
  IF seen = None \/ (last # None /\ last >= seen - secs)
  THEN None
  ELSE seen - secs

\* A variant that folds the watermarks unmoved.
StreamBestUnmoved == LaterOf(best, seen)

\* ChunkPlan::marker_upper, with the value MarkerBound::Stream folds.
StreamBest == LaterOf(best, Rewound(Excess(now - first)))
MarkerUpper ==
  IF KeepCommitted THEN None
  ELSE IF upper # None THEN upper
  ELSE IF Tracked THEN StreamBest ELSE None

\* A cursor ahead of the source's MAX, on a run that resumes nothing.
RewindToMax ==
  resume = None /\ last # None /\ snapMax # None /\ last > snapMax

\* The cursor a run that read everything computes.
NewWatermark ==
  CASE Pinned -> upper
    [] ~Pinned /\ KeepCommitted -> None
    [] ~Pinned /\ ~KeepCommitted /\ cfg.from = "max" -> upper
    [] ~Pinned /\ ~KeepCommitted /\ cfg.from = "table_max" ->
         IF RewindToMax THEN upper ELSE AdvanceFrom(Rewind)
    [] ~Pinned /\ ~KeepCommitted /\ cfg.from = "stream" -> Rewound(Rewind)

-----------------------------------------------------------------------------
(* A run.                                                                  *)

\* What an attempt knows goes with it.
ForgetAttempt ==
  /\ last' = None /\ resume' = None /\ discarded' = FALSE
  /\ upper' = None /\ snapMax' = None
  /\ span' = {} /\ spans_statements' = FALSE
  /\ todo' = {} /\ pos' = None /\ buf' = NoRows
  /\ seen' = None /\ best' = None /\ started' = 1 /\ stage_secs' = 0

\* The process exits; the state row and the tables are what is left.
Exit ==
  /\ pc' = "idle"
  /\ first' = 1 /\ attempt' = 1
  /\ ForgetAttempt

\* The scheduler starts a sync.
Begin ==
  /\ pc = "idle"
  /\ pc' = "cursor"
  /\ first' = now
  /\ attempt' = 1
  /\ UNCHANGED <<source, store, state, plan, read, faults>>

\* read_saved_state: the cursor, then the marker, then whether the
\* destination they describe is still there.
ReadCursor ==
  /\ pc = "cursor"
  /\ pc' = "marker"
  /\ last' = committed
  /\ UNCHANGED <<source, store, state, resume, discarded, upper, snapMax, span,
                 spans_statements, read, retry>>

ReadMarker ==
  /\ pc = "marker"
  /\ pc' = "probe"
  /\ LET found == IF Chunked THEN marker ELSE None
         stale == (last # None \/ found # None) /\ ~destExists
     IN /\ discarded' = stale
        /\ last' = IF stale THEN None ELSE last
        /\ resume' = IF stale THEN None ELSE found
  /\ UNCHANGED <<source, store, state, upper, snapMax, span, spans_statements,
                 read, retry>>

\* A variant that bounds a resume by the MAX of today.
ProbeUnpinned ==
  /\ pc = "probe"
  /\ pc' = "bounds"
  /\ snapMax' = CASE cfg.from = "max" -> MaxWatermark(Selected)
                  [] cfg.from = "table_max" -> MaxWatermark(Keys)
                  [] cfg.from = "stream" -> None
  /\ upper' = snapMax'
  /\ UNCHANGED <<source, store, state, last, resume, discarded, span,
                 spans_statements, read, retry>>

\* The MAX probe, and the bound the read is held to.
Probe ==
  /\ pc = "probe"
  /\ pc' = "bounds"
  /\ snapMax' = CASE cfg.from = "max" -> MaxWatermark(Selected)
                  [] cfg.from = "table_max" -> MaxWatermark(Keys)
                  [] cfg.from = "stream" -> None
  /\ upper' = IF Pinned THEN resume.upper ELSE snapMax'
  /\ UNCHANGED <<source, store, state, last, resume, discarded, span,
                 spans_statements, read, retry>>

\* What the statements of the read cover.  Windows and range partitions split
\* [MIN, MAX] of the key, probed through the table or the query; one range
\* alone is one statement.  Other reads, and a sweep whose probe finds no row
\* or keeps failing, have no such bound.
ProbeBounds ==
  /\ pc = "bounds"
  /\ pc' = IF discarded /\ cfg.advance THEN "clear" ELSE "prepare"
  /\ \/ span' = Keys /\ spans_statements' = Chunked
     \/ /\ cfg.mode = "windows"
        /\ \E relation \in {Keys, Selected} :
             LET held == {k \in relation : src[k].at # 0}
             IN /\ held # {}
                /\ span' = {k \in Keys : \E lo, hi \in held : lo <= k /\ k <= hi}
        /\ \/ spans_statements' = TRUE
           \/ spans_statements' = FALSE /\ \E k \in Keys : span' = {k}
  /\ UNCHANGED <<source, store, state, last, resume, discarded, upper, snapMax,
                 read, retry>>

\* clear_discarded_state, before the destination exists again.
ClearDiscarded ==
  /\ pc = "clear"
  /\ pc' = "prepare"
  /\ committed' = None
  /\ marker' = None
  /\ UNCHANGED <<source, store, plan, read, retry>>

\* prepare_target, and the start of the read.
Prepare ==
  /\ pc = "prepare"
  /\ pc' = "read"
  /\ destExists' = TRUE
  /\ todo' = IF resume = None THEN Selected \cap span
             ELSE {k \in Selected \cap span : k > resume.cursor}
  /\ started' = now
  /\ UNCHANGED <<source, dest, state, plan, pos, buf, seen, best, stage_secs, retry>>

\* stage_secs: taken when the last statement's rows are durable.
SecsIf(over) == IF over THEN now - started ELSE stage_secs

\* Rows of a statement are folded into the tracker, and buffered.
Observe(rows) == seen' = LaterOf(seen, MaxWatermark(rows))
Hold(rows)    == buf' = [k \in Keys |-> IF k \in rows THEN src[k].at ELSE buf[k]]
Buffer(rows)  == Observe(rows) /\ Hold(rows)

\* ORDER BY key LIMIT chunk_rows: the one set of the first rows.
FirstRows(rows) ==
  {chunk \in SUBSET rows :
     /\ \A k \in chunk, j \in rows \ chunk : k < j
     /\ Cardinality(chunk) = LowerOf(ChunkRows, Cardinality(rows))}

\* One keyset statement: the first ChunkRows rows past the cursor, in one
\* snapshot.
ReadChunk ==
  /\ Chunked
  /\ pc = "read"
  /\ pc' = "land"
  /\ \E chunk \in FirstRows(Returned \cap todo) :
       /\ Buffer(chunk)
       /\ \/ chunk = {} /\ pos' = None /\ todo' = {}
          \/ \E cursor \in chunk :
               /\ \A k \in chunk : k <= cursor
               /\ pos' = cursor
               /\ todo' = IF Cardinality(chunk) < ChunkRows
                          THEN {}
                          ELSE {k \in todo : k > cursor}
  /\ UNCHANGED <<source, store, state, plan, best, started, stage_secs, retry>>

\* The chunk is flushed and every insert awaited; an empty one ends the read.
LandChunk ==
  /\ pc = "land"
  /\ pc' = IF pos = None THEN "finish" ELSE "mark"
  /\ dest' = [k \in Keys |-> IF buf[k] # 0 THEN buf[k] ELSE dest[k]]
  /\ buf' = NoRows
  /\ stage_secs' = SecsIf(pos = None)
  /\ UNCHANGED <<source, destExists, state, plan, todo, pos, seen, best,
                 started, retry>>

\* persist_chunk_cursor: the marker moves, the committed cursor is written
\* again as the run read it.  A short chunk ends the read.
CommitChunk ==
  /\ pc = "mark"
  /\ pc' = IF todo = {} THEN "finish" ELSE "read"
  /\ committed' = last
  /\ marker' = [cursor |-> pos, upper |-> MarkerUpper]
  /\ best' = IF Tracked THEN StreamBest ELSE best
  /\ stage_secs' = SecsIf(todo = {})
  /\ UNCHANGED <<source, store, plan, todo, pos, buf, seen, started, retry>>

\* One statement of a read that leaves no marker: a key window, a partition,
\* or the whole read.
ReadWindow(window) ==
  /\ ~Chunked
  /\ pc = "read"
  /\ window # {}
  /\ ~spans_statements => window = todo
  /\ Buffer(Returned \cap window)
  /\ todo' = todo \ window
  /\ UNCHANGED <<source, store, state, pc, plan, pos, best, started,
                 stage_secs, retry>>

\* The source cancels a window, which is read again: the rows it returned are
\* dropped from the buffer, but for those that memory pressure had sent.
CancelWindow(rows, sent) ==
  /\ cfg.mode = "windows"
  /\ spans_statements
  /\ pc = "read"
  /\ faults < MaxFaults
  /\ faults' = faults + 1
  /\ Observe(rows)
  /\ Hold(sent)
  /\ UNCHANGED <<source, store, state, pc, plan, todo, pos, best, started,
                 stage_secs, first, attempt>>

\* Some of the inserts in flight become durable, in any order.
LandSome(rows) ==
  /\ ~Chunked
  /\ pc = "read"
  /\ rows # {}
  /\ \A k \in rows : buf[k] # 0
  /\ dest' = [k \in Keys |-> IF k \in rows THEN buf[k] ELSE dest[k]]
  /\ buf' = [k \in Keys |-> IF k \in rows THEN 0 ELSE buf[k]]
  /\ UNCHANGED <<source, destExists, state, pc, plan, todo, pos, seen, best,
                 started, stage_secs, retry>>

ReadDone ==
  /\ ~Chunked
  /\ pc = "read"
  /\ todo = {}
  /\ buf = NoRows
  /\ pc' = "finish"
  /\ stage_secs' = SecsIf(TRUE)
  /\ UNCHANGED <<source, store, state, plan, todo, pos, buf, seen, best,
                 started, retry>>

\* A variant that leaves the marker when it saves no cursor.
FinishKeepMarker ==
  /\ pc = "finish"
  /\ Exit
  /\ IF cfg.advance /\ NewWatermark # None
     THEN committed' = NewWatermark /\ marker' = None
     ELSE UNCHANGED state
  /\ UNCHANGED <<source, store, faults>>

\* A variant that ignores advance_watermark.
FinishAlwaysAdvance ==
  /\ pc = "finish"
  /\ Exit
  /\ IF NewWatermark # None
     THEN committed' = NewWatermark /\ marker' = None
     ELSE IF Chunked
     THEN committed' = last /\ marker' = None
     ELSE UNCHANGED state
  /\ UNCHANGED <<source, store, faults>>

\* The tail of run_transfer_impl: save the new cursor, or clear the marker a
\* chunked read leaves when there is none to save.
Finish ==
  /\ pc = "finish"
  /\ Exit
  /\ IF cfg.advance /\ NewWatermark # None
     THEN committed' = NewWatermark /\ marker' = None
     ELSE IF Chunked
     THEN committed' = last /\ marker' = None
     ELSE UNCHANGED state
  /\ UNCHANGED <<source, store, faults>>

\* The attempt fails or the process dies: of the rows in flight any subset
\* has reached the destination.  run_transfer may try again, keeping
\* first_started; otherwise the next scheduled run starts over.
Fail(landed) ==
  /\ pc # "idle"
  /\ faults < MaxFaults
  /\ faults' = faults + 1
  /\ \A k \in landed : buf[k] # 0
  /\ dest' = [k \in Keys |-> IF k \in landed THEN buf[k] ELSE dest[k]]
  /\ \/ /\ attempt < MaxAttempts
        /\ attempt' = attempt + 1
        /\ pc' = "cursor"
        /\ ForgetAttempt
        /\ UNCHANGED first
     \/ Exit
  /\ UNCHANGED <<source, destExists, state>>

-----------------------------------------------------------------------------
InitialSource ==
  [k \in Keys |-> IF k \notin InitialRows THEN Absent
                  ELSE [wm |-> IF k \in NullRows THEN None ELSE 1, at |-> 1]]

\* An established sync holds the initial rows and their MAX as its cursor.
Init ==
  /\ cfg \in Configs
  /\ now = 1
  /\ src = InitialSource
  /\ \E start \in Starts :
       IF start = "first"
       THEN dest = NoRows /\ destExists = FALSE /\ committed = None
       ELSE /\ dest = [k \in Keys |->
                        IF k \in InitialRows \cap Selected THEN 1 ELSE 0]
            /\ destExists = TRUE
            /\ committed = 1
  /\ marker = None
  /\ pc = "idle"
  /\ last = None /\ resume = None /\ discarded = FALSE
  /\ upper = None /\ snapMax = None
  /\ span = {} /\ spans_statements = FALSE
  /\ todo = {} /\ pos = None /\ buf = NoRows
  /\ seen = None /\ best = None
  /\ started = 1 /\ stage_secs = 0 /\ first = 1
  /\ attempt = 1 /\ faults = 0

Environment ==
  \/ \E k \in Keys : Change(k) \/ Delete(k)
  \/ Tick
  \/ DropDestination
  \/ \E landed \in SUBSET Keys : Fail(landed)
  \/ \E rows \in SUBSET (Returned \cap todo) :
       \E sent \in SUBSET rows : CancelWindow(rows, sent)

Run ==
  \/ Begin \/ ReadCursor \/ ReadMarker \/ Probe \/ ProbeBounds
  \/ ClearDiscarded \/ Prepare
  \/ ReadChunk \/ LandChunk \/ CommitChunk
  \/ \E window \in SUBSET todo : ReadWindow(window)
  \/ \E rows \in SUBSET Keys : LandSome(rows)
  \/ ReadDone
  \/ Finish

Next == Environment \/ Run

Spec == Init /\ [][Next]_vars

\* The scheduler runs the sync again and again and a run that nothing stops
\* proceeds; failures, changes and the clock owe nothing.
FairSpec == Spec /\ WF_vars(Run)

-----------------------------------------------------------------------------
Cursors == Int \cup {None}
Rows    == [wm : Cursors, at : Nat]
Marks   == [cursor : Keys, upper : Cursors]
Markers == Marks \cup {None}
Steps   == {"idle", "cursor", "marker", "probe", "bounds", "clear", "prepare",
            "read", "land", "mark", "finish"}

\* Types of the variables: what the state row and a run can hold.
TypeOK ==
  /\ cfg \in Configs
  /\ now \in Nat
  /\ src \in [Keys -> Rows]
  /\ dest \in [Keys -> Nat] /\ buf \in [Keys -> Nat]
  /\ destExists \in BOOLEAN /\ discarded \in BOOLEAN
  /\ committed \in Cursors /\ last \in Cursors
  /\ upper \in Cursors /\ snapMax \in Cursors
  /\ seen \in Cursors /\ best \in Cursors
  /\ marker \in Markers /\ resume \in Markers
  /\ pc \in Steps
  /\ span \subseteq Keys /\ spans_statements \in BOOLEAN
  /\ todo \subseteq Keys
  /\ pos # None => pos \in Keys
  /\ started \in Nat /\ stage_secs \in Nat /\ first \in Nat
  /\ attempt \in 1..MaxAttempts
  /\ faults \in 0..MaxFaults

\* The destination holds the row's current version.
Current(k) == src[k].at = 0 \/ dest[k] = src[k].at

\* Rows the next read is owed: a bounded read never returns a NULL watermark.
Owed == {k \in Selected : src[k].wm # None}

\* Every row whose current version is not in the destination lies above the
\* lower bound a read from cursor c would have.
CoveredFrom(c) == \A k \in Owed : Current(k) \/ src[k].wm + Lookback > c

\* The promise of an incremental sync: whatever ran, failed, resumed or was
\* retried, a row changed at the source that the destination does not hold is
\* still above the saved cursor's lower bound, so a later run reads it.  This
\* is what MarkerBound, stream_cursor_rewind_secs, clear_discarded_state and
\* the order of the tail of run_transfer_impl are for.
NoLostUpdate == destExists /\ committed # None => CoveredFrom(committed)

\* A resume marker vouches for the keys up to its cursor: the version there
\* is durable (transfer_keyset_postgres flushes a chunk before
\* persist_chunk_cursor), or it changed later than the bound the resume will
\* save as the cursor, less the lookback.  A key past it is still to be read.
MarkerVouches ==
  destExists /\ marker # None /\ marker.upper # None =>
    \A k \in Owed :
      \/ Current(k)
      \/ k > marker.cursor /\ src[k].wm <= marker.upper
      \/ src[k].wm + Lookback > marker.upper

\* With advance_watermark=False no run moves the saved cursor: neither the
\* tail of run_transfer_impl nor the row persist_chunk_cursor writes for each
\* chunk, which carries a cursor too.
CursorUntouched == [][~cfg.advance => committed' = committed]_vars

\* A finished run leaves the saved cursor at or past the one it started from,
\* unless check_cursor_against_max found that one ahead of the source: the
\* floor of WatermarkTracker::rewound and the None of advance_from, through
\* every failed attempt, resume and rewind.  Only the marker of a chunked read
\* whose cursor is taken from its rows can be of rows in the lookback that the
\* read began in, and bring the cursor back to one of them: never further.
CursorNeverBehindStart ==
  [][Finish /\ last # None /\ ~RewindToMax
       => /\ committed' # None
          /\ \/ committed' >= last
             \/ Pinned /\ cfg.from = "stream" /\ committed' + Lookback > last]_vars

\* A run that resumed nothing and ends has delivered every change committed
\* before its first attempt began, however its attempts failed: the retry of
\* run_transfer re-reads what a failed attempt had only buffered, and a cursor
\* saved before that never hides a row from the filter.
RunDelivers ==
  [][Finish /\ resume = None
       => \A k \in Owed : src[k].at <= first => Current(k)]_vars

\* Every selected row's current version is in the destination.
Synced == \A k \in Owed : Current(k)

\* Once changes and failures stop, scheduled runs bring the destination up to
\* date and it stays so: no marker run_transfer_impl leaves behind makes every
\* later run resume past a key that changed.
EventuallySynced == <>[]Synced
=============================================================================
