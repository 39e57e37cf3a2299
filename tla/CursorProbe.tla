---------------------------- MODULE CursorProbe ----------------------------
(***************************************************************************)
(* What an incremental run that reads in one statement makes of its cursor:*)
(* the probes of the source, the cursor held against them, the read, and   *)
(* the cursor it saves, over a source whose rows change between the steps  *)
(* and a saved cursor that need not be one the source wrote.               *)
(*                                                                         *)
(* A watermark is a positive integer; 0 is NULL, of a row or of a MAX over *)
(* nothing.                                                                *)
(***************************************************************************)
EXTENDS Integers, FiniteSets

CONSTANTS
  Runs,     \* the runs a behaviour may be of, each
            \*   [flow: "sql" (PostgreSQL, MySQL, ClickHouse) or "session"
            \*      (BigQuery),
            \*    query: it reads source_query, table: source_table is set too,
            \*    from: what the MAX is of, "query", "table" or, too costly,
            \*      "stream",
            \*    nullable: the watermark is,
            \*    lands: the destination takes a NULL watermark,
            \*    append: mode=append, skip: seed_watermark=skip_to_max,
            \*    counts: the NULL count is affordable,
            \*    judges: the table's own MAX is,
            \*    ordered: values of the watermark's type can be compared,
            \*    lookback: lookback_seconds]
  Ids,      \* the rows the source may have
  Top,      \* bound: the newest watermark of a row
  NoCursor  \* no cursor is saved

VARIABLES
  run,     \* the run, a member of Runs
  pc,      \* the step it is at, or how it ended
  source,  \* what each row holds, [mark, in: source_query returns it], or Gone
  cursor,  \* the cursor saved
  committed, \* the one the run found
  shift,   \* how much later the source reads it than it was written, or Unreadable
  max,     \* snapshot_max
  read,    \* the watermarks of the rows read
  raised,  \* warnings
  touched  \* history: rows changed since the probe

vars == <<run, pc, source, cursor, committed, shift, max, read, raised, touched>>

Kinds      == {"null_watermark", "null_check_skipped", "unindexed_watermark",
               "watermark_ahead_of_source", "watermark_not_advanced"}
Gone       == [mark |-> 0, in |-> FALSE]
Unreadable == 3

Within == {i \in Ids : source[i].in}
NewestOf(ids) ==
  LET marks == {source[i].mark : i \in ids}
  IN CHOOSE n \in marks \cup {0} : \A m \in marks : m <= n
Nulls == {i \in Within : source[i].mark = 0}

-----------------------------------------------------------------------------
(* Setup.                                                                  *)

\* The NULL count, where it is affordable, and what tells that it is not.
NullWarnings ==
  IF run.flow # "sql" \/ ~run.nullable THEN {}
  ELSE IF ~run.counts THEN {"null_check_skipped"}
  ELSE IF Nulls # {} THEN {"null_watermark"} ELSE {}

\* query_max_watermark, or source_table's, or none.
Probed ==
  CASE run.from = "query"  -> NewestOf(Within)
    [] run.from = "table"  -> NewestOf(Ids)
    [] run.from = "stream" -> 0

Probe ==
  /\ pc = "probe"
  /\ max' = Probed
  /\ raised' = NullWarnings \cup IF run.from = "stream" THEN {"unindexed_watermark"} ELSE {}
  /\ pc' = "judge"
  /\ UNCHANGED <<run, source, cursor, committed, shift, read, touched>>

\* The cursor the run starts from: seed_value where none is saved.
Last == IF committed = NoCursor /\ run.skip /\ max # 0 THEN max ELSE committed

\* A seed of the source's own MAX is read back as it was written.
Lower == Last + (IF committed = NoCursor THEN 0 ELSE shift) - run.lookback

-----------------------------------------------------------------------------
(* The cursor against the source's MAX.                                    *)

\* check_cursor_against_max.
Checked == Last # NoCursor /\ max # 0 /\ run.ordered
Ahead   == Checked /\ Last > max

\* A variant in which the filtered MAX alone decides.
VerdictOfFilter == IF run.query THEN "unexplained" ELSE "real"

\* judge_cursor_ahead_of_query: the unfiltered table's MAX settles it, where
\* there is one that can be read.
Verdict ==
  CASE ~run.query \/ run.from = "table" -> "real"
    [] run.query /\ run.from # "table" ->
         IF run.flow = "session" \/ ~run.table \/ ~run.judges \/ NewestOf(Ids) = 0
         THEN "unexplained"
         ELSE IF Last > NewestOf(Ids) THEN "real" ELSE "within"

\* A cursor from the rows needs values in an order, and skip_to_max a MAX; a
\* cursor the source cannot read would compare with nothing
\* (ensure_lower_bound_not_null), or fails a session's query.
Refused ==
  \/ run.from = "stream" /\ ~run.ordered
  \/ run.skip /\ committed = NoCursor /\ run.from = "stream"
  \/ committed # NoCursor /\ shift = Unreadable

\* A read with no bound, into a destination that takes no NULL watermark.
Excludes == ~run.lands \/ run.append
Unbounded == Last = NoCursor /\ max = 0

\* A session counts the rows such a read leaves out.
Counted ==
  IF run.flow = "session" /\ Unbounded /\ Excludes /\ Nulls # {} THEN {"null_watermark"} ELSE {}

Judge ==
  /\ pc = "judge"
  /\ IF Refused THEN pc' = "refused" /\ UNCHANGED raised
     ELSE /\ pc' = "read"
          /\ raised' = raised \cup Counted
               \cup IF Ahead /\ Verdict # "within" THEN {"watermark_ahead_of_source"} ELSE {}
  /\ UNCHANGED <<run, source, cursor, committed, shift, max, read, touched>>

-----------------------------------------------------------------------------
(* The read, and what follows it.                                          *)

\* build_watermark_filter.
InFilter(mark) ==
  IF mark = 0 THEN Unbounded /\ ~Excludes
  ELSE /\ Last # NoCursor => mark > Lower
       /\ max # 0 => mark <= max

Read ==
  /\ pc = "read"
  /\ read' = {source[i].mark : i \in {j \in Within : InFilter(source[j].mark)}}
  /\ pc' = "finish"
  /\ UNCHANGED <<run, source, cursor, committed, shift, max, raised, touched>>

\* WatermarkTracker::seen.
Seen == CHOOSE n \in read \cup {0} : \A m \in read : m <= n

\* advance_from: past where the run started, or a seed is kept.
AdvanceFrom ==
  IF Seen # 0 /\ (Last = NoCursor \/ Seen > Last) THEN Seen ELSE Last

\* new_watermark, NoCursor for none.
NewWatermark ==
  CASE run.from = "query"  -> IF max = 0 THEN NoCursor ELSE max
    [] run.from = "table"  -> IF Ahead THEN max ELSE AdvanceFrom
    [] run.from = "stream" -> IF Seen = 0 THEN NoCursor ELSE Seen

\* warn_on_unwatermarked_read.
WatermarkRead == IF run.from = "query" THEN max # 0 ELSE Seen # 0
Unwatermarked ==
  IF read # {} /\ ~WatermarkRead /\ (run.flow = "session" \/ Last = NoCursor)
  THEN {"null_watermark"} ELSE {}

\* warn_if_not_advanced: the row that holds the MAX had to be read.
NotAdvanced ==
  IF run.from # "table" /\ Checked /\ max > Last - run.lookback /\ read = {}
  THEN {"watermark_not_advanced"} ELSE {}

Finish ==
  /\ pc = "finish"
  /\ raised' = raised \cup Unwatermarked \cup NotAdvanced
  /\ cursor' = IF NewWatermark = NoCursor THEN cursor ELSE NewWatermark
  /\ pc' = "ok"
  /\ UNCHANGED <<run, source, committed, shift, max, read, touched>>

\* A row of the source is inserted, updated or deleted; bound: one of them.
RowsOf(r) ==
  {Gone} \cup [mark : (IF r.nullable THEN 0 ELSE 1)..Top, in : IF r.query THEN BOOLEAN ELSE {TRUE}]

Change(i) ==
  /\ pc \in {"judge", "read"} /\ touched = {}
  /\ \E new \in RowsOf(run) \ {source[i]} : source' = [source EXCEPT ![i] = new]
  /\ touched' = {i}
  /\ UNCHANGED <<run, pc, cursor, committed, shift, max, read, raised>>

Returned == pc \in {"ok", "refused"} /\ UNCHANGED vars

Init ==
  /\ run \in Runs
  /\ source \in [Ids -> RowsOf(run)]
  /\ cursor \in {NoCursor} \cup 1..(Top + 1)
  /\ committed = cursor
  /\ shift \in IF cursor = NoCursor THEN {0} ELSE {0, 2, Unreadable}
  /\ max = 0 /\ read = {} /\ raised = {} /\ touched = {}
  /\ pc = "probe"

Next == Probe \/ Judge \/ Read \/ Finish \/ Returned \/ \E i \in Ids : Change(i)

Spec == Init /\ [][Next]_vars

-----------------------------------------------------------------------------
\* Types, and what always goes together: nothing is read before the cursor is
\* judged, and a run that is refused has read nothing.
TypeOK ==
  /\ run \in Runs
  /\ pc \in {"probe", "judge", "read", "finish", "ok", "refused"}
  /\ \A i \in Ids : source[i] \in RowsOf(run)
  /\ cursor \in {NoCursor} \cup 1..(Top + 1) /\ max \in 0..Top
  /\ read \subseteq 0..Top
  /\ pc \in {"probe", "judge", "read", "refused"} => read = {}
  /\ raised \subseteq Kinds
  /\ touched \subseteq Ids

\* The rows that did not change since the probe.
Steady == Within \ touched

\* A run that ends well has told of each way its cursor can be of no use, and
\* tells of none that is not there (check_cursor_against_max,
\* judge_cursor_ahead_of_query, warn_if_not_advanced, the NULL probes):
\*  - a row past the saved cursor is there, and nothing was read;
\*  - the cursor it started from is past everything the table holds, and it is
\*    moved back;
\*  - rows it reads past for having no watermark; a session counts them only
\*    where no bound leaves them out;
\*  - it read rows and still has no cursor, so every run will read them again.
CursorTroubleTold ==
  pc = "ok" =>
    /\ run.from = "query" /\ Checked /\ read = {} /\ (\E i \in Steady : source[i].mark > Last)
         => "watermark_not_advanced" \in raised
    /\ "watermark_not_advanced" \in raised => shift # 0 \/ touched # {}
    /\ Checked /\ touched = {} /\ (\A i \in Ids : source[i].mark < Last)
         => "watermark_ahead_of_source" \in raised /\ \E i \in Ids : source[i].mark = cursor
    /\ "watermark_ahead_of_source" \in raised /\ touched = {} =>
         \A i \in IF run.flow = "sql" /\ run.table /\ run.judges THEN Ids ELSE Within :
           source[i].mark < Last
    /\ (run.flow = "sql" \/ Unbounded) /\ 0 \notin read /\ (\E i \in Steady : source[i].mark = 0)
         => raised \cap {"null_watermark", "null_check_skipped"} # {}
    /\ read # {} /\ cursor = NoCursor => "null_watermark" \in raised

-----------------------------------------------------------------------------
(* Why nothing is left untold: what each step made of the source it saw,   *)
(* which differs from the one that is there in the rows touched only.      *)

ProbesConstants ==
  /\ Top \in Nat /\ NoCursor \notin 0..(Top + 1)
  /\ \A r \in Runs :
       /\ r.flow \in {"sql", "session"} /\ r.from \in {"query", "table", "stream"}
       /\ r.lookback \in Nat

Untouched == touched = {}

\* The MAX is past every row that is as it was when it was probed.
MaxIsOf(ids) ==
  /\ \A i \in ids \ touched : source[i].mark <= max
  /\ Untouched => max = NewestOf(ids)

WasProbed ==
  /\ run.from = "query" => MaxIsOf(Within)
  /\ run.from = "table" => MaxIsOf(Ids)
  /\ run.from = "stream" => max = 0
  /\ run.flow = "sql" /\ (\E i \in Steady : source[i].mark = 0) =>
       raised \cap {"null_watermark", "null_check_skipped"} # {}

WasJudged ==
  /\ "watermark_ahead_of_source" \in raised => Ahead /\ (Untouched => Verdict # "within")
  /\ Untouched /\ Ahead /\ Verdict # "within" => "watermark_ahead_of_source" \in raised
  /\ run.flow = "session" /\ Unbounded /\ Excludes /\ (\E i \in Steady : source[i].mark = 0) =>
       "null_watermark" \in raised

ProbesInv ==
  /\ TypeOK /\ committed \in {NoCursor} \cup 1..(Top + 1)
  /\ pc # "probe" => WasProbed
  /\ pc = "probe" => Untouched
  /\ pc \in {"judge", "read", "finish"} =>
       cursor = committed /\ "watermark_not_advanced" \notin raised
  /\ pc = "probe" => cursor = committed
  /\ pc = "judge" => "watermark_ahead_of_source" \notin raised
  /\ pc \in {"read", "finish", "ok"} => WasJudged
  /\ pc \in {"finish", "ok"} =>
       read = {source[i].mark : i \in {j \in Within : InFilter(source[j].mark)}}
  /\ pc = "ok" =>
       /\ Unwatermarked \subseteq raised /\ NotAdvanced \subseteq raised
       /\ "watermark_not_advanced" \in raised => NotAdvanced # {}
       /\ cursor = IF NewWatermark = NoCursor THEN committed ELSE NewWatermark
=============================================================================
