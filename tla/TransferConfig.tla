--------------------------- MODULE TransferConfig ---------------------------
(***************************************************************************)
(* What may be asked of a transfer.  A combination of options is refused   *)
(* before anything is connected to, by the flow of the source, or once the *)
(* source's columns are known; what is left becomes a run of RunTransfer.  *)
(*                                                                         *)
(* A transfer asked for is [source, dest, mode, set], where set holds the  *)
(* options that are not at their defaults and what is found out later of   *)
(* the source and the destination.                                         *)
(***************************************************************************)
EXTENDS Naturals

CONSTANT Transfers  \* the transfers a behaviour may be asked for

VARIABLES
  asked,  \* cfg
  pc,     \* "asked", "accepted", "planned", "runs" or "refused"
  plan    \* what the run will do

vars == <<asked, pc, plan>>

-----------------------------------------------------------------------------
(* The options, by what they are about.                                    *)

Sources == {"postgres", "clickhouse", "bigquery", "api", "frame"}
Dests   == {"clickhouse", "bigquery", "csv"}
Modes   == {"full", "incremental", "append"}

WhatIsRead   == {"source_table", "source_query"}
CursorKnobs  == {"watermark", "watermark_source_expr", "lookback", "seed", "no_advance"}

\* table_options: engine, partition_by, primary_key, not_null, type_overrides
\* or evolve_schema.
TableKnobs   == {"key", "order_by", "table_options"}

\* merge_prune_partition_by is the column the watermark lands as, or another.
MergeKnobs   == {"prune_watermark", "prune_other", "delete_stale"}

\* invalid_number: a limit that is zero or out of its range.
PaceKnobs    == {"parallel", "partition_column", "partition_source_expr", "rate", "idle",
                 "invalid_number"}
ChunkKnobs   == {"chunk_rows", "keyset_not_null", "retries"}

\* bounds_reversed is window_bounds with the lower end above the upper.
WindowKnobs  == {"windowed", "window_bounds", "bounds_reversed", "no_windows"}
ValueKnobs   == {"transforms", "transforms_key", "transforms_watermark"}
Knobs == WhatIsRead \cup CursorKnobs \cup TableKnobs \cup MergeKnobs \cup PaceKnobs
         \cup ChunkKnobs \cup WindowKnobs \cup ValueKnobs \cup {"validate"}

\* Of the source's keyset column and of its MAX probe; and of the table there
\* is: a MergeTree (not a Replicated one) that keeps duplicates.
Facts == {"key_not_int", "key_nullable", "probe_too_costly", "keeps_duplicates"}

Database(c)    == c.source \in {"postgres", "clickhouse", "bigquery"}
KeepsCursor(c) == c.mode # "full"
Windowed(c)    == c.set \cap {"windowed", "window_bounds"} # {}
Transformed(c) == c.set \cap ValueKnobs # {}

\* keyset_column: partition_column, else the first of key.
Keyset(c) == c.set \cap {"partition_column", "key"} # {}

-----------------------------------------------------------------------------
(* Refused whatever the source turns out to be.                            *)

\* refuse_unsupported_options of a CSV destination.
CsvRefuses(c) ==
  /\ c.dest = "csv"
  /\ \/ c.mode = "incremental"
     \/ c.set \cap ({"order_by", "table_options", "validate"} \cup MergeKnobs) # {}

\* What only a database source has.
ReadRefuses(c) ==
  \/ Database(c) /\ c.set \cap WhatIsRead = {}
  \/ ~Database(c) /\ (Transformed(c) \/ Windowed(c) \/ c.set \cap {"chunk_rows", "lookback"} # {})

CursorRefuses(c) ==
  \/ KeepsCursor(c) /\ "watermark" \notin c.set /\ c.source # "frame"
  \/ c.source = "frame" /\ c.mode = "incremental" /\ c.set \cap {"key", "watermark"} = {}
  \/ "lookback" \in c.set /\ (c.mode # "incremental" \/ c.set \cap {"key", "order_by"} = {})
  \/ c.set \cap {"seed", "no_advance"} # {} /\ ~KeepsCursor(c)

AppendRefuses(c) ==
  c.mode = "append" /\ ((Database(c) /\ c.dest # "csv") \/ "validate" \in c.set)

\* validate_frame_only.
FrameRefuses(c) ==
  /\ c.source = "frame"
  /\ c.set \cap {"source_table", "source_query", "partition_source_expr", "watermark_source_expr",
                 "partition_column", "rate", "idle", "seed", "no_advance", "retries"} # {}

NumberRefuses(c) == "invalid_number" \in c.set

ChunkRefuses(c) ==
  \/ "chunk_rows" \in c.set /\ (c.mode # "incremental" \/ ~Keyset(c))
  \/ "keyset_not_null" \in c.set /\ ~({"chunk_rows", "source_query"} \subseteq c.set)

\* A sweep is one stream over the windows of a key.
SweepRefuses(c) ==
  /\ Windowed(c)
  /\ \/ c.mode # "incremental" \/ ~Keyset(c)
     \/ c.set \cap {"chunk_rows", "parallel", "partition_source_expr", "no_windows"} # {}

BoundsRefuse(c) ==
  /\ "window_bounds" \in c.set
  /\ c.set \cap {"bounds_reversed", "delete_stale"} # {} \/ "no_advance" \notin c.set

\* A variant that lets a filter on any column go with the delete.
DeleteAnyWatermark(c) ==
  /\ "delete_stale" \in c.set
  /\ \/ c.mode # "incremental"
     \/ c.set \cap {"prune_watermark", "prune_other"} = {}
     \/ c.set \cap {"chunk_rows", "watermark_source_expr"} # {}

\* delete_stale_in_window needs the batch to be all of the window.
DeleteRefuses(c) ==
  /\ "delete_stale" \in c.set
  /\ \/ c.mode # "incremental"
     \/ c.set \cap {"prune_watermark", "prune_other"} = {}
     \/ c.source # "frame" /\ "prune_watermark" \notin c.set
     \/ c.set \cap {"chunk_rows", "watermark_source_expr"} # {}

\* normalize: a full refresh forgets what it does not use.
Normalized(c) ==
  IF c.mode = "full"
  THEN [c EXCEPT !.set = @ \ {"watermark", "watermark_source_expr", "seed", "chunk_rows",
                              "keyset_not_null"}]
  ELSE c

Refuse == pc' = "refused" /\ UNCHANGED <<asked, plan>>

\* run_transfer_impl, before it connects to anything.
Validate ==
  /\ pc = "asked"
  /\ IF \/ CsvRefuses(asked) \/ ReadRefuses(asked) \/ CursorRefuses(asked)
        \/ AppendRefuses(asked) \/ FrameRefuses(asked) \/ NumberRefuses(asked)
        \/ ChunkRefuses(asked) \/ SweepRefuses(asked) \/ BoundsRefuse(asked)
        \/ DeleteRefuses(asked)
     THEN Refuse
     ELSE pc' = "accepted" /\ asked' = Normalized(asked) /\ UNCHANGED plan

-----------------------------------------------------------------------------
(* The flow of the source.                                                 *)

Attempts(c)  == IF "retries" \in c.set THEN 2 ELSE 1

\* run_transfer_bigquery, whose one read session bounds nothing.
SessionRefuses(c) ==
  /\ c.source = "bigquery"
  /\ Transformed(c) \/ Windowed(c)
     \/ c.set \cap {"chunk_rows", "watermark_source_expr", "partition_source_expr"} # {}

\* run_transfer_impl of a database: a chunk lands before the next is read.
GateRefuses(c) == Database(c) /\ {"chunk_rows", "validate"} \subseteq c.set

\* setup_clickhouse.
SourceRefuses(c) == c.source = "clickhouse" /\ Windowed(c)

\* stage_for_retries: a table that keeps duplicates, where a retry can be.
StagesForRetries(c) ==
  Database(c) /\ c.dest = "clickhouse" /\ Attempts(c) > 1 /\ "keeps_duplicates" \in c.set

\* force_stage_incremental.
ForcesStaging(c) ==
  \/ c.mode # "full" /\ c.dest = "csv"
  \/ /\ c.mode = "incremental" /\ c.dest = "clickhouse"
     /\ c.set \cap {"validate", "delete_stale"} # {} \/ StagesForRetries(c)

\* prepare_target, and what promotes what it stages.
Promotion(c) ==
  CASE c.mode = "full"                                  -> "swap"
    [] c.mode = "incremental" /\ c.dest = "bigquery"    -> "merge"
    [] c.mode = "incremental" /\ ForcesStaging(c)       -> "insert"
    [] c.mode = "append" /\ ForcesStaging(c)            -> "append"
    [] OTHER                                            -> "direct"

\* The values the cursor is taken from: of the MAX probe, as the filter
\* evaluates them, or of the rows as they were read.
CursorValues(c) ==
  IF c.source = "postgres" /\ "probe_too_costly" \in c.set THEN "rows" ELSE "filter"

\* run_transfer_impl hands a BigQuery source, an API and a frame on.
FlowOf(c) ==
  CASE c.source = "bigquery"        -> "session"
    [] c.source \in {"api", "frame"} -> c.source
    [] OTHER                        -> "database"

\* Rows can go missing of a Storage Write stream, which a transfer into
\* BigQuery may ask for.
Plan(c) ==
  [flow         |-> FlowOf(c),
   promote      |-> Promotion(c),
   append       |-> c.mode = "append",
   counts       |-> c.dest = "bigquery",
   chunked      |-> "chunk_rows" \in c.set,
   swept        |-> Windowed(c),
   gate         |-> "validate" \in c.set,
   delete_stale |-> "delete_stale" \in c.set,
   attempts     |-> Attempts(c),
   saves        |-> KeepsCursor(c) /\ "no_advance" \notin c.set /\ c.source # "frame",
   cursor       |-> CursorValues(c)]

Dispatch ==
  /\ pc = "accepted"
  /\ IF SessionRefuses(asked) \/ GateRefuses(asked) \/ SourceRefuses(asked)
     THEN Refuse
     ELSE pc' = "planned" /\ plan' = Plan(asked) /\ UNCHANGED asked

-----------------------------------------------------------------------------
(* What the source's columns allow.                                        *)

\* build_chunk_plan: a chunk's cursor is compared with the raw key, and a NULL
\* key is past none.
ChunkKeyRefuses(c) ==
  /\ plan.chunked
  /\ \/ c.set \cap {"transforms_key", "key_not_int"} # {}
     \/ "key_nullable" \in c.set /\ "keyset_not_null" \notin c.set

\* forced_window_key.
WindowKeyRefuses(c) == plan.swept /\ c.set \cap {"transforms_key", "key_not_int"} # {}

\* A cursor taken from the rows is compared with the raw column later.
StreamRefuses(c) ==
  /\ plan.cursor = "rows" /\ KeepsCursor(c)
  /\ c.set \cap {"transforms_watermark", "watermark_source_expr"} # {}

\* prepare_target: a MERGE matches rows by key.
MergeRefuses(c) == plan.promote = "merge" /\ "key" \notin c.set

Resolve ==
  /\ pc = "planned"
  /\ IF \/ ChunkKeyRefuses(asked) \/ WindowKeyRefuses(asked)
        \/ StreamRefuses(asked) \/ MergeRefuses(asked)
     THEN Refuse
     ELSE pc' = "runs" /\ UNCHANGED <<asked, plan>>

NoPlan == [promote |-> "none"]

Init == asked \in Transfers /\ pc = "asked" /\ plan = NoPlan

Returned == pc \in {"runs", "refused"} /\ UNCHANGED vars

Next == Validate \/ Dispatch \/ Resolve \/ Returned

Spec == Init /\ [][Next]_vars

-----------------------------------------------------------------------------
\* Types, and that a run has a plan.
TypeOK ==
  /\ asked.source \in Sources /\ asked.dest \in Dests /\ asked.mode \in Modes
  /\ asked.set \subseteq Knobs \cup Facts
  /\ pc \in {"asked", "accepted", "planned", "runs", "refused"}
  /\ pc \in {"planned", "runs"} => plan = Plan(asked)

Staged == plan.promote # "direct"

\* RunTransfer's assumption about the transfers it is given
\* (RunTransfer!TransferConstants).
IsTransfer ==
  /\ plan.promote = "append" => plan.append
  /\ plan.append => plan.promote \in {"append", "direct"}
  /\ plan.chunked => plan.flow = "database" /\ plan.promote \in {"merge", "insert", "direct"}
                     /\ ~plan.append /\ ~plan.gate /\ ~plan.delete_stale
  /\ plan.gate => plan.promote \in {"swap", "merge", "insert"}
  /\ plan.delete_stale => plan.promote \in {"merge", "insert"}
  /\ plan.append /\ plan.promote = "direct" => plan.flow \in {"api", "frame"}
  /\ plan.counts => plan.promote \in {"swap", "merge"} \/ (plan.append /\ plan.promote = "direct")

\* The rows of the window a batch does not hold: a chunk has not read the
\* later ones, bounds cut off the others, and a filter on another column or on
\* an expression leaves out the unchanged ones.  A frame is what it is.
LeftOut ==
  (IF plan.chunked THEN {"later"} ELSE {})
  \cup (IF "window_bounds" \in asked.set THEN {"outside"} ELSE {})
  \cup (IF asked.source # "frame"
           /\ ("prune_watermark" \notin asked.set \/ "watermark_source_expr" \in asked.set)
        THEN {"unchanged"} ELSE {})

\* A run that starts is one RunTransfer models, whatever combination was asked
\* for (validate_with, validate_frame_only, the flows' own refusals): a gate
\* sees all of what is promoted, stale rows are deleted only against a batch
\* that is the whole of its window, a cursor is saved only for a read that
\* reached it and in the values the next filter compares, rows read again
\* replace what they were, and a retry into a table that keeps duplicates
\* stages or resumes.
AcceptedIsSound ==
  pc = "runs" =>
    /\ IsTransfer
    /\ plan.delete_stale => LeftOut = {}
    /\ plan.saves => "window_bounds" \notin asked.set /\ "watermark" \in asked.set
    /\ plan.saves /\ plan.cursor = "rows" =>
         asked.set \cap {"watermark_source_expr", "transforms_watermark"} = {}
    /\ "lookback" \in asked.set => asked.set \cap {"key", "order_by"} # {}
    /\ plan.promote = "merge" => "key" \in asked.set
    /\ plan.attempts > 1 /\ "keeps_duplicates" \in asked.set
         /\ asked.mode = "incremental" /\ asked.dest = "clickhouse" /\ Database(asked) => Staged
    /\ plan.chunked \/ plan.swept => asked.mode = "incremental"

-----------------------------------------------------------------------------
(* Why what is accepted is sound: each refusal was asked about on the way. *)

AskedTransfers ==
  [source : Sources, dest : Dests, mode : Modes, set : SUBSET (Knobs \cup Facts)]

ConfigConstants == Transfers \subseteq AskedTransfers

\* What Validate refuses, Dispatch, and Resolve.
OptionsRefuse(c) ==
  \/ CsvRefuses(c) \/ ReadRefuses(c) \/ CursorRefuses(c) \/ AppendRefuses(c) \/ FrameRefuses(c)
  \/ NumberRefuses(c) \/ ChunkRefuses(c) \/ SweepRefuses(c) \/ BoundsRefuse(c) \/ DeleteRefuses(c)
FlowRefuses(c)    == SessionRefuses(c) \/ GateRefuses(c) \/ SourceRefuses(c)
ColumnsRefuse(c)  ==
  ChunkKeyRefuses(c) \/ WindowKeyRefuses(c) \/ StreamRefuses(c) \/ MergeRefuses(c)

\* What was asked for is gone once it is normalized, so there is one.
Validated  == \E c \in Transfers : ~OptionsRefuse(c) /\ asked = Normalized(c)

ConfigInv ==
  /\ TypeOK /\ asked \in AskedTransfers
  /\ pc = "asked" => asked \in Transfers
  /\ pc \in {"accepted", "planned", "runs"} => Validated
  /\ pc \in {"planned", "runs"} => ~FlowRefuses(asked)
  /\ pc = "runs" => ~ColumnsRefuse(asked)
=============================================================================
