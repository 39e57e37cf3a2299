-------------------------- MODULE MCDisagreements --------------------------
(***************************************************************************)
(* IncrementalSync where Sound does not hold: one configuration of a sync  *)
(* for each run that shows the code and its documentation disagreeing.     *)
(***************************************************************************)
EXTENDS IncrementalSync

Sync(from, mode, advance) == [from |-> from, mode |-> mode, advance |-> advance]

ChunkedMax     == {Sync("max", "chunks", TRUE)}
WindowedStream == {Sync("stream", "windows", TRUE)}
BackfillChunks == {Sync("max", "chunks", FALSE)}
=============================================================================
