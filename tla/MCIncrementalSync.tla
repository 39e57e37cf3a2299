------------------------- MODULE MCIncrementalSync -------------------------
(***************************************************************************)
(* IncrementalSync on a table of a few rows.  A configuration of TLC picks *)
(* one of the sets of sync configurations below for Configs.               *)
(***************************************************************************)
EXTENDS IncrementalSyncInv

\* Every way the code takes a cursor with every way it reads.
EverySync == {c \in Config : c.advance}

\* Those a NULL watermark in the first chunk leaves a bound for.
NullSafeSync == {c \in Config : c.mode = "chunks" => c.from # "stream"}

\* Rows may be stamped a tick before they commit.
LateSync == {c \in Config : c.from = "max" \/ c.mode = "single"}

\* The hypothesis of the theorems holds of each of these models.
ASSUME SoundModel == Sound

\* And that of CursorsDoNotFall, of those whose rows are not deleted.
ASSUME CursorsModel == CanDelete \/ SourceNeverEmpty
=============================================================================
