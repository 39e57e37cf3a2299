--------------------------- MODULE ChunkedReadInv ---------------------------
(***************************************************************************)
(* Why a chunked read passes over nothing: the inductive invariant that    *)
(* ChunkedRead's theorems are proved from.                                 *)
(***************************************************************************)
EXTENDS ChunkedRead

ChunkTyped ==
  /\ TypeOK
  /\ dest \subseteq Source /\ leftOut \subseteq Source /\ buffer \subseteq Source
  /\ flying \subseteq SUBSET Source
  /\ starts \in Nat

\* A chunk is being read, or was and has no marker yet.
InChunk == pc \in {"read", "flush", "mark"}

Decoded == {rows[i] : i \in 1..at}

\* The rows are the first ones past the cursor, and each one that was decoded
\* was inserted, is on its way or was left out, which one with a key never is.
RowsHandled ==
  /\ \A row \in leftOut : ~HasKey(row)
  /\ InChunk =>
       /\ rows \in FirstRows(cursor)
       /\ Decoded \subseteq dest \cup leftOut \cup buffer \cup UNION flying
  /\ pc \in {"flush", "mark"} => Whole /\ buffer = {}

\* The candidate is a key that was decoded; without one the last row has none.
CandidateDecoded ==
  /\ InChunk =>
       /\ candidate # NoCursor => candidate \in Decoded
       /\ candidate = NoCursor /\ at > 0 => ~HasKey(rows[at])
  /\ pc = "mark" => candidate # NoCursor

\* Nothing is behind a cursor that is not in the destination.
Behind(c) ==
  c # NoCursor => 1..c \subseteq dest /\ (read.nulls_first => Nulls \subseteq dest \cup leftOut)

\* The inductive invariant.
IInv ==
  ChunkTyped /\ RowsHandled /\ CandidateDecoded /\ Behind(cursor) /\ Behind(marker) /\ ChunksWhole
=============================================================================
