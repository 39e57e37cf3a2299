----------------------------- MODULE ArchiveInv -----------------------------
(***************************************************************************)
(* Why the archive holds what the destination counts as done: the          *)
(* inductive invariant Archive's theorems are proved from.                 *)
(***************************************************************************)
EXTENDS Archive

ArchiveTyped ==
  /\ TypeOK
  /\ uploads \in Seq([file : Pieces, state : {"buffered", "parts", "object", "gone", "stuck"}])
  /\ pc \in {"read", "save", "abort", "retry", "ok", "failed", "dead"}
  /\ at \in [Streams -> Nat \ {0}]
  /\ step \in [Streams -> {"open", "write", "close", "mark"}]
  /\ writer \in [Streams -> Nat]
  /\ marker \in Nat /\ synced \in BOOLEAN /\ faults \in Nat /\ run \in Nat /\ attempt \in Nat

\* Stream s has a file open.
Writing(s) == ~Done(s) /\ step[s] \in {"write", "close"}

\* A stream that reads has one file open, of the piece it is at; and what is
\* unfinished is a file some stream has open.
WritersKnown ==
  pc = "read" =>
    /\ \A s \in Streams : Writing(s) =>
         /\ writer[s] \in DOMAIN uploads
         /\ Unfinished(writer[s]) /\ uploads[writer[s]].file = <<s, at[s]>>
    /\ \A u \in DOMAIN uploads : Unfinished(u) => \E s \in Streams : Writing(s) /\ writer[s] = u

\* The pieces a stream has left behind are archived, and a chunk's before the
\* marker passes it.
PiecesKept ==
  /\ pc \in {"read", "save"} =>
       \A s \in Streams : at[s] <= read.pieces[s] + 1 /\ {s} \X (1..(at[s] - 1)) \subseteq Archived
  /\ pc = "read" =>
       \A s \in Streams : ~Done(s) /\ step[s] = "mark" =>
         read.kind = "chunks" /\ <<s, at[s]>> \in Archived
  /\ pc = "save" => \A s \in Streams : Done(s)

\* The marker is behind the chunks that are archived, and of such a read only.
MarkerBehind ==
  /\ read.kind # "chunks" => marker = 0
  /\ \A s \in Streams : marker <= read.pieces[s] /\ {s} \X (1..marker) \subseteq Archived

\* Nothing is open outside an attempt.
NothingOpen ==
  pc \notin {"read", "abort"} => \A u \in DOMAIN uploads : ~Unfinished(u)

\* A run that saved its cursor is the last, and its whole read is archived.
SyncedLast == synced => pc = "ok" /\ Pieces = Archived

\* The inductive invariant.
IInv ==
  ArchiveTyped /\ WritersKnown /\ PiecesKept /\ MarkerBehind /\ NothingOpen /\ SyncedLast
=============================================================================
