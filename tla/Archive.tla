------------------------------- MODULE Archive -------------------------------
(***************************************************************************)
(* The Parquet archive of what a transfer writes.  Each stream of a read   *)
(* archives one file for each of its pieces: a partition, a window of a    *)
(* sweep, or a chunk of a resumable read.  A file becomes an object when   *)
(* its upload completes; one that sent parts and does not keeps them in    *)
(* the store until it is aborted.                                          *)
(***************************************************************************)
EXTENDS Integers, Sequences, FiniteSets

CONSTANTS
  LastRun,     \* bound: runs
  MaxAttempts, \* attempts at a run: retries + 1
  Reads,       \* the reads a behaviour may be of, each
               \*   [kind: "plain", "windows" or "chunks",
               \*    pieces: how many each stream has]
  MaxFaults    \* bound: failures and crashes

\* What the constants are.  A read in chunks is of one stream.
ArchiveConstants ==
  /\ LastRun \in Nat /\ MaxAttempts \in Nat \ {0} /\ MaxFaults \in Nat
  /\ \A r \in Reads :
       /\ r.kind \in {"plain", "windows", "chunks"} /\ r.pieces \in Seq(Nat)
       /\ r.kind = "chunks" => Len(r.pieces) = 1

VARIABLES
  read,     \* a member of Reads
  run,      \* the run
  attempt,  \* its attempt
  pc,       \* where it is
  at,       \* the piece each stream is at
  step,     \* what it does next there
  uploads,  \* ArchiveUploads.started, of all runs: each [file: a piece,
            \*   state: "buffered", "parts", "object", "gone" or "stuck"]
  writer,   \* each stream's archive writer: an index into uploads, or 0
  marker,   \* the resume marker: the last chunk that counts as done
  synced,   \* a run saved its cursor
  faults    \* within MaxFaults

streams == <<at, step, writer>>
saved   == <<marker, synced>>
vars    == <<read, run, attempt, pc, streams, uploads, saved, faults>>

-----------------------------------------------------------------------------
Streams == DOMAIN read.pieces
Pieces  == UNION {{s} \X (1..read.pieces[s]) : s \in Streams}
Done(s) == at[s] > read.pieces[s]
Over    == pc \in {"ok", "failed", "dead"}
Fault   == faults < MaxFaults /\ faults' = faults + 1
Goto(s) == pc' = s

Archived  == {uploads[u].file : u \in {w \in DOMAIN uploads : uploads[w].state = "object"}}
Unfinished(u) == u \in DOMAIN uploads /\ uploads[u].state \in {"buffered", "parts"}

\* An upload becomes `state`; where only the buffer has it, nothing stays.
Ending(u, state) ==
  [uploads EXCEPT ![u].state = IF @ = "buffered" /\ state = "stuck" THEN "gone" ELSE state]

Begin ==
  /\ at' = [s \in Streams |-> IF read.kind = "chunks" THEN marker + 1 ELSE 1]
  /\ step' = [s \in Streams |-> "open"]
  /\ writer' = [s \in Streams |-> 0]
  /\ Goto("read")

StartRun ==
  /\ Over /\ run < LastRun /\ ~synced
  /\ run' = run + 1 /\ attempt' = 1
  /\ Begin
  /\ UNCHANGED <<read, uploads, saved, faults>>

-----------------------------------------------------------------------------
(* One file.                                                               *)

At(s, state) == pc = "read" /\ ~Done(s) /\ step[s] = state
Then(s, state) == step' = [step EXCEPT ![s] = state]

\* writer_for, or a chunk's first row.
Open(s) ==
  /\ At(s, "open")
  /\ uploads' = Append(uploads, [file |-> <<s, at[s]>>, state |-> "buffered"])
  /\ writer' = [writer EXCEPT ![s] = Len(uploads) + 1]
  /\ Then(s, "write")
  /\ UNCHANGED <<read, run, attempt, pc, at, saved, faults>>

\* A file that outgrows the buffer is sent in parts.
SendParts(s) ==
  /\ At(s, "write") /\ uploads[writer[s]].state = "buffered"
  /\ uploads' = [uploads EXCEPT ![writer[s]].state = "parts"]
  /\ UNCHANGED <<read, run, attempt, pc, streams, saved, faults>>

\* The piece is read to its end.  A chunk's rows are in the destination
\* before its file is closed.
EndPiece(s) ==
  /\ At(s, "write")
  /\ Then(s, "close")
  /\ UNCHANGED <<read, run, attempt, pc, at, writer, uploads, saved, faults>>

\* A variant that records a chunk whose file is still open.
MarkFirst(s) == At(s, "close")

\* finish_chunk closed the chunk's file: only then the marker passes it.
MayMark(s) == At(s, "mark")

Advance(s) == at' = [at EXCEPT ![s] = @ + 1] /\ Then(s, "open")

\* close: the upload leaves the shared slot and completes.
Close(s) ==
  /\ At(s, "close")
  /\ uploads' = Ending(writer[s], "object")
  /\ writer' = [writer EXCEPT ![s] = 0]
  /\ IF read.kind = "chunks" THEN Then(s, "mark") /\ UNCHANGED at ELSE Advance(s)
  /\ UNCHANGED <<read, run, attempt, pc, saved, faults>>

\* Past the point where it can be aborted: it may have completed.
CloseFails(s) ==
  /\ At(s, "close") /\ Fault
  /\ uploads' \in {Ending(writer[s], "object"), Ending(writer[s], "stuck")}
  /\ writer' = [writer EXCEPT ![s] = 0]
  /\ Goto("abort")
  /\ UNCHANGED <<read, run, attempt, at, step, saved>>

\* persist_chunk_cursor.
Mark(s) ==
  /\ read.kind = "chunks" /\ MayMark(s)
  /\ marker' = at[s]
  /\ Advance(s)
  /\ UNCHANGED <<read, run, attempt, pc, writer, uploads, synced, faults>>

\* ArchiveFile::abort.
AbortOne(u) == Ending(u, "gone")

\* A window that was cancelled is read again, narrower, into a file of its
\* own; the one it had is aborted now, as best one can.
WindowCancelled(s) ==
  /\ read.kind = "windows" /\ At(s, "write") /\ Fault
  /\ uploads' \in {AbortOne(writer[s]), Ending(writer[s], "stuck")}
  /\ writer' = [writer EXCEPT ![s] = 0]
  /\ Then(s, "open")
  /\ UNCHANGED <<read, run, attempt, pc, at, saved>>

-----------------------------------------------------------------------------
(* The attempt, and the run.                                               *)

\* The read, a write, the promotion or the save fails: all streams stop.
Fails ==
  /\ pc \in {"read", "save"} /\ Fault
  /\ Goto("abort")
  /\ UNCHANGED <<read, run, attempt, streams, uploads, saved>>

\* abort_unfinished: every upload the attempt started, whichever fail.
AbortUnfinished ==
  /\ pc = "abort"
  /\ \/ uploads' = [u \in DOMAIN uploads |-> IF Unfinished(u) THEN AbortOne(u)[u] ELSE uploads[u]]
        /\ UNCHANGED faults
     \/ \E stuck \in DOMAIN uploads :
          /\ uploads[stuck].state = "parts" /\ Fault
          /\ uploads' = [u \in DOMAIN uploads |->
               IF u = stuck THEN Ending(u, "stuck")[u]
               ELSE IF Unfinished(u) THEN AbortOne(u)[u] ELSE uploads[u]]
  /\ Goto("retry")
  /\ UNCHANGED <<read, run, attempt, streams, saved>>

Retry ==
  /\ pc = "retry" /\ attempt < MaxAttempts
  /\ attempt' = attempt + 1
  /\ Begin
  /\ UNCHANGED <<read, run, uploads, saved, faults>>

GiveUp ==
  /\ pc = "retry"
  /\ Goto("failed")
  /\ UNCHANGED <<read, run, attempt, streams, uploads, saved, faults>>

EndRead ==
  /\ pc = "read" /\ \A s \in Streams : Done(s)
  /\ Goto("save")
  /\ UNCHANGED <<read, run, attempt, streams, uploads, saved, faults>>

\* The promotion, and the cursor.
SaveCursor ==
  /\ pc = "save"
  /\ synced' = TRUE
  /\ Goto("ok")
  /\ UNCHANGED <<read, run, attempt, streams, uploads, marker, faults>>

Crash ==
  /\ ~Over /\ Fault
  /\ uploads' = [u \in DOMAIN uploads |->
                   IF Unfinished(u) THEN Ending(u, "stuck")[u] ELSE uploads[u]]
  /\ Goto("dead")
  /\ UNCHANGED <<read, run, attempt, streams, saved>>

-----------------------------------------------------------------------------
Init ==
  /\ read \in Reads
  /\ run = 0 /\ attempt = 1 /\ pc = "failed"
  /\ at = [s \in Streams |-> 1]
  /\ step = [s \in Streams |-> "open"]
  /\ writer = [s \in Streams |-> 0]
  /\ uploads = <<>>
  /\ marker = 0 /\ synced = FALSE
  /\ faults = 0

Ended == Over /\ (run = LastRun \/ synced)

Next ==
  \/ StartRun \/ Fails \/ AbortUnfinished \/ Retry \/ GiveUp \/ EndRead \/ SaveCursor \/ Crash
  \/ \E s \in Streams :
       Open(s) \/ SendParts(s) \/ EndPiece(s) \/ Close(s) \/ CloseFails(s) \/ Mark(s)
       \/ WindowCancelled(s)
  \/ Ended /\ UNCHANGED vars

Spec == Init /\ [][Next]_vars

-----------------------------------------------------------------------------
TypeOK ==
  /\ read \in Reads /\ run \in 0..LastRun /\ attempt \in 1..MaxAttempts
  /\ \A u \in DOMAIN uploads :
       uploads[u].file \in Pieces
       /\ uploads[u].state \in {"buffered", "parts", "object", "gone", "stuck"}
  /\ \A s \in Streams : writer[s] \in 0..Len(uploads)
  /\ faults \in 0..MaxFaults

\* What the destination counts as done is in the archive: each chunk the
\* marker is past, across resumed runs, and the whole read of a run that saved
\* its cursor.  A run that is over leaves no upload open, of a piece it gave up
\* or read again either, but one whose completion or abort failed.
ArchiveWhole ==
  /\ read.kind = "chunks" => \A s \in Streams : {s} \X (1..marker) \subseteq Archived
  /\ synced => Pieces = Archived
  /\ Over => \A u \in DOMAIN uploads : ~Unfinished(u)
=============================================================================
