----------------------------- MODULE Reads_proofs -----------------------------
(***************************************************************************)
(* The theorems about what surrounds a read, whichever part it is that     *)
(* runs: each part's invariant, from its own inductive invariant, and what *)
(* the runs check of the whole.                                            *)
(***************************************************************************)
EXTENDS Reads, SequenceTheorems, SumTheorems

-----------------------------------------------------------------------------
(* One part runs in each behaviour.                                        *)

\* The part that runs starts as its own module says.
LEMMA Begins ==
  ASSUME Init
  PROVE  /\ which = "archive" => Arch!Init
         /\ which = "chunks" => Chunks!Init
         /\ which = "reconcile" => Rec!Init
         /\ which = "keys" => Ranges!Init
         /\ which = "config" => Config!Init
         /\ which = "api" => Api!Init
         /\ which = "cursor" => Probes!Init
         /\ which = "columns" => Columns!Init
  BY DEF Init

\* It stays the one, and its steps are its own module's.
LEMMA Goes ==
  ASSUME [Next]_readsVars
  PROVE  /\ which' = which
         /\ which = "archive" => [Arch!Next]_Arch!vars
         /\ which = "chunks" => [Chunks!Next]_Chunks!vars
         /\ which = "reconcile" => [Rec!Next]_Rec!vars
         /\ which = "keys" => [Ranges!Next]_Ranges!vars
         /\ which = "config" => [Config!Next]_Config!vars
         /\ which = "api" => [Api!Next]_Api!vars
         /\ which = "cursor" => [Probes!Next]_Probes!vars
         /\ which = "columns" => [Columns!Next]_Columns!vars
<1>1. CASE UNCHANGED readsVars
  <2>1. /\ which' = which
        /\ UNCHANGED <<apiOnly, archiveOnly, keysOnly, reconcileOnly, configOnly, shared, pc>>
    BY <1>1 DEF readsVars
  <2>2. UNCHANGED Arch!vars
    BY <2>1 DEF archiveOnly, shared, Arch!vars, Arch!streams, Arch!saved
  <2>3. UNCHANGED Chunks!vars
    BY <2>1 DEF keysOnly, shared, Chunks!vars, Chunks!chunk, Chunks!sends
  <2>4. UNCHANGED Rec!vars
    BY <2>1 DEF reconcileOnly, shared, Rec!vars, Rec!sides, Rec!syncs, Rec!found
  <2>5. UNCHANGED Ranges!vars
    BY <2>1 DEF keysOnly, shared, Ranges!vars, Ranges!planned, Ranges!sweeping
  <2>6. UNCHANGED Config!vars
    BY <2>1 DEF configOnly, Config!vars
  <2>7. UNCHANGED Probes!vars
    BY <2>1 DEF shared, Probes!vars
  <2>8. UNCHANGED Columns!vars
    BY <2>1 DEF shared, Columns!vars
  <2>9. UNCHANGED Api!vars
    BY <2>1 DEF apiOnly, shared, Api!vars, Api!reading, Api!request, Api!tables, Api!saved
  <2> QED BY <2>1, <2>2, <2>3, <2>4, <2>5, <2>6, <2>7, <2>8, <2>9
<1>2. CASE Next
  BY <1>2
  DEF Next, ApiStep, ArchiveStep, KeysStep, ReconcileStep, RowsStep, ValuesStep, ConfigStep,
      ColumnsStep, CursorStep, ChunksStep
<1> QED BY <1>1, <1>2

-----------------------------------------------------------------------------
(* The Parquet archive.                                                    *)

UploadStates == {"buffered", "parts", "object", "gone", "stuck"}
Upload == [file : Arch!Pieces, state : UploadStates]

\* The streams of a read, and the uploads there are.
LEMMA ArchReading ==
  ASSUME Arch!ArchiveConstants, Arch!ArchiveTyped
  PROVE  /\ Arch!Streams = 1..Len(read.pieces) /\ Len(read.pieces) \in Nat
         /\ \A s \in Arch!Streams : read.pieces[s] \in Nat
         /\ read.kind = "chunks" => Arch!Streams = {1}
         /\ uploads \in Seq(Upload)
         /\ Len(uploads) \in Nat /\ DOMAIN uploads = 1..Len(uploads)
         /\ \A u \in DOMAIN uploads : uploads[u] \in Upload
         /\ ArchiveRuns \in Nat /\ ArchiveAttempts \in Nat /\ ArchiveAttempts >= 1
              /\ ArchiveFaults \in Nat
<1>1. /\ read \in ArchivedReads /\ read.pieces \in Seq(Nat)
      /\ read.kind = "chunks" => Len(read.pieces) = 1
  BY DEF Arch!ArchiveConstants, Arch!ArchiveTyped, Arch!TypeOK
<1>2. /\ Arch!Streams = 1..Len(read.pieces) /\ Len(read.pieces) \in Nat
      /\ \A s \in Arch!Streams : read.pieces[s] \in Nat
  BY <1>1, LenProperties, ElementOfSeq DEF Arch!Streams
<1>3. uploads \in Seq(Upload)
  BY DEF Arch!ArchiveTyped, Upload, UploadStates
<1>4. /\ Len(uploads) \in Nat /\ DOMAIN uploads = 1..Len(uploads)
      /\ \A u \in DOMAIN uploads : uploads[u] \in Upload
  BY <1>3, LenProperties, ElementOfSeq
<1>5. ArchiveRuns \in Nat /\ ArchiveAttempts \in Nat /\ ArchiveAttempts >= 1 /\ ArchiveFaults \in Nat
  BY DEF Arch!ArchiveConstants
<1>6. 1..1 = {1}
  OBVIOUS
<1>7. read.kind = "chunks" => Arch!Streams = {1}
  BY <1>1, <1>2, <1>6
<1> QED BY <1>2, <1>3, <1>4, <1>5, <1>7

\* What is archived, element by element, before and after a step.
LEMMA ArchInArchive ==
  /\ \A f : f \in Arch!Archived <=>
       \E u \in DOMAIN uploads : uploads[u].state = "object" /\ uploads[u].file = f
  /\ \A f : f \in Arch!Archived' <=>
       \E u \in DOMAIN uploads' : uploads'[u].state = "object" /\ uploads'[u].file = f
<1>1. \A f : f \in Arch!Archived <=>
        \E u \in DOMAIN uploads : uploads[u].state = "object" /\ uploads[u].file = f
  BY DEF Arch!Archived
<1>2. \A f : f \in Arch!Archived' <=>
        \E u \in DOMAIN uploads' : uploads'[u].state = "object" /\ uploads'[u].file = f
  BY DEF Arch!Archived
<1> QED BY <1>1, <1>2

\* What a step may do to the uploads there are: end those that are unfinished.
UploadsSettle ==
  /\ uploads' \in Seq(Upload)
  /\ \A u \in DOMAIN uploads : u \in DOMAIN uploads' /\ uploads'[u].file = uploads[u].file
  /\ \A u \in DOMAIN uploads : ~Arch!Unfinished(u) => uploads'[u] = uploads[u]

\* An object stays one.
LEMMA ArchObjectsStay ==
  ASSUME UploadsSettle, read' = read
  PROVE  Arch!Archived \subseteq Arch!Archived' /\ Arch!Pieces' = Arch!Pieces
           /\ Arch!Streams' = Arch!Streams
<1>1. Arch!Archived \subseteq Arch!Archived'
  BY ArchInArchive DEF UploadsSettle, Arch!Unfinished
<1> QED BY <1>1 DEF Arch!Pieces, Arch!Streams

\* One unfinished upload ends, or sends parts; the others are as they were.
LEMMA ArchOneSettles ==
  ASSUME Arch!ArchiveConstants, Arch!ArchiveTyped, NEW u \in DOMAIN uploads, Arch!Unfinished(u),
         NEW state \in UploadStates, uploads' = [uploads EXCEPT ![u].state = state]
  PROVE  /\ UploadsSettle /\ DOMAIN uploads' = DOMAIN uploads /\ uploads'[u].state = state
         /\ \A v \in DOMAIN uploads : v # u => uploads'[v] = uploads[v]
<1>1. /\ uploads \in Seq(Upload) /\ u \in 1..Len(uploads) /\ DOMAIN uploads = 1..Len(uploads)
      /\ uploads[u] \in Upload
  BY ArchReading
<1> DEFINE e == [uploads[u] EXCEPT !.state = state]
<1>2. e \in Upload /\ e.file = uploads[u].file /\ e.state = state
  BY <1>1 DEF Upload
<1>3. uploads' = [uploads EXCEPT ![u] = e]
  OBVIOUS
<1> HIDE DEF e
<1>4. /\ uploads' \in Seq(Upload) /\ Len(uploads') = Len(uploads)
      /\ \A v \in 1..Len(uploads) : uploads'[v] = IF v = u THEN e ELSE uploads[v]
  BY <1>1, <1>2, <1>3, ExceptSeq
<1>5. DOMAIN uploads' = DOMAIN uploads
  BY <1>1, <1>3
<1> QED BY <1>1, <1>2, <1>4, <1>5 DEF UploadsSettle

\* Ending makes an unfinished upload an object, or has it go, or leaves parts.
LEMMA ArchEndingIs ==
  ASSUME Arch!ArchiveConstants, Arch!ArchiveTyped, NEW u \in DOMAIN uploads, Arch!Unfinished(u),
         NEW to \in {"object", "gone", "stuck"}
  PROVE  \E state \in {to, "gone"} :
           /\ Arch!Ending(u, to) = [uploads EXCEPT ![u].state = state]
           /\ to = "object" => state = "object"
           /\ Arch!Ending(u, to)[u] = [uploads[u] EXCEPT !.state = state]
<1>1. uploads[u] \in Upload
  BY ArchReading
<1>2. CASE uploads[u].state = "buffered" /\ to = "stuck"
  BY <1>1, <1>2 DEF Arch!Ending, Upload
<1>3. CASE ~(uploads[u].state = "buffered" /\ to = "stuck")
  BY <1>1, <1>3 DEF Arch!Ending, Upload
<1> QED BY <1>2, <1>3

\* Nothing happens to the uploads.
LEMMA ArchNoneSettles ==
  ASSUME Arch!ArchiveConstants, Arch!ArchiveTyped, uploads' = uploads
  PROVE  UploadsSettle
  BY ArchReading DEF UploadsSettle

\* The types, from those of what a step changes.
LEMMA ArchTypedStays ==
  ASSUME Arch!ArchiveConstants, Arch!ArchiveTyped, UploadsSettle, DOMAIN uploads' = DOMAIN uploads,
         read' = read,
         run' \in 0..ArchiveRuns, attempt' \in 1..ArchiveAttempts,
         pc' \in {"read", "save", "abort", "retry", "ok", "failed", "dead"},
         at' \in [Arch!Streams -> Nat \ {0}],
           step' \in [Arch!Streams -> {"open", "write", "close", "mark"}],
         writer' \in [Arch!Streams -> 0..Len(uploads)],
         marker' \in Nat, synced' \in BOOLEAN, faults' \in 0..ArchiveFaults
  PROVE  Arch!ArchiveTyped'
<1>1. Arch!Pieces' = Arch!Pieces /\ Arch!Streams' = Arch!Streams
  BY ArchObjectsStay
<1>2. uploads' \in Seq(Upload) /\ Len(uploads') \in Nat /\ DOMAIN uploads' = 1..Len(uploads')
  BY LenProperties DEF UploadsSettle
<1>3. \A u \in DOMAIN uploads' : uploads'[u] \in Upload
  BY <1>2, ElementOfSeq
<1>4. Len(uploads') = Len(uploads)
  BY <1>2, ArchReading
<1>5. uploads' \in Seq([file : Arch!Pieces,
        state : {"buffered", "parts", "object", "gone", "stuck"}])'
  BY <1>1, <1>2 DEF Upload, UploadStates
<1>6. \A u \in DOMAIN uploads' :
        uploads'[u].file \in Arch!Pieces
        /\ uploads'[u].state \in {"buffered", "parts", "object", "gone", "stuck"}
  BY <1>3 DEF Upload, UploadStates
<1>7. \A s \in Arch!Streams : writer'[s] \in 0..Len(uploads')
  BY <1>4
<1>8. Arch!TypeOK'
  BY <1>1, <1>6, <1>7 DEF Arch!TypeOK, Arch!ArchiveTyped
<1>9. writer' \in [Arch!Streams -> Nat] /\ run' \in Nat /\ attempt' \in Nat /\ faults' \in Nat
  BY ArchReading
<1> QED BY <1>1, <1>5, <1>8, <1>9 DEF Arch!ArchiveTyped

\* The open file of a stream is its own.
LEMMA ArchWriterOf ==
  ASSUME Arch!ArchiveConstants, Arch!IInv, pc = "read", NEW s \in Arch!Streams, Arch!Writing(s)
  PROVE  /\ writer[s] \in DOMAIN uploads /\ Arch!Unfinished(writer[s])
         /\ uploads[writer[s]].file = <<s, at[s]>>
         /\ \A q \in Arch!Streams : Arch!Writing(q) /\ q # s => writer[q] # writer[s]
<1>1. /\ writer[s] \in DOMAIN uploads /\ Arch!Unfinished(writer[s])
      /\ uploads[writer[s]].file = <<s, at[s]>>
  BY DEF Arch!IInv, Arch!WritersKnown
<1>2. ASSUME NEW q \in Arch!Streams, Arch!Writing(q), q # s
      PROVE  writer[q] # writer[s]
  BY <1>1, <1>2 DEF Arch!IInv, Arch!WritersKnown
<1> QED BY <1>1, <1>2

-----------------------------------------------------------------------------
(* One file.                                                               *)

\* A stream opens a file of its own.
LEMMA ArchOpenKeeps ==
  ASSUME Arch!ArchiveConstants, Arch!IInv, NEW s \in Arch!Streams, Arch!Open(s)
  PROVE  Arch!IInv'
<1> USE DEF Arch!IInv
<1> DEFINE e == [file |-> <<s, at[s]>>, state |-> "buffered"]
<1>1. /\ pc = "read" /\ ~Arch!Done(s) /\ step[s] = "open" /\ uploads' = Append(uploads, e)
      /\ writer' = [writer EXCEPT ![s] = Len(uploads) + 1] /\ step' = [step EXCEPT ![s] = "write"]
      /\ read' = read /\ run' = run /\ attempt' = attempt /\ pc' = pc /\ at' = at
      /\ marker' = marker /\ synced' = synced /\ faults' = faults
  BY DEF Arch!Open, Arch!At, Arch!Then, Arch!saved
<1>2. e \in Upload /\ e.file = <<s, at[s]>> /\ e.state = "buffered"
  <2>1. at[s] \in 1..read.pieces[s]
    BY <1>1, ArchReading DEF Arch!ArchiveTyped, Arch!Done
  <2>2. <<s, at[s]>> \in Arch!Pieces
    BY <2>1 DEF Arch!Pieces
  <2> QED BY <2>2 DEF Upload, UploadStates
<1>3. uploads \in Seq(Upload) /\ Len(uploads) \in Nat /\ DOMAIN uploads = 1..Len(uploads)
  BY ArchReading
<1> HIDE DEF e
<1>4. /\ uploads' \in Seq(Upload) /\ Len(uploads') = Len(uploads) + 1
      /\ \A u \in 1..Len(uploads) : uploads'[u] = uploads[u]
      /\ uploads'[Len(uploads) + 1] = e
  BY <1>1, <1>2, <1>3, AppendProperties
<1>5. DOMAIN uploads' = 1..(Len(uploads) + 1)
  BY <1>4, LenProperties
<1>6. UploadsSettle
  BY <1>3, <1>4, <1>5 DEF UploadsSettle
<1>7. Arch!Archived \subseteq Arch!Archived' /\ Arch!Pieces' = Arch!Pieces
        /\ Arch!Streams' = Arch!Streams
  BY <1>6, <1>1, ArchObjectsStay
<1>8. Arch!Archived' \subseteq Arch!Archived
  BY <1>2, <1>3, <1>4, <1>5, ArchInArchive
<1>9. Arch!ArchiveTyped'
  <2>1. uploads' \in Seq([file : Arch!Pieces,
          state : {"buffered", "parts", "object", "gone", "stuck"}])'
    BY <1>4, <1>7 DEF Upload, UploadStates
  <2>2. \A u \in DOMAIN uploads' : uploads'[u] \in Upload
    BY <1>4, LenProperties, ElementOfSeq
  <2>3. \A q \in Arch!Streams : writer'[q] \in 0..Len(uploads')
    BY <1>1, <1>3, <1>4 DEF Arch!ArchiveTyped, Arch!TypeOK
  <2>4. Arch!TypeOK'
    BY <1>1, <1>7, <2>2, <2>3 DEF Arch!ArchiveTyped, Arch!TypeOK, Upload, UploadStates
  <2> QED BY <1>1, <1>3, <1>7, <2>1, <2>4 DEF Arch!ArchiveTyped
<1>10. Arch!WritersKnown'
  <2>1. \A u \in 1..Len(uploads) : Arch!Unfinished(u)' <=> Arch!Unfinished(u)
    BY <1>3, <1>4, <1>5 DEF Arch!Unfinished
  <2>2. PICK n : n = Len(uploads) + 1
    OBVIOUS
  <2>6. Arch!Unfinished(n)' /\ uploads'[n].file = <<s, at[s]>>
    BY <1>2, <1>3, <1>4, <1>5, <2>2 DEF Arch!Unfinished
  <2>3. /\ \A q \in Arch!Streams : q # s => (Arch!Writing(q)' <=> Arch!Writing(q))
             /\ writer'[q] = writer[q]
        /\ Arch!Writing(s)' /\ writer'[s] = n /\ ~Arch!Writing(s)
    BY <1>1, <2>2 DEF Arch!ArchiveTyped, Arch!Writing, Arch!Done
  <2>4. ASSUME NEW q \in Arch!Streams, Arch!Writing(q)'
        PROVE  /\ writer'[q] \in DOMAIN uploads'
               /\ Arch!Unfinished(writer[q])' /\ uploads'[writer'[q]].file = <<q, at[q]>>
    BY <1>1, <1>3, <1>4, <1>5, <2>1, <2>2, <2>3, <2>4, <2>6 DEF Arch!WritersKnown
  <2>5. ASSUME NEW u \in DOMAIN uploads', Arch!Unfinished(u)'
        PROVE  \E q \in Arch!Streams : Arch!Writing(q)' /\ writer'[q] = u
    BY <1>1, <1>3, <1>5, <2>1, <2>2, <2>3, <2>5 DEF Arch!WritersKnown
  <2> QED BY <1>1, <1>7, <2>4, <2>5 DEF Arch!WritersKnown
<1>11. Arch!PiecesKept' /\ Arch!MarkerBehind' /\ Arch!NothingOpen' /\ Arch!SyncedLast'
  BY <1>1, <1>7, <1>8
  DEF Arch!ArchiveTyped, Arch!PiecesKept, Arch!MarkerBehind, Arch!NothingOpen, Arch!SyncedLast,
      Arch!Done
<1> QED BY <1>9, <1>10, <1>11

\* The file of stream s, and nothing else, comes to an end.
UploadEnds(s) ==
  /\ uploads' = [uploads EXCEPT ![writer[s]].state = uploads'[writer[s]].state]
  /\ uploads'[writer[s]].state \in {"object", "gone", "stuck"}
  /\ writer' = [writer EXCEPT ![s] = 0]

\* The upload of a stream's open file ends: as an object, aborted, or left unfinished.
LEMMA ArchEndsIs ==
  ASSUME Arch!ArchiveConstants, Arch!IInv, pc = "read", NEW s \in Arch!Streams, Arch!Writing(s),
         NEW to \in {"object", "gone", "stuck"}, uploads' = Arch!Ending(writer[s], to),
         writer' = [writer EXCEPT ![s] = 0]
  PROVE  UploadEnds(s) /\ (to = "object" => uploads'[writer[s]].state = "object")
<1>1. writer[s] \in DOMAIN uploads /\ Arch!Unfinished(writer[s])
  BY ArchWriterOf
<1>2. PICK state \in {to, "gone"} :
        /\ uploads' = [uploads EXCEPT ![writer[s]].state = state]
        /\ to = "object" => state = "object"
  BY <1>1, ArchEndingIs DEF Arch!IInv
<1>3. uploads'[writer[s]].state = state
  <2> DEFINE u == writer[s]
  <2>1. uploads' = [uploads EXCEPT ![u].state = state] /\ Arch!ArchiveTyped
    BY <1>2 DEF Arch!IInv
  <2>2. u \in DOMAIN uploads /\ Arch!Unfinished(u) /\ state \in UploadStates
    BY <1>1 DEF UploadStates
  <2> HIDE DEF u
  <2>3. uploads'[u].state = state
    BY <2>1, <2>2, ArchOneSettles
  <2> QED BY <2>3 DEF u
<1> QED BY <1>2, <1>3 DEF UploadEnds

\* What is known of the uploads after it.
LEMMA ArchEndsSettles ==
  ASSUME Arch!ArchiveConstants, Arch!IInv, pc = "read", NEW s \in Arch!Streams, Arch!Writing(s),
         UploadEnds(s), read' = read
  PROVE  /\ UploadsSettle /\ DOMAIN uploads' = DOMAIN uploads
         /\ Arch!Archived \subseteq Arch!Archived' /\ Arch!Pieces' = Arch!Pieces
              /\ Arch!Streams' = Arch!Streams
         /\ writer' \in [Arch!Streams -> 0..Len(uploads)]
         /\ uploads'[writer[s]].state = "object" => <<s, at[s]>> \in Arch!Archived'
         /\ \A u \in DOMAIN uploads : Arch!Unfinished(u)' <=> u # writer[s] /\ Arch!Unfinished(u)
<1>1. writer[s] \in DOMAIN uploads /\ Arch!Unfinished(writer[s])
        /\ uploads[writer[s]].file = <<s, at[s]>>
  BY ArchWriterOf
<1>2. PICK u \in DOMAIN uploads : u = writer[s]
  BY <1>1
<1>3. PICK state \in UploadStates : state = uploads'[u].state /\ state \in {"object", "gone", "stuck"}
  BY <1>2 DEF UploadEnds, UploadStates
<1>4. /\ UploadsSettle /\ DOMAIN uploads' = DOMAIN uploads /\ uploads'[u].state = state
      /\ \A v \in DOMAIN uploads : v # u => uploads'[v] = uploads[v]
  BY <1>1, <1>2, <1>3, ArchOneSettles DEF UploadEnds, Arch!IInv
<1>5. Arch!Archived \subseteq Arch!Archived' /\ Arch!Pieces' = Arch!Pieces
        /\ Arch!Streams' = Arch!Streams
  BY <1>4, ArchObjectsStay
<1>6. writer' \in [Arch!Streams -> 0..Len(uploads)]
  BY ArchReading DEF UploadEnds, Arch!IInv, Arch!ArchiveTyped, Arch!TypeOK
<1>7. uploads'[u].state = "object" => <<s, at[s]>> \in Arch!Archived'
  BY <1>1, <1>2, <1>4, ArchInArchive DEF UploadsSettle
<1>8. ~Arch!Unfinished(u)'
  BY <1>3, <1>4 DEF Arch!Unfinished
<1>9. \A v \in DOMAIN uploads : v # u => (Arch!Unfinished(v)' <=> Arch!Unfinished(v))
  BY <1>4 DEF Arch!Unfinished
<1> QED BY <1>2, <1>4, <1>5, <1>6, <1>7, <1>8, <1>9

\* The other streams are as they were, and this one has no file open.
LEMMA ArchWritersStay ==
  ASSUME Arch!ArchiveConstants, Arch!IInv, pc = "read", pc' = "read", NEW s \in Arch!Streams,
         Arch!Writing(s), UploadEnds(s),
         read' = read, ~Arch!Writing(s)',
         \A q \in Arch!Streams : q # s => at'[q] = at[q] /\ step'[q] = step[q]
  PROVE  Arch!WritersKnown'
<1>1. /\ DOMAIN uploads' = DOMAIN uploads /\ Arch!Streams' = Arch!Streams
      /\ \A u \in DOMAIN uploads : uploads'[u].file = uploads[u].file
      /\ \A u \in DOMAIN uploads : Arch!Unfinished(u)' <=> u # writer[s] /\ Arch!Unfinished(u)
  BY ArchEndsSettles DEF UploadsSettle
<1>2. /\ \A q \in Arch!Streams : q # s => writer'[q] = writer[q]
           /\ (Arch!Writing(q)' <=> Arch!Writing(q))
      /\ \A q \in Arch!Streams : Arch!Writing(q) /\ q # s => writer[q] # writer[s]
  BY ArchWriterOf DEF UploadEnds, Arch!IInv, Arch!ArchiveTyped, Arch!Writing, Arch!Done
<1>3. ASSUME NEW q \in Arch!Streams, Arch!Writing(q)'
      PROVE  /\ writer'[q] \in DOMAIN uploads'
             /\ Arch!Unfinished(writer[q])' /\ uploads'[writer'[q]].file = <<q, at'[q]>>
  <2>1. q # s /\ Arch!Writing(q) /\ writer'[q] = writer[q] /\ at'[q] = at[q] /\ writer[q] # writer[s]
    BY <1>2, <1>3
  <2>2. writer[q] \in DOMAIN uploads /\ Arch!Unfinished(writer[q])
          /\ uploads[writer[q]].file = <<q, at[q]>>
    BY <2>1, ArchWriterOf
  <2>3. PICK u \in DOMAIN uploads : u = writer[q]
    BY <2>2
  <2>4. Arch!Unfinished(u)' /\ uploads'[u].file = <<q, at[q]>>
    BY <1>1, <2>1, <2>2, <2>3
  <2> QED BY <1>1, <2>1, <2>3, <2>4
<1>4. ASSUME NEW u \in DOMAIN uploads', Arch!Unfinished(u)'
      PROVE  \E q \in Arch!Streams : Arch!Writing(q)' /\ writer'[q] = u
  BY <1>1, <1>2, <1>4 DEF Arch!IInv, Arch!WritersKnown
<1> QED BY <1>1, <1>3, <1>4 DEF Arch!WritersKnown

\* A file is sent in parts.
LEMMA ArchSendPartsKeeps ==
  ASSUME Arch!ArchiveConstants, Arch!IInv, NEW s \in Arch!Streams, Arch!SendParts(s)
  PROVE  Arch!IInv'
<1>1. /\ pc = "read" /\ ~Arch!Done(s) /\ step[s] = "write"
      /\ uploads' = [uploads EXCEPT ![writer[s]].state = "parts"]
      /\ read' = read /\ run' = run /\ attempt' = attempt /\ pc' = pc /\ at' = at /\ step' = step
      /\ writer' = writer /\ marker' = marker /\ synced' = synced /\ faults' = faults
  BY DEF Arch!SendParts, Arch!At, Arch!streams, Arch!saved
<1>2. Arch!Writing(s)
  BY <1>1 DEF Arch!Writing
<1>3. PICK u \in DOMAIN uploads : u = writer[s] /\ Arch!Unfinished(u)
  BY <1>1, <1>2, ArchWriterOf
<1>4. /\ UploadsSettle /\ DOMAIN uploads' = DOMAIN uploads /\ uploads'[u].state = "parts"
      /\ \A v \in DOMAIN uploads : v # u => uploads'[v] = uploads[v]
  BY <1>1, <1>3, ArchOneSettles DEF Arch!IInv, UploadStates
<1>5. Arch!Archived \subseteq Arch!Archived' /\ Arch!Pieces' = Arch!Pieces
        /\ Arch!Streams' = Arch!Streams
  BY <1>1, <1>4, ArchObjectsStay
<1>6. \A v \in DOMAIN uploads : Arch!Unfinished(v)' <=> Arch!Unfinished(v)
  BY <1>3, <1>4 DEF Arch!Unfinished
<1>7. Arch!ArchiveTyped'
  BY <1>1, <1>4, ArchTypedStays DEF Arch!IInv, Arch!ArchiveTyped, Arch!TypeOK
<1>8. Arch!WritersKnown'
  <2>1. \A q \in Arch!Streams : Arch!Writing(q)' <=> Arch!Writing(q)
    BY <1>1 DEF Arch!Writing, Arch!Done
  <2>2. ASSUME NEW q \in Arch!Streams, Arch!Writing(q)'
        PROVE  /\ writer'[q] \in DOMAIN uploads'
               /\ Arch!Unfinished(writer[q])' /\ uploads'[writer'[q]].file = <<q, at'[q]>>
    <3>1. PICK v \in DOMAIN uploads :
            v = writer[q] /\ Arch!Unfinished(v) /\ uploads[v].file = <<q, at[q]>>
      BY <1>1, <2>1, <2>2, ArchWriterOf
    <3> QED BY <1>1, <1>4, <1>6, <3>1 DEF UploadsSettle
  <2>3. ASSUME NEW v \in DOMAIN uploads', Arch!Unfinished(v)'
        PROVE  \E q \in Arch!Streams : Arch!Writing(q)' /\ writer'[q] = v
    BY <1>1, <1>4, <1>6, <2>1, <2>3 DEF Arch!IInv, Arch!WritersKnown
  <2> QED BY <1>5, <2>2, <2>3 DEF Arch!WritersKnown
<1>9. Arch!PiecesKept' /\ Arch!MarkerBehind' /\ Arch!NothingOpen'
  BY <1>1, <1>5 DEF Arch!IInv, Arch!PiecesKept, Arch!MarkerBehind, Arch!NothingOpen, Arch!Done
<1>10. Arch!SyncedLast'
  BY <1>1 DEF Arch!IInv, Arch!SyncedLast
<1> QED BY <1>7, <1>8, <1>9, <1>10 DEF Arch!IInv

\* A piece is read to its end.
LEMMA ArchEndPieceKeeps ==
  ASSUME Arch!ArchiveConstants, Arch!IInv, NEW s \in Arch!Streams, Arch!EndPiece(s)
  PROVE  Arch!IInv'
<1>1. /\ pc = "read" /\ ~Arch!Done(s) /\ step[s] = "write" /\ step' = [step EXCEPT ![s] = "close"]
      /\ uploads' = uploads
      /\ read' = read /\ run' = run /\ attempt' = attempt /\ pc' = pc /\ at' = at
      /\ writer' = writer /\ marker' = marker /\ synced' = synced /\ faults' = faults
  BY DEF Arch!EndPiece, Arch!At, Arch!Then, Arch!saved
<1>2. Arch!Archived' = Arch!Archived /\ Arch!Pieces' = Arch!Pieces /\ Arch!Streams' = Arch!Streams
  BY <1>1 DEF Arch!Archived, Arch!Pieces, Arch!Streams
<1>3. Arch!ArchiveTyped'
  BY <1>1, ArchNoneSettles, ArchTypedStays DEF Arch!IInv, Arch!ArchiveTyped, Arch!TypeOK
<1>4. /\ \A q \in Arch!Streams : Arch!Writing(q)' <=> Arch!Writing(q)
      /\ \A u : Arch!Unfinished(u)' <=> Arch!Unfinished(u)
  BY <1>1 DEF Arch!IInv, Arch!ArchiveTyped, Arch!Writing, Arch!Done, Arch!Unfinished
<1>5. Arch!WritersKnown'
  <2>1. \A q \in Arch!Streams : Arch!Unfinished(writer[q])' <=> Arch!Unfinished(writer[q])
    BY <1>1 DEF Arch!Unfinished
  <2> QED BY <1>1, <1>2, <1>4, <2>1 DEF Arch!IInv, Arch!WritersKnown
<1>6. Arch!PiecesKept' /\ Arch!MarkerBehind' /\ Arch!NothingOpen' /\ Arch!SyncedLast'
  BY <1>1, <1>2
  DEF Arch!IInv, Arch!ArchiveTyped, Arch!PiecesKept, Arch!MarkerBehind, Arch!NothingOpen,
      Arch!SyncedLast, Arch!Done
<1> QED BY <1>3, <1>5, <1>6 DEF Arch!IInv

\* A file is closed.
LEMMA ArchCloseKeeps ==
  ASSUME Arch!ArchiveConstants, Arch!IInv, NEW s \in Arch!Streams, Arch!Close(s)
  PROVE  Arch!IInv'
<1>1. /\ pc = "read" /\ ~Arch!Done(s) /\ step[s] = "close"
           /\ uploads' = Arch!Ending(writer[s], "object")
      /\ writer' = [writer EXCEPT ![s] = 0]
      /\ read' = read /\ run' = run /\ attempt' = attempt /\ pc' = pc
      /\ marker' = marker /\ synced' = synced /\ faults' = faults
  BY DEF Arch!Close, Arch!At, Arch!saved
<1>2. \/ /\ read.kind = "chunks" /\ step' = [step EXCEPT ![s] = "mark"] /\ at' = at
      \/ /\ read.kind # "chunks" /\ step' = [step EXCEPT ![s] = "open"]
         /\ at' = [at EXCEPT ![s] = @ + 1]
  BY DEF Arch!Close, Arch!Then, Arch!Advance
<1>3. Arch!Writing(s)
  BY <1>1 DEF Arch!Writing
<1>4. UploadEnds(s) /\ uploads'[writer[s]].state = "object"
  BY <1>1, <1>3, ArchEndsIs
<1>5. /\ UploadsSettle /\ DOMAIN uploads' = DOMAIN uploads
      /\ Arch!Archived \subseteq Arch!Archived' /\ Arch!Pieces' = Arch!Pieces
           /\ Arch!Streams' = Arch!Streams
      /\ writer' \in [Arch!Streams -> 0..Len(uploads)] /\ <<s, at[s]>> \in Arch!Archived'
  BY <1>1, <1>3, <1>4, ArchEndsSettles
<1>6. /\ at' \in [Arch!Streams -> Nat \ {0}]
           /\ step' \in [Arch!Streams -> {"open", "write", "close", "mark"}]
      /\ \A q \in Arch!Streams : q # s => at'[q] = at[q] /\ step'[q] = step[q]
      /\ step'[s] \in {"open", "mark"}
           /\ (step'[s] = "mark" => read.kind = "chunks" /\ at'[s] = at[s])
      /\ at'[s] = at[s] \/ (at'[s] = at[s] + 1)
  <2>1. /\ at \in [Arch!Streams -> Nat \ {0}] /\ at[s] + 1 \in Nat \ {0}
        /\ step \in [Arch!Streams -> {"open", "write", "close", "mark"}]
    BY DEF Arch!IInv, Arch!ArchiveTyped
  <2>2. CASE read.kind = "chunks"
    BY <1>2, <2>1, <2>2
  <2>3. CASE read.kind # "chunks"
    <3>1. step' = [step EXCEPT ![s] = "open"] /\ at' = [at EXCEPT ![s] = at[s] + 1]
      BY <1>2, <2>3
    <3> QED BY <2>1, <3>1
  <2> QED BY <2>2, <2>3
<1>7. Arch!ArchiveTyped'
  BY <1>1, <1>5, <1>6, ArchTypedStays DEF Arch!IInv, Arch!ArchiveTyped, Arch!TypeOK
<1>8. Arch!WritersKnown'
  BY <1>1, <1>3, <1>4, <1>6, ArchWritersStay DEF Arch!Writing
<1>9. Arch!PiecesKept'
  <2>1. ASSUME NEW q \in Arch!Streams
        PROVE  /\ at'[q] <= read.pieces[q] + 1 /\ {q} \X (1..(at'[q] - 1)) \subseteq Arch!Archived'
               /\ ~Arch!Done(q)' /\ step'[q] = "mark" =>
                    read.kind = "chunks" /\ <<q, at'[q]>> \in Arch!Archived'
    <3>1. /\ at[q] <= read.pieces[q] + 1 /\ {q} \X (1..(at[q] - 1)) \subseteq Arch!Archived'
          /\ at[q] \in Nat /\ read.pieces[q] \in Nat /\ at[s] \in Nat /\ read.pieces[s] \in Nat
          /\ ~(at[s] > read.pieces[s])
          /\ ~Arch!Done(q) /\ step[q] = "mark"
               => read.kind = "chunks" /\ <<q, at[q]>> \in Arch!Archived'
      BY <1>1, <1>5, ArchReading DEF Arch!IInv, Arch!ArchiveTyped, Arch!PiecesKept, Arch!Done
    <3>2. CASE q # s
      BY <3>1, <3>2, <1>1, <1>6 DEF Arch!Done
    <3>3. CASE q = s
      <4>1. at'[q] <= read.pieces[q] + 1
        BY <3>1, <3>3, <1>6
      <4>2. ASSUME NEW i \in 1..(at'[q] - 1) PROVE <<q, i>> \in Arch!Archived'
        <5>1. i \in 1..(at[q] - 1) \/ i = at[q]
          BY <3>1, <3>3, <1>6
        <5> QED BY <5>1, <3>1, <3>3, <1>5
      <4>3. step'[q] = "mark" => read.kind = "chunks" /\ <<q, at'[q]>> \in Arch!Archived'
        BY <3>3, <1>5, <1>6
      <4> QED BY <4>1, <4>2, <4>3
    <3> QED BY <3>2, <3>3
  <2> QED BY <2>1, <1>1, <1>5 DEF Arch!PiecesKept
<1>10. Arch!MarkerBehind' /\ Arch!NothingOpen'
  BY <1>1, <1>5 DEF Arch!IInv, Arch!MarkerBehind, Arch!NothingOpen
<1>11. Arch!SyncedLast'
  BY <1>1 DEF Arch!IInv, Arch!SyncedLast
<1> QED BY <1>7, <1>8, <1>9, <1>10, <1>11 DEF Arch!IInv

\* A close that fails may have completed; the attempt stops.
LEMMA ArchCloseFailsKeeps ==
  ASSUME Arch!ArchiveConstants, Arch!IInv, NEW s \in Arch!Streams, Arch!CloseFails(s)
  PROVE  Arch!IInv'
<1>1. /\ pc = "read" /\ ~Arch!Done(s) /\ step[s] = "close"
      /\ uploads' \in {Arch!Ending(writer[s], "object"), Arch!Ending(writer[s], "stuck")}
      /\ writer' = [writer EXCEPT ![s] = 0] /\ pc' = "abort"
      /\ read' = read /\ run' = run /\ attempt' = attempt /\ at' = at /\ step' = step
      /\ marker' = marker /\ synced' = synced /\ faults < ArchiveFaults /\ faults' = faults + 1
  BY DEF Arch!CloseFails, Arch!At, Arch!Goto, Arch!Fault, Arch!saved
<1>2. Arch!Writing(s)
  BY <1>1 DEF Arch!Writing
<1>3. UploadEnds(s)
  BY <1>1, <1>2, ArchEndsIs
<1>4. /\ UploadsSettle /\ DOMAIN uploads' = DOMAIN uploads
      /\ Arch!Archived \subseteq Arch!Archived' /\ Arch!Pieces' = Arch!Pieces
           /\ Arch!Streams' = Arch!Streams
      /\ writer' \in [Arch!Streams -> 0..Len(uploads)]
  BY <1>1, <1>2, <1>3, ArchEndsSettles
<1>5. faults' \in 0..ArchiveFaults
  BY <1>1, ArchReading DEF Arch!IInv, Arch!ArchiveTyped
<1>6. Arch!ArchiveTyped'
  BY <1>1, <1>4, <1>5, ArchTypedStays DEF Arch!IInv, Arch!ArchiveTyped, Arch!TypeOK
<1>7. Arch!WritersKnown' /\ Arch!PiecesKept' /\ Arch!MarkerBehind' /\ Arch!NothingOpen'
  BY <1>1, <1>4 DEF Arch!IInv, Arch!WritersKnown, Arch!PiecesKept, Arch!MarkerBehind, Arch!NothingOpen
<1>8. Arch!SyncedLast'
  BY <1>1 DEF Arch!IInv, Arch!SyncedLast
<1> QED BY <1>6, <1>7, <1>8 DEF Arch!IInv

\* The marker passes a chunk whose file was closed.
LEMMA ArchMarkKeeps ==
  ASSUME Arch!ArchiveConstants, Arch!IInv, NEW s \in Arch!Streams, Arch!Mark(s)
  PROVE  Arch!IInv'
<1>1. /\ pc = "read" /\ ~Arch!Done(s) /\ step[s] = "mark" /\ read.kind = "chunks"
      /\ marker' = at[s] /\ at' = [at EXCEPT ![s] = @ + 1] /\ step' = [step EXCEPT ![s] = "open"]
      /\ uploads' = uploads /\ writer' = writer
      /\ read' = read /\ run' = run /\ attempt' = attempt /\ pc' = pc
      /\ synced' = synced /\ faults' = faults
  BY DEF Arch!Mark, Arch!MayMark, Arch!At, Arch!Then, Arch!Advance
<1>2. Arch!Archived' = Arch!Archived /\ Arch!Pieces' = Arch!Pieces /\ Arch!Streams' = Arch!Streams
  BY <1>1 DEF Arch!Archived, Arch!Pieces, Arch!Streams
<1>3. /\ at[s] \in Nat \ {0} /\ at[s] <= read.pieces[s] /\ Arch!Streams = {1} /\ s = 1
      /\ read.pieces[s] \in Nat
  <2>1. Arch!ArchiveTyped
    BY DEF Arch!IInv
  <2>2. /\ read.pieces[s] \in Nat /\ Arch!Streams = {1} /\ s = 1
    BY <1>1, <2>1, ArchReading
  <2>3. at[s] \in Nat \ {0}
    BY <2>1 DEF Arch!ArchiveTyped
  <2>4. at[s] <= read.pieces[s]
    BY <1>1, <2>2, <2>3 DEF Arch!Done
  <2> QED BY <2>2, <2>3, <2>4
<1>4. Arch!ArchiveTyped'
  <2>1. at' \in [Arch!Streams -> Nat \ {0}]
          /\ step' \in [Arch!Streams -> {"open", "write", "close", "mark"}]
    BY <1>1, <1>3 DEF Arch!IInv, Arch!ArchiveTyped
  <2>2. writer' \in [Arch!Streams -> 0..Len(uploads)]
    BY <1>1 DEF Arch!IInv, Arch!ArchiveTyped, Arch!TypeOK
  <2>3. Arch!ArchiveTyped /\ UploadsSettle
    BY <1>1, ArchNoneSettles DEF Arch!IInv
  <2>4. /\ run' \in 0..ArchiveRuns /\ attempt' \in 1..ArchiveAttempts /\ marker' \in Nat
             /\ synced' \in BOOLEAN
        /\ faults' \in 0..ArchiveFaults
        /\ pc' \in {"read", "save", "abort", "retry", "ok", "failed", "dead"}
    BY <1>1, <1>3, <2>3 DEF Arch!ArchiveTyped, Arch!TypeOK
  <2>5. read' = read /\ DOMAIN uploads' = DOMAIN uploads
    BY <1>1
  <2> QED BY <2>1, <2>2, <2>3, <2>4, <2>5, ArchTypedStays
<1>5. Arch!WritersKnown'
  <2>1. ~Arch!Writing(s) /\ ~Arch!Writing(s)' /\ \A u \in DOMAIN uploads : Arch!Unfinished(u)'
          <=> Arch!Unfinished(u)
    BY <1>1 DEF Arch!IInv, Arch!ArchiveTyped, Arch!Writing, Arch!Unfinished
  <2> QED BY <1>1, <1>2, <1>3, <2>1 DEF Arch!IInv, Arch!WritersKnown
<1>6. <<s, at[s]>> \in Arch!Archived /\ {s} \X (1..(at[s] - 1)) \subseteq Arch!Archived
  BY <1>1 DEF Arch!IInv, Arch!PiecesKept
<1>7. {s} \X (1..at[s]) \subseteq Arch!Archived
  <2>1. ASSUME NEW i \in 1..at[s] PROVE <<s, i>> \in Arch!Archived
    <3>1. i \in 1..(at[s] - 1) \/ i = at[s]
      BY <1>3
    <3> QED BY <1>6, <3>1
  <2> QED BY <2>1
<1>8. at'[s] = at[s] + 1 /\ at'[s] - 1 = at[s] /\ at'[s] <= read.pieces[s] + 1 /\ step'[s] = "open"
  BY <1>1, <1>3 DEF Arch!IInv, Arch!ArchiveTyped
<1>9. Arch!PiecesKept'
  BY <1>1, <1>2, <1>3, <1>7, <1>8 DEF Arch!PiecesKept
<1>10. Arch!MarkerBehind' /\ Arch!NothingOpen' /\ Arch!SyncedLast'
  BY <1>1, <1>2, <1>3, <1>7 DEF Arch!IInv, Arch!MarkerBehind, Arch!NothingOpen, Arch!SyncedLast
<1> QED BY <1>4, <1>5, <1>9, <1>10 DEF Arch!IInv

\* A cancelled window's file is aborted, and another one opened.
LEMMA ArchWindowCancelledKeeps ==
  ASSUME Arch!ArchiveConstants, Arch!IInv, NEW s \in Arch!Streams, Arch!WindowCancelled(s)
  PROVE  Arch!IInv'
<1>1. /\ pc = "read" /\ ~Arch!Done(s) /\ step[s] = "write"
      /\ uploads' \in {Arch!Ending(writer[s], "gone"), Arch!Ending(writer[s], "stuck")}
      /\ writer' = [writer EXCEPT ![s] = 0] /\ step' = [step EXCEPT ![s] = "open"]
      /\ read' = read /\ run' = run /\ attempt' = attempt /\ pc' = pc /\ at' = at
      /\ marker' = marker /\ synced' = synced /\ faults < ArchiveFaults /\ faults' = faults + 1
  BY DEF Arch!WindowCancelled, Arch!AbortOne, Arch!At, Arch!Then, Arch!Fault, Arch!saved
<1>2. Arch!Writing(s)
  BY <1>1 DEF Arch!Writing
<1>3. UploadEnds(s)
  BY <1>1, <1>2, ArchEndsIs
<1>4. /\ UploadsSettle /\ DOMAIN uploads' = DOMAIN uploads
      /\ Arch!Archived \subseteq Arch!Archived' /\ Arch!Pieces' = Arch!Pieces
           /\ Arch!Streams' = Arch!Streams
      /\ writer' \in [Arch!Streams -> 0..Len(uploads)]
  BY <1>1, <1>2, <1>3, ArchEndsSettles
<1>5. /\ step' \in [Arch!Streams -> {"open", "write", "close", "mark"}] /\ step'[s] = "open"
      /\ \A q \in Arch!Streams : q # s => step'[q] = step[q]
  BY <1>1 DEF Arch!IInv, Arch!ArchiveTyped
<1>6. faults' \in 0..ArchiveFaults
  BY <1>1, ArchReading DEF Arch!IInv, Arch!ArchiveTyped
<1>7. Arch!ArchiveTyped'
  BY <1>1, <1>4, <1>5, <1>6, ArchTypedStays DEF Arch!IInv, Arch!ArchiveTyped, Arch!TypeOK
<1>8. Arch!WritersKnown'
  <2>1. ~Arch!Writing(s)' /\ \A q \in Arch!Streams : q # s => at'[q] = at[q] /\ step'[q] = step[q]
    BY <1>1, <1>5 DEF Arch!Writing
  <2> QED BY <1>1, <1>2, <1>3, <2>1, ArchWritersStay
<1>9. Arch!PiecesKept' /\ Arch!MarkerBehind' /\ Arch!NothingOpen'
  BY <1>1, <1>4, <1>5 DEF Arch!IInv, Arch!PiecesKept, Arch!MarkerBehind, Arch!NothingOpen, Arch!Done
<1>10. Arch!SyncedLast'
  BY <1>1 DEF Arch!IInv, Arch!SyncedLast
<1> QED BY <1>7, <1>8, <1>9, <1>10 DEF Arch!IInv

-----------------------------------------------------------------------------
(* The attempt, and the run.                                               *)

\* The uploads are as they were, and so is what the destination counts on.
LEMMA ArchNothingSettles ==
  ASSUME Arch!ArchiveConstants, Arch!IInv, uploads' = uploads, read' = read,
         pc' \notin {"read", "save"},
         marker' = marker, synced' = synced, pc # "ok",
         pc \in {"read", "abort"} => pc' = "abort"
  PROVE  Arch!WritersKnown' /\ Arch!PiecesKept' /\ Arch!MarkerBehind' /\ Arch!NothingOpen'
           /\ Arch!SyncedLast'
<1>1. Arch!Archived' = Arch!Archived /\ Arch!Pieces' = Arch!Pieces /\ Arch!Streams' = Arch!Streams
  BY DEF Arch!Archived, Arch!Pieces, Arch!Streams
<1>2. \A u \in DOMAIN uploads : Arch!Unfinished(u)' <=> Arch!Unfinished(u)
  BY DEF Arch!Unfinished
<1> QED BY <1>1, <1>2
    DEF Arch!IInv, Arch!WritersKnown, Arch!PiecesKept, Arch!MarkerBehind, Arch!NothingOpen,
        Arch!SyncedLast

\* Uploads that are unfinished end, each as best it can.
LEMMA ArchManySettle ==
  ASSUME Arch!ArchiveConstants, Arch!IInv, read' = read,
         uploads' = [u \in DOMAIN uploads |-> uploads'[u]],
         \A u \in DOMAIN uploads :
           uploads'[u] = IF Arch!Unfinished(u) THEN uploads'[u] ELSE uploads[u],
         \A u \in DOMAIN uploads : Arch!Unfinished(u) =>
           \E state \in {"gone", "stuck"} : uploads'[u] = [uploads[u] EXCEPT !.state = state]
  PROVE  /\ UploadsSettle /\ DOMAIN uploads' = DOMAIN uploads
         /\ Arch!Archived \subseteq Arch!Archived' /\ Arch!Pieces' = Arch!Pieces
              /\ Arch!Streams' = Arch!Streams
         /\ \A u \in DOMAIN uploads' : ~Arch!Unfinished(u)'
<1>1. /\ DOMAIN uploads = 1..Len(uploads) /\ Len(uploads) \in Nat
      /\ \A u \in DOMAIN uploads : uploads[u] \in Upload
  BY ArchReading DEF Arch!IInv
<1>2. DOMAIN uploads' = DOMAIN uploads
  OBVIOUS
<1>3. ASSUME NEW u \in DOMAIN uploads
      PROVE  /\ uploads'[u] \in Upload /\ uploads'[u].file = uploads[u].file
             /\ ~Arch!Unfinished(u) => uploads'[u] = uploads[u]
             /\ Arch!Unfinished(u) => uploads'[u].state \in {"gone", "stuck"}
  <2>1. CASE Arch!Unfinished(u)
    <3>1. PICK state \in {"gone", "stuck"} : uploads'[u] = [uploads[u] EXCEPT !.state = state]
      BY <2>1
    <3>2. uploads[u] \in Upload
      BY <1>1
    <3> QED BY <2>1, <3>1, <3>2 DEF Upload, UploadStates
  <2>2. CASE ~Arch!Unfinished(u)
    <3>1. uploads'[u] = uploads[u]
      BY <2>2
    <3> QED BY <1>1, <2>2, <3>1
  <2> QED BY <2>1, <2>2
<1>4. uploads' \in Seq(Upload)
  <2>1. uploads' \in [1..Len(uploads) -> Upload]
    BY <1>1, <1>3
  <2> QED BY <1>1, <2>1, SeqDef
<1>5. UploadsSettle
  BY <1>2, <1>3, <1>4 DEF UploadsSettle
<1>6. Arch!Archived \subseteq Arch!Archived' /\ Arch!Pieces' = Arch!Pieces
        /\ Arch!Streams' = Arch!Streams
  BY <1>5, ArchObjectsStay
<1>7. \A u \in DOMAIN uploads' : ~Arch!Unfinished(u)'
  BY <1>2, <1>3 DEF Arch!Unfinished
<1> QED BY <1>2, <1>5, <1>6, <1>7

\* What it keeps, where no run reads any more.
LEMMA ArchManyKeep ==
  ASSUME Arch!ArchiveConstants, Arch!IInv, read' = read, UploadsSettle,
         DOMAIN uploads' = DOMAIN uploads,
         \A u \in DOMAIN uploads' : ~Arch!Unfinished(u)',
         pc \notin {"ok", "failed", "dead"}, pc' \notin {"read", "save"},
         marker' = marker, synced' = synced
  PROVE  Arch!WritersKnown' /\ Arch!PiecesKept' /\ Arch!MarkerBehind' /\ Arch!NothingOpen'
           /\ Arch!SyncedLast'
<1>1. Arch!Archived \subseteq Arch!Archived' /\ Arch!Pieces' = Arch!Pieces
        /\ Arch!Streams' = Arch!Streams
  BY ArchObjectsStay
<1> QED BY <1>1
    DEF Arch!IInv, Arch!WritersKnown, Arch!PiecesKept, Arch!MarkerBehind, Arch!NothingOpen,
        Arch!SyncedLast

\* An attempt begins, at the marker if there is one.
LEMMA ArchBeginKeeps ==
  ASSUME Arch!ArchiveConstants, Arch!IInv, Arch!Begin, uploads' = uploads, read' = read,
         pc \notin {"read", "abort"}, ~synced, marker' = marker, synced' = synced, faults' = faults,
         run' \in 0..ArchiveRuns, attempt' \in 1..ArchiveAttempts
  PROVE  Arch!IInv'
<1> DEFINE n == IF read.kind = "chunks" THEN marker + 1 ELSE 1
<1>1. /\ at' = [s \in Arch!Streams |-> n] /\ step' = [s \in Arch!Streams |-> "open"]
      /\ writer' = [s \in Arch!Streams |-> 0] /\ pc' = "read"
  BY DEF Arch!Begin, Arch!Goto
<1>2. Arch!Archived' = Arch!Archived /\ Arch!Pieces' = Arch!Pieces /\ Arch!Streams' = Arch!Streams
  BY DEF Arch!Archived, Arch!Pieces, Arch!Streams
<1>3. /\ n \in Nat \ {0}
      /\ \A s \in Arch!Streams : n <= read.pieces[s] + 1
           /\ {s} \X (1..(n - 1)) \subseteq Arch!Archived
  <2>1. marker \in Nat /\ \A s \in Arch!Streams : read.pieces[s] \in Nat
    BY ArchReading DEF Arch!IInv, Arch!ArchiveTyped
  <2>2. CASE read.kind = "chunks"
    <3>1. n = marker + 1 /\ n - 1 = marker
      BY <2>1, <2>2
    <3> QED BY <2>1, <3>1 DEF Arch!IInv, Arch!MarkerBehind
  <2>3. CASE read.kind # "chunks"
    <3>1. n = 1 /\ 1..(n - 1) = {}
      BY <2>3
    <3> QED BY <2>1, <3>1
  <2> QED BY <2>2, <2>3
<1> HIDE DEF n
<1>4. Arch!ArchiveTyped'
  <2>1. /\ at' \in [Arch!Streams -> Nat \ {0}]
             /\ step' \in [Arch!Streams -> {"open", "write", "close", "mark"}]
        /\ writer' \in [Arch!Streams -> 0..Len(uploads)]
    BY <1>1, <1>3, ArchReading DEF Arch!IInv
  <2>2. marker' \in Nat /\ synced' \in BOOLEAN /\ faults' \in 0..ArchiveFaults
    BY DEF Arch!IInv, Arch!ArchiveTyped, Arch!TypeOK
  <2> QED BY <1>1, <2>1, <2>2, ArchNoneSettles, ArchTypedStays DEF Arch!IInv
<1>5. \A u \in DOMAIN uploads : ~Arch!Unfinished(u)'
  BY DEF Arch!IInv, Arch!NothingOpen, Arch!Unfinished
<1>6. Arch!WritersKnown'
  BY <1>1, <1>2, <1>5 DEF Arch!WritersKnown, Arch!Writing
<1>7. \A s \in Arch!Streams : at'[s] = n /\ step'[s] = "open"
  BY <1>1
<1>8. Arch!PiecesKept'
  BY <1>1, <1>2, <1>3, <1>7 DEF Arch!PiecesKept
<1>9. Arch!MarkerBehind' /\ Arch!NothingOpen' /\ Arch!SyncedLast'
  BY <1>1, <1>2 DEF Arch!IInv, Arch!MarkerBehind, Arch!NothingOpen, Arch!SyncedLast
<1> QED BY <1>4, <1>6, <1>8, <1>9 DEF Arch!IInv

\* The attempt fails: what it left open is to be aborted.
LEMMA ArchFailsKeeps ==
  ASSUME Arch!ArchiveConstants, Arch!IInv, Arch!Fails
  PROVE  Arch!IInv'
<1>1. /\ pc \in {"read", "save"} /\ pc' = "abort" /\ faults < ArchiveFaults /\ faults' = faults + 1
      /\ read' = read /\ run' = run /\ attempt' = attempt /\ at' = at /\ step' = step
      /\ writer' = writer /\ uploads' = uploads /\ marker' = marker /\ synced' = synced
  BY DEF Arch!Fails, Arch!Goto, Arch!Fault, Arch!streams, Arch!saved
<1>2. faults' \in 0..ArchiveFaults
  BY <1>1, ArchReading DEF Arch!IInv, Arch!ArchiveTyped
<1>3. Arch!ArchiveTyped'
  BY <1>1, <1>2, ArchNoneSettles, ArchTypedStays DEF Arch!IInv, Arch!ArchiveTyped, Arch!TypeOK
<1>4. Arch!WritersKnown' /\ Arch!PiecesKept' /\ Arch!MarkerBehind' /\ Arch!NothingOpen'
        /\ Arch!SyncedLast'
  BY <1>1, ArchNothingSettles
<1> QED BY <1>3, <1>4 DEF Arch!IInv

\* Every upload of the attempt is aborted, and one abort may fail.
LEMMA ArchAbortUnfinishedKeeps ==
  ASSUME Arch!ArchiveConstants, Arch!IInv, Arch!AbortUnfinished
  PROVE  Arch!IInv'
<1>1. /\ pc = "abort" /\ pc' = "retry"
      /\ read' = read /\ run' = run /\ attempt' = attempt /\ at' = at /\ step' = step
      /\ writer' = writer /\ marker' = marker /\ synced' = synced
  BY DEF Arch!AbortUnfinished, Arch!Goto, Arch!streams, Arch!saved
<1>2. faults' \in 0..ArchiveFaults
  BY ArchReading DEF Arch!AbortUnfinished, Arch!Fault, Arch!IInv, Arch!ArchiveTyped, Arch!TypeOK
<1>3. \A u \in DOMAIN uploads : Arch!Unfinished(u) =>
        /\ Arch!AbortOne(u)[u] = [uploads[u] EXCEPT !.state = "gone"]
        /\ \E state \in {"gone", "stuck"} :
             Arch!Ending(u, "stuck")[u] = [uploads[u] EXCEPT !.state = state]
  <2> SUFFICES ASSUME NEW u \in DOMAIN uploads, Arch!Unfinished(u)
               PROVE  /\ Arch!AbortOne(u)[u] = [uploads[u] EXCEPT !.state = "gone"]
                      /\ \E state \in {"gone", "stuck"} :
                           Arch!Ending(u, "stuck")[u] = [uploads[u] EXCEPT !.state = state]
    OBVIOUS
  <2>1. \E state \in {"gone"} : Arch!Ending(u, "gone")[u] = [uploads[u] EXCEPT !.state = state]
    BY ArchEndingIs DEF Arch!IInv
  <2>2. \E state \in {"gone", "stuck"} :
          Arch!Ending(u, "stuck")[u] = [uploads[u] EXCEPT !.state = state]
    BY ArchEndingIs DEF Arch!IInv
  <2> QED BY <2>1, <2>2 DEF Arch!AbortOne
<1>4. /\ UploadsSettle /\ DOMAIN uploads' = DOMAIN uploads
           /\ \A u \in DOMAIN uploads' : ~Arch!Unfinished(u)'
  <2>1. CASE uploads' = [u \in DOMAIN uploads |->
                           IF Arch!Unfinished(u) THEN Arch!AbortOne(u)[u] ELSE uploads[u]]
    <3>1. /\ uploads' = [u \in DOMAIN uploads |-> uploads'[u]]
          /\ \A u \in DOMAIN uploads :
               uploads'[u] = IF Arch!Unfinished(u) THEN uploads'[u] ELSE uploads[u]
      BY <2>1, Zenon
    <3>2. \A u \in DOMAIN uploads : Arch!Unfinished(u) =>
            \E state \in {"gone", "stuck"} : uploads'[u] = [uploads[u] EXCEPT !.state = state]
      BY <1>3, <2>1
    <3> QED BY <1>1, <3>1, <3>2, ArchManySettle
  <2>2. ASSUME NEW stuck \in DOMAIN uploads, uploads[stuck].state = "parts",
               uploads' = [u \in DOMAIN uploads |->
                             IF u = stuck THEN Arch!Ending(u, "stuck")[u]
                             ELSE IF Arch!Unfinished(u) THEN Arch!AbortOne(u)[u] ELSE uploads[u]]
        PROVE  /\ UploadsSettle /\ DOMAIN uploads' = DOMAIN uploads
               /\ \A u \in DOMAIN uploads' : ~Arch!Unfinished(u)'
    <3>1. Arch!Unfinished(stuck)
      BY <2>2 DEF Arch!Unfinished
    <3>2. /\ uploads' = [u \in DOMAIN uploads |-> uploads'[u]]
          /\ \A u \in DOMAIN uploads :
               uploads'[u] = IF Arch!Unfinished(u) THEN uploads'[u] ELSE uploads[u]
      BY <2>2, <3>1, Zenon
    <3>3. \A u \in DOMAIN uploads : Arch!Unfinished(u) =>
            \E state \in {"gone", "stuck"} : uploads'[u] = [uploads[u] EXCEPT !.state = state]
      BY <1>3, <2>2, <3>1
    <3> QED BY <1>1, <3>2, <3>3, ArchManySettle
  <2> QED BY <2>1, <2>2 DEF Arch!AbortUnfinished
<1>5. Arch!ArchiveTyped'
  BY <1>1, <1>2, <1>4, ArchTypedStays DEF Arch!IInv, Arch!ArchiveTyped, Arch!TypeOK
<1>6. Arch!WritersKnown' /\ Arch!PiecesKept' /\ Arch!MarkerBehind' /\ Arch!NothingOpen'
        /\ Arch!SyncedLast'
  BY <1>1, <1>4, ArchManyKeep
<1> QED BY <1>5, <1>6 DEF Arch!IInv

\* The attempt after it begins.
LEMMA ArchRetryKeeps ==
  ASSUME Arch!ArchiveConstants, Arch!IInv, Arch!Retry
  PROVE  Arch!IInv'
<1>1. /\ pc = "retry" /\ attempt < ArchiveAttempts /\ attempt' = attempt + 1 /\ Arch!Begin
      /\ read' = read /\ run' = run /\ uploads' = uploads
      /\ marker' = marker /\ synced' = synced /\ faults' = faults
  BY DEF Arch!Retry, Arch!saved
<1>2. attempt' \in 1..ArchiveAttempts /\ run' \in 0..ArchiveRuns /\ ~synced
  BY <1>1, ArchReading DEF Arch!IInv, Arch!ArchiveTyped, Arch!TypeOK, Arch!SyncedLast
<1> QED BY <1>1, <1>2, ArchBeginKeeps

\* Another run begins, from what the last one left.
LEMMA ArchStartRunKeeps ==
  ASSUME Arch!ArchiveConstants, Arch!IInv, Arch!StartRun
  PROVE  Arch!IInv'
<1>1. /\ pc \in {"ok", "failed", "dead"} /\ run < ArchiveRuns /\ ~synced /\ run' = run + 1
      /\ attempt' = 1 /\ Arch!Begin
      /\ read' = read /\ uploads' = uploads
      /\ marker' = marker /\ synced' = synced /\ faults' = faults
  BY DEF Arch!StartRun, Arch!Over, Arch!saved
<1>2. attempt' \in 1..ArchiveAttempts /\ run' \in 0..ArchiveRuns
  BY <1>1, ArchReading DEF Arch!IInv, Arch!ArchiveTyped, Arch!TypeOK
<1> QED BY <1>1, <1>2, ArchBeginKeeps

\* No attempt is to follow.
LEMMA ArchGiveUpKeeps ==
  ASSUME Arch!ArchiveConstants, Arch!IInv, Arch!GiveUp
  PROVE  Arch!IInv'
<1>1. /\ pc = "retry" /\ pc' = "failed"
      /\ read' = read /\ run' = run /\ attempt' = attempt /\ at' = at /\ step' = step
      /\ writer' = writer /\ uploads' = uploads /\ marker' = marker /\ synced' = synced
      /\ faults' = faults
  BY DEF Arch!GiveUp, Arch!Goto, Arch!streams, Arch!saved
<1>2. Arch!ArchiveTyped'
  BY <1>1, ArchNoneSettles, ArchTypedStays DEF Arch!IInv, Arch!ArchiveTyped, Arch!TypeOK
<1>3. Arch!WritersKnown' /\ Arch!PiecesKept' /\ Arch!MarkerBehind' /\ Arch!NothingOpen'
        /\ Arch!SyncedLast'
  BY <1>1, ArchNothingSettles
<1> QED BY <1>2, <1>3 DEF Arch!IInv

\* All streams are done: none has a file open.
LEMMA ArchEndReadKeeps ==
  ASSUME Arch!ArchiveConstants, Arch!IInv, Arch!EndRead
  PROVE  Arch!IInv'
<1>1. /\ pc = "read" /\ pc' = "save" /\ \A s \in Arch!Streams : Arch!Done(s)
      /\ read' = read /\ run' = run /\ attempt' = attempt /\ at' = at /\ step' = step
      /\ writer' = writer /\ uploads' = uploads /\ marker' = marker /\ synced' = synced
      /\ faults' = faults
  BY DEF Arch!EndRead, Arch!Goto, Arch!streams, Arch!saved
<1>2. Arch!Archived' = Arch!Archived /\ Arch!Pieces' = Arch!Pieces /\ Arch!Streams' = Arch!Streams
  BY <1>1 DEF Arch!Archived, Arch!Pieces, Arch!Streams
<1>3. Arch!ArchiveTyped'
  BY <1>1, ArchNoneSettles, ArchTypedStays DEF Arch!IInv, Arch!ArchiveTyped, Arch!TypeOK
<1>4. \A u \in DOMAIN uploads' : ~Arch!Unfinished(u)'
  BY <1>1 DEF Arch!IInv, Arch!WritersKnown, Arch!Writing, Arch!Unfinished
<1>5. Arch!WritersKnown' /\ Arch!NothingOpen' /\ Arch!MarkerBehind' /\ Arch!SyncedLast'
  BY <1>1, <1>2, <1>4
  DEF Arch!IInv, Arch!WritersKnown, Arch!NothingOpen, Arch!MarkerBehind, Arch!SyncedLast
<1>6. Arch!PiecesKept'
  BY <1>1, <1>2 DEF Arch!IInv, Arch!PiecesKept, Arch!Done
<1> QED BY <1>3, <1>5, <1>6 DEF Arch!IInv

\* Every stream is past its last piece: the whole read is archived.
LEMMA ArchSaveCursorKeeps ==
  ASSUME Arch!ArchiveConstants, Arch!IInv, Arch!SaveCursor
  PROVE  Arch!IInv'
<1>1. /\ pc = "save" /\ pc' = "ok" /\ synced' = TRUE
      /\ read' = read /\ run' = run /\ attempt' = attempt /\ at' = at /\ step' = step
      /\ writer' = writer /\ uploads' = uploads /\ marker' = marker /\ faults' = faults
  BY DEF Arch!SaveCursor, Arch!Goto, Arch!streams
<1>2. Arch!Archived' = Arch!Archived /\ Arch!Pieces' = Arch!Pieces /\ Arch!Streams' = Arch!Streams
  BY <1>1 DEF Arch!Archived, Arch!Pieces, Arch!Streams
<1>3. synced' \in BOOLEAN
  BY <1>1
<1>4. Arch!ArchiveTyped'
  BY <1>1, <1>3, ArchNoneSettles, ArchTypedStays DEF Arch!IInv, Arch!ArchiveTyped, Arch!TypeOK
<1>5. \A u \in DOMAIN uploads' : ~Arch!Unfinished(u)'
  BY <1>1 DEF Arch!IInv, Arch!NothingOpen, Arch!Unfinished
<1>6. Arch!Pieces \subseteq Arch!Archived
  <2> SUFFICES ASSUME NEW s \in Arch!Streams, NEW i \in 1..read.pieces[s]
               PROVE  <<s, i>> \in Arch!Archived
    BY DEF Arch!Pieces
  <2>1. /\ at[s] > read.pieces[s] /\ {s} \X (1..(at[s] - 1)) \subseteq Arch!Archived
        /\ at[s] \in Nat /\ read.pieces[s] \in Nat
    BY <1>1, ArchReading DEF Arch!IInv, Arch!ArchiveTyped, Arch!PiecesKept, Arch!Done
  <2>2. i \in 1..(at[s] - 1)
    BY <2>1
  <2> QED BY <2>1, <2>2
<1>7. Arch!Archived \subseteq Arch!Pieces
  BY ArchInArchive DEF Arch!IInv, Arch!ArchiveTyped, Arch!TypeOK
<1>8. Arch!WritersKnown' /\ Arch!NothingOpen' /\ Arch!MarkerBehind' /\ Arch!PiecesKept'
  BY <1>1, <1>2, <1>5
  DEF Arch!IInv, Arch!WritersKnown, Arch!NothingOpen, Arch!MarkerBehind, Arch!PiecesKept
<1>9. Arch!SyncedLast'
  BY <1>1, <1>2, <1>6, <1>7 DEF Arch!SyncedLast
<1> QED BY <1>4, <1>8, <1>9 DEF Arch!IInv

\* A crash leaves what the store has of the open files.
LEMMA ArchCrashKeeps ==
  ASSUME Arch!ArchiveConstants, Arch!IInv, Arch!Crash
  PROVE  Arch!IInv'
<1>1. /\ pc \notin {"ok", "failed", "dead"} /\ pc' = "dead"
      /\ faults < ArchiveFaults /\ faults' = faults + 1
      /\ uploads' = [u \in DOMAIN uploads |->
                       IF Arch!Unfinished(u) THEN Arch!Ending(u, "stuck")[u] ELSE uploads[u]]
      /\ read' = read /\ run' = run /\ attempt' = attempt /\ at' = at /\ step' = step
      /\ writer' = writer /\ marker' = marker /\ synced' = synced
  BY DEF Arch!Crash, Arch!Over, Arch!Goto, Arch!Fault, Arch!streams, Arch!saved
<1>2. faults' \in 0..ArchiveFaults
  BY <1>1, ArchReading DEF Arch!IInv, Arch!ArchiveTyped
<1>3. /\ uploads' = [u \in DOMAIN uploads |-> uploads'[u]]
      /\ \A u \in DOMAIN uploads :
           uploads'[u] = IF Arch!Unfinished(u) THEN uploads'[u] ELSE uploads[u]
  BY <1>1, Zenon
<1>4. \A u \in DOMAIN uploads : Arch!Unfinished(u) =>
        \E state \in {"gone", "stuck"} : uploads'[u] = [uploads[u] EXCEPT !.state = state]
  <2> SUFFICES ASSUME NEW u \in DOMAIN uploads, Arch!Unfinished(u)
               PROVE  \E state \in {"gone", "stuck"} :
                        uploads'[u] = [uploads[u] EXCEPT !.state = state]
    OBVIOUS
  <2>1. \E state \in {"gone", "stuck"} :
          Arch!Ending(u, "stuck")[u] = [uploads[u] EXCEPT !.state = state]
    BY ArchEndingIs DEF Arch!IInv
  <2>2. uploads'[u] = Arch!Ending(u, "stuck")[u]
    BY <1>1
  <2> QED BY <2>1, <2>2
<1>5. UploadsSettle /\ DOMAIN uploads' = DOMAIN uploads
        /\ \A u \in DOMAIN uploads' : ~Arch!Unfinished(u)'
  BY <1>1, <1>3, <1>4, ArchManySettle
<1>6. Arch!ArchiveTyped'
  BY <1>1, <1>2, <1>5, ArchTypedStays DEF Arch!IInv, Arch!ArchiveTyped, Arch!TypeOK
<1>7. Arch!WritersKnown' /\ Arch!PiecesKept' /\ Arch!MarkerBehind' /\ Arch!NothingOpen'
        /\ Arch!SyncedLast'
  BY <1>1, <1>5, ArchManyKeep
<1> QED BY <1>6, <1>7 DEF Arch!IInv

-----------------------------------------------------------------------------
\* The invariant holds at the start,
LEMMA ArchInitInv ==
  ASSUME Arch!ArchiveConstants, Arch!Init
  PROVE  Arch!IInv
<1>1. /\ read \in ArchivedReads /\ run = 0 /\ attempt = 1 /\ pc = "failed"
      /\ at = [s \in Arch!Streams |-> 1] /\ step = [s \in Arch!Streams |-> "open"]
      /\ writer = [s \in Arch!Streams |-> 0]
      /\ uploads = <<>> /\ marker = 0 /\ synced = FALSE /\ faults = 0
  BY DEF Arch!Init
<1>2. /\ Len(uploads) = 0 /\ DOMAIN uploads = {} /\ uploads \in Seq(Upload)
  BY <1>1, EmptySeq
<1>3. Arch!ArchiveTyped
  <2>1. 0 \in 0..ArchiveRuns /\ 1 \in 1..ArchiveAttempts /\ 0 \in 0..ArchiveFaults
    BY DEF Arch!ArchiveConstants
  <2>2. Arch!TypeOK
    BY <1>1, <1>2, <2>1 DEF Arch!TypeOK
  <2>3. /\ at \in [Arch!Streams -> Nat \ {0}]
             /\ step \in [Arch!Streams -> {"open", "write", "close", "mark"}]
        /\ writer \in [Arch!Streams -> Nat]
    BY <1>1
  <2>4. uploads \in Seq([file : Arch!Pieces,
          state : {"buffered", "parts", "object", "gone", "stuck"}])
    BY <1>2 DEF Upload, UploadStates
  <2>5. synced \in BOOLEAN
    BY <1>1
  <2> QED BY <1>1, <2>2, <2>3, <2>4, <2>5 DEF Arch!ArchiveTyped
<1>4. Arch!MarkerBehind
  <2>1. \A s \in Arch!Streams : read.pieces[s] \in Nat
    BY <1>3, ArchReading
  <2> QED BY <1>1, <2>1 DEF Arch!MarkerBehind
<1>5. Arch!WritersKnown /\ Arch!PiecesKept /\ Arch!NothingOpen /\ Arch!SyncedLast
  BY <1>1, <1>2 DEF Arch!WritersKnown, Arch!PiecesKept, Arch!NothingOpen, Arch!SyncedLast
<1> QED BY <1>3, <1>4, <1>5 DEF Arch!IInv

\* and when nothing happens;
LEMMA ArchUnchanged ==
  ASSUME Arch!IInv, UNCHANGED Arch!vars
  PROVE  Arch!IInv'
<1>1. /\ read' = read /\ run' = run /\ attempt' = attempt /\ pc' = pc /\ at' = at /\ step' = step
      /\ writer' = writer /\ uploads' = uploads /\ marker' = marker /\ synced' = synced
      /\ faults' = faults
  BY DEF Arch!vars, Arch!streams, Arch!saved
<1>2. Arch!Archived' = Arch!Archived /\ Arch!Pieces' = Arch!Pieces /\ Arch!Streams' = Arch!Streams
  BY <1>1 DEF Arch!Archived, Arch!Pieces, Arch!Streams
<1>3. Arch!ArchiveTyped'
  <2>1. Arch!TypeOK'
    BY <1>1, <1>2 DEF Arch!IInv, Arch!ArchiveTyped, Arch!TypeOK
  <2> QED BY <1>1, <1>2, <2>1 DEF Arch!IInv, Arch!ArchiveTyped
<1>4. Arch!WritersKnown'
  BY <1>1, <1>2 DEF Arch!IInv, Arch!WritersKnown, Arch!Writing, Arch!Done, Arch!Unfinished
<1>5. Arch!PiecesKept' /\ Arch!MarkerBehind' /\ Arch!NothingOpen' /\ Arch!SyncedLast'
  BY <1>1, <1>2
  DEF Arch!IInv, Arch!PiecesKept, Arch!MarkerBehind, Arch!NothingOpen, Arch!SyncedLast, Arch!Done,
      Arch!Unfinished
<1> QED BY <1>3, <1>4, <1>5 DEF Arch!IInv

\* every step keeps it.
LEMMA ArchNextKeeps ==
  ASSUME Arch!ArchiveConstants, Arch!IInv, Arch!Next
  PROVE  Arch!IInv'
<1>1. ASSUME NEW s \in Arch!Streams,
             Arch!Open(s) \/ Arch!SendParts(s) \/ Arch!EndPiece(s) \/ Arch!Close(s)
               \/ Arch!CloseFails(s) \/ Arch!Mark(s)
             \/ Arch!WindowCancelled(s)
      PROVE  Arch!IInv'
  BY <1>1, ArchOpenKeeps, ArchSendPartsKeeps, ArchEndPieceKeeps, ArchCloseKeeps, ArchCloseFailsKeeps,
     ArchMarkKeeps,
     ArchWindowCancelledKeeps
<1>2. ASSUME Arch!StartRun \/ Arch!Fails \/ Arch!AbortUnfinished \/ Arch!Retry \/ Arch!GiveUp
             \/ Arch!EndRead \/ Arch!SaveCursor \/ Arch!Crash
      PROVE  Arch!IInv'
  BY <1>2, ArchStartRunKeeps, ArchFailsKeeps, ArchAbortUnfinishedKeeps, ArchRetryKeeps,
     ArchGiveUpKeeps, ArchEndReadKeeps,
     ArchSaveCursorKeeps, ArchCrashKeeps
<1>3. ASSUME Arch!Ended /\ UNCHANGED Arch!vars
      PROVE  Arch!IInv'
  BY <1>3, ArchUnchanged
<1> QED BY <1>1, <1>2, <1>3 DEF Arch!Next

\* The archive's inductive invariant holds in every state (ArchiveUploads,
\* close, finish_chunk, abort_unfinished).
THEOREM ArchiveInvariant == Spec => [](which = "archive" => Arch!IInv)
<1>1. Init => (which = "archive" => Arch!IInv)
  BY Begins, ArchiveInstance, ArchInitInv
<1>2. (which = "archive" => Arch!IInv) /\ [Next]_readsVars => (which = "archive" => Arch!IInv)'
  BY Goes, ArchiveInstance, ArchNextKeeps, ArchUnchanged
<1> QED BY <1>1, <1>2, PTL DEF Spec

\* What the destination counts as done is in the archive, and no run that is
\* over leaves an upload open but one whose completion or abort failed
\* (ArchiveWriter, finish_chunk before persist_chunk_cursor).
THEOREM ArchiveIsWhole == Spec => []ArchiveWhole
<1>1. (which = "archive" => Arch!IInv) => ArchiveWhole
  BY DEF ArchiveWhole, Arch!IInv, Arch!ArchiveTyped, Arch!MarkerBehind, Arch!SyncedLast,
         Arch!NothingOpen, Arch!ArchiveWhole, Arch!Over
<1> QED BY <1>1, ArchiveInvariant, PTL

-----------------------------------------------------------------------------
(* A chunked read.                                                         *)

\* The rows there are, and the read.
LEMMA ChunkFacts ==
  ASSUME Chunks!ChunkConstants, Chunks!ChunkTyped
  PROVE  /\ read.limit \in Nat /\ read.limit >= 1 /\ LastKeyed \in Nat /\ NoCursor \notin Chunks!Keyed
         /\ \A row \in Chunks!Source : row \in Int /\ (Chunks!HasKey(row) <=> row \in Chunks!Keyed)
         /\ Chunks!Keyed \subseteq Chunks!Source /\ Chunks!Nulls \subseteq Chunks!Source
              /\ \A row \in Chunks!Nulls : ~Chunks!HasKey(row)
         /\ got \in Nat /\ cursor \in Chunks!Keyed \cup {NoCursor}
              /\ lo \in Chunks!Keyed \cup {NoCursor}
         /\ todo \in Chunks!Keyed \cup {NoCursor}
<1>1. /\ read.limit \in Nat /\ read.limit >= 1 /\ read.nulls \in Nat /\ LastKeyed \in Nat
      /\ NoCursor \notin Chunks!Keyed
  BY DEF Chunks!ChunkConstants, Chunks!ChunkTyped, Chunks!TypeOK, Chunks!Keyed
<1>2. \A row \in Chunks!Source : row \in Int /\ (Chunks!HasKey(row) <=> row \in Chunks!Keyed)
  BY <1>1 DEF Chunks!Source, Chunks!Keyed, Chunks!Nulls, Chunks!HasKey
<1>3. Chunks!Keyed \subseteq Chunks!Source /\ Chunks!Nulls \subseteq Chunks!Source
        /\ \A row \in Chunks!Nulls : ~Chunks!HasKey(row)
  BY <1>1 DEF Chunks!Source, Chunks!Nulls, Chunks!HasKey
<1>4. /\ cursor \in Chunks!Keyed \cup {NoCursor} /\ lo \in Chunks!Keyed \cup {NoCursor}
      /\ todo \in Chunks!Keyed \cup {NoCursor} /\ got \in 0..Len(rows)
  BY DEF Chunks!ChunkTyped, Chunks!TypeOK
<1> QED BY <1>1, <1>2, <1>3, <1>4

\* What a statement returns.
LEMMA ChunkFirstRowsAre ==
  ASSUME NEW c, NEW s \in Chunks!FirstRows(c)
  PROVE  /\ Len(s) \in Nat /\ DOMAIN s = 1..Len(s)
         /\ \A i \in 1..Len(s) : s[i] \in Chunks!Past(c)
         /\ \A row \in Chunks!Past(c) :
              \/ \E i \in 1..Len(s) : s[i] = row
              \/ Len(s) = read.limit /\ \A i \in 1..Len(s) : ~Chunks!Precedes(row, s[i])
<1>1. PICK n \in 0..read.limit : s \in [1..n -> Chunks!Past(c)]
  BY DEF Chunks!FirstRows
<1>2. s \in Seq(Chunks!Past(c))
  BY <1>1, SeqDef
<1>3. Len(s) \in Nat /\ DOMAIN s = 1..Len(s) /\ \A i \in 1..Len(s) : s[i] \in Chunks!Past(c)
  BY <1>2, LenProperties, ElementOfSeq
<1>4. \A row \in Chunks!Past(c) \ {s[i] : i \in DOMAIN s} :
        Len(s) = read.limit /\ \A i \in DOMAIN s : ~Chunks!Precedes(row, s[i])
  BY DEF Chunks!FirstRows, Chunks!Range
<1> QED BY <1>3, <1>4

\* What is past a cursor, and what precedes what.
LEMMA ChunkOrder ==
  ASSUME Chunks!ChunkConstants, Chunks!ChunkTyped
  PROVE  /\ \A c \in Chunks!Keyed \cup {NoCursor} : Chunks!Past(c) \subseteq Chunks!Source
         /\ Chunks!Past(NoCursor) = Chunks!Source
         /\ \A c \in Chunks!Keyed : \A row \in Chunks!Keyed : row > c => row \in Chunks!Past(c)
         /\ \A a, b \in Chunks!Keyed : a < b => Chunks!Precedes(a, b)
         /\ read.nulls_first => \A a \in Chunks!Nulls : \A b \in Chunks!Keyed : Chunks!Precedes(a, b)
<1>1. Chunks!Past(NoCursor) = Chunks!Source
  BY DEF Chunks!Past
<1>2. \A c \in Chunks!Keyed \cup {NoCursor} : Chunks!Past(c) \subseteq Chunks!Source
  BY DEF Chunks!Past
<1>3. \A c \in Chunks!Keyed : \A row \in Chunks!Keyed : row > c => row \in Chunks!Past(c)
  BY ChunkFacts DEF Chunks!Past
<1>4. \A a, b \in Chunks!Keyed : a < b => Chunks!Precedes(a, b)
  BY ChunkFacts DEF Chunks!Precedes
<1>5. read.nulls_first => \A a \in Chunks!Nulls : \A b \in Chunks!Keyed : Chunks!Precedes(a, b)
  BY ChunkFacts DEF Chunks!Precedes
<1> QED BY <1>1, <1>2, <1>3, <1>4, <1>5

\* A chunk whose inserts have their answers: each row past the cursor was
\* dealt with, or comes after those that were.
LEMMA ChunkAnswered ==
  ASSUME Chunks!ChunkConstants, Chunks!IInv, pc \in {"flush", "mark"}, parts = {}
  PROVE  /\ got = Len(rows) /\ Chunks!Decoded \subseteq dest \cup early
         /\ \A row \in Chunks!Past(cursor) :
              \/ row \in dest \cup early
              \/ got = read.limit /\ \A d \in Chunks!Decoded : ~Chunks!Precedes(row, d)
         /\ \A k \in Chunks!Keyed : (cursor = NoCursor \/ k > cursor) => k \in Chunks!Past(cursor)
         /\ \A k \in Chunks!Keyed : k \notin early
         /\ cursor # NoCursor => \A k \in Chunks!Keyed : k <= cursor => k \in dest
<1>1. got = Len(rows) /\ Chunks!Decoded \subseteq dest \cup early /\ rows \in Chunks!FirstRows(cursor)
  BY DEF Chunks!IInv, Chunks!RowsHandled, Chunks!InChunk, Chunks!Whole
<1>2. \A row \in Chunks!Past(cursor) :
        \/ row \in dest \cup early
        \/ got = read.limit /\ \A d \in Chunks!Decoded : ~Chunks!Precedes(row, d)
  BY <1>1, ChunkFirstRowsAre DEF Chunks!Decoded
<1>3. \A k \in Chunks!Keyed : (cursor = NoCursor \/ k > cursor) => k \in Chunks!Past(cursor)
  BY ChunkFacts, ChunkOrder DEF Chunks!IInv
<1>4. \A k \in Chunks!Keyed : k \notin early
  BY ChunkFacts DEF Chunks!IInv, Chunks!RowsHandled
<1>5. cursor # NoCursor => \A k \in Chunks!Keyed : k <= cursor => k \in dest
  BY ChunkFacts DEF Chunks!IInv, Chunks!Behind, Chunks!Keyed
<1> QED BY <1>1, <1>2, <1>3, <1>4, <1>5

\* The candidate has nothing behind it that is not in the destination.
LEMMA ChunkCandidateCovers ==
  ASSUME Chunks!ChunkConstants, Chunks!IInv, pc = "mark"
  PROVE  lo \in Chunks!Keyed /\ Chunks!Behind(lo)
<1>1. parts = {} /\ lo \in Chunks!Decoded /\ lo \in Chunks!Keyed
  BY ChunkFacts
  DEF Chunks!IInv, Chunks!ChunkTyped, Chunks!TypeOK, Chunks!CandidateDecoded, Chunks!InChunk
<1>2. LastKeyed \in Nat /\ cursor \in Chunks!Keyed \cup {NoCursor}
  BY ChunkFacts DEF Chunks!IInv
<1>3. ASSUME NEW k \in 1..lo
      PROVE  k \in dest
  <2>1. k \in Chunks!Keyed /\ (k = lo \/ k < lo) /\ \A c \in Chunks!Keyed : k <= c \/ k > c
    BY <1>1, <1>2 DEF Chunks!Keyed
  <2>2. k = lo \/ Chunks!Precedes(k, lo)
    BY <1>1, <2>1, ChunkOrder DEF Chunks!IInv
  <2>3. k \in dest \/ k \in Chunks!Past(cursor)
    BY <1>1, <1>2, <2>1, ChunkAnswered
  <2> QED BY <1>1, <2>1, <2>2, <2>3, ChunkAnswered
<1>4. ASSUME read.nulls_first, NEW row \in Chunks!Nulls
      PROVE  row \in dest \cup early
  <2>1. CASE cursor # NoCursor
    BY <1>4, <2>1 DEF Chunks!IInv, Chunks!Behind
  <2>2. CASE cursor = NoCursor
    <3>1. row \in Chunks!Past(cursor) /\ Chunks!Precedes(row, lo)
      BY <1>1, <1>4, <2>2, ChunkFacts, ChunkOrder DEF Chunks!IInv
    <3> QED BY <1>1, <3>1, ChunkAnswered
  <2> QED BY <2>1, <2>2
<1> QED BY <1>1, <1>3, <1>4 DEF Chunks!Behind

\* A chunk with fewer rows than it may have is the last.
LEMMA ChunkShortIsLast ==
  ASSUME Chunks!ChunkConstants, Chunks!IInv, pc \in {"flush", "mark"}, parts = {}, got < read.limit
  PROVE  Chunks!Keyed \subseteq dest /\ (read.nulls_first => Chunks!Nulls \subseteq dest \cup early)
<1>1. got \in Nat /\ read.limit \in Nat /\ LastKeyed \in Nat
        /\ cursor \in Chunks!Keyed \cup {NoCursor}
  BY ChunkFacts DEF Chunks!IInv
<1>2. got # read.limit
  BY <1>1
<1>3. \A row \in Chunks!Past(cursor) : row \in dest \cup early
  BY <1>2, ChunkAnswered
<1>4. ASSUME NEW k \in Chunks!Keyed
      PROVE  k \in dest
  <2>1. \A c \in Chunks!Keyed : k <= c \/ k > c
    BY <1>1 DEF Chunks!Keyed
  <2> QED BY <1>1, <1>3, <2>1, ChunkAnswered
<1>5. ASSUME read.nulls_first, NEW row \in Chunks!Nulls
      PROVE  row \in dest \cup early
  <2>1. CASE cursor # NoCursor
    BY <1>5, <2>1 DEF Chunks!IInv, Chunks!Behind
  <2>2. CASE cursor = NoCursor
    <3>1. row \in Chunks!Past(cursor)
      BY <1>5, <2>2, ChunkFacts, ChunkOrder DEF Chunks!IInv
    <3> QED BY <1>3, <3>1
  <2> QED BY <2>1, <2>2
<1> QED BY <1>4, <1>5

\* The read stays what it is.
LEMMA ChunkSameRead ==
  ASSUME read' = read
  PROVE  /\ Chunks!Source' = Chunks!Source /\ Chunks!Nulls' = Chunks!Nulls
         /\ \A c : Chunks!FirstRows(c)' = Chunks!FirstRows(c)
BY DEF Chunks!Source, Chunks!Nulls, Chunks!FirstRows, Chunks!Past, Chunks!Source, Chunks!Nulls,
       Chunks!Precedes

\* A table that grows loses nothing.
LEMMA ChunkBehindStays ==
  ASSUME NEW c, Chunks!Behind(c), read' = read, dest \subseteq dest', early \subseteq early'
  PROVE  Chunks!Behind(c)'
BY ChunkSameRead DEF Chunks!Behind

-----------------------------------------------------------------------------
\* The statement of a chunk runs.
LEMMA ChunkStatementKeeps ==
  ASSUME Chunks!ChunkConstants, Chunks!IInv, Chunks!Statement
  PROVE  Chunks!IInv'
<1>1. /\ pc = "statement" /\ pc' = "read" /\ rows' \in Chunks!FirstRows(cursor)
      /\ got' = 0 /\ lo' = NoCursor /\ read' = read /\ cursor' = cursor /\ batch' = batch
      /\ parts' = parts /\ dest' = dest /\ early' = early /\ todo' = todo
      /\ tries' = tries
  BY DEF Chunks!Statement, Chunks!sends
<1>2. Chunks!Source' = Chunks!Source /\ Chunks!Nulls' = Chunks!Nulls
        /\ rows' \in Chunks!FirstRows(cursor)'
  BY <1>1, ChunkSameRead
<1>3. /\ Len(rows') \in Nat /\ DOMAIN rows' = 1..Len(rows')
      /\ \A i \in 1..Len(rows') : rows'[i] \in Chunks!Source
  BY <1>1, ChunkFirstRowsAre, ChunkFacts, ChunkOrder DEF Chunks!IInv
<1>4. Chunks!ChunkTyped'
  <2>1. Chunks!Range(rows') \subseteq Chunks!Source
    BY <1>3 DEF Chunks!Range
  <2>2. Chunks!TypeOK'
    BY <1>1, <1>2, <1>3, <2>1 DEF Chunks!IInv, Chunks!ChunkTyped, Chunks!TypeOK
  <2> QED BY <1>1, <1>2, <2>2 DEF Chunks!IInv, Chunks!ChunkTyped
<1>5. Chunks!Decoded' = {}
  BY <1>1 DEF Chunks!Decoded
<1>6. Chunks!RowsHandled' /\ Chunks!CandidateDecoded'
  BY <1>1, <1>2, <1>5
  DEF Chunks!IInv, Chunks!RowsHandled, Chunks!CandidateDecoded, Chunks!InChunk, Chunks!Whole,
      Chunks!HasKey
<1>7. Chunks!Behind(cursor)' /\ Chunks!Behind(todo)'
  BY <1>1, <1>2 DEF Chunks!IInv, Chunks!Behind
<1>8. Chunks!ChunksWhole'
  BY <1>1, <1>2 DEF Chunks!IInv, Chunks!ChunksWhole
<1> QED BY <1>4, <1>6, <1>7, <1>8 DEF Chunks!IInv

\* A decoded of its rows is read.
LEMMA ChunkReadBatchKeeps ==
  ASSUME Chunks!ChunkConstants, Chunks!IInv, Chunks!ReadBatch
  PROVE  Chunks!IInv'
<1>1. PICK n \in 1..ChunkBatchRows :
        /\ got + n <= Len(rows) /\ got' = got + n
        /\ lo' = Chunks!Furthest(lo, Chunks!LastKey(rows[got + n]))
        /\ LET decoded == {rows[i] : i \in (got + 1)..(got + n)}
               group == batch \cup Chunks!Kept(decoded)
           IN /\ early' = early \cup (decoded \ Chunks!Kept(decoded))
              /\ \/ batch' = group /\ UNCHANGED parts
                 \/ batch' = {} /\ parts' = parts \cup ({group} \ {{}})
  BY DEF Chunks!ReadBatch
<1>2. /\ pc = "read" /\ pc' = pc /\ read' = read /\ cursor' = cursor /\ rows' = rows /\ dest' = dest
      /\ todo' = todo /\ tries' = tries
  BY DEF Chunks!ReadBatch
<1>3. Chunks!Source' = Chunks!Source /\ Chunks!Nulls' = Chunks!Nulls
        /\ Chunks!FirstRows(cursor)' = Chunks!FirstRows(cursor)
  BY <1>2, ChunkSameRead
<1>4. /\ rows \in Chunks!FirstRows(cursor) /\ Len(rows) \in Nat /\ DOMAIN rows = 1..Len(rows)
      /\ \A i \in 1..Len(rows) : rows[i] \in Chunks!Source
  BY <1>2, ChunkFirstRowsAre, ChunkFacts, ChunkOrder
  DEF Chunks!IInv, Chunks!RowsHandled, Chunks!InChunk
<1>5. /\ n \in Nat /\ n >= 1 /\ got \in Nat /\ got + n \in 1..Len(rows)
      /\ got + n \in (got + 1)..(got + n)
  BY <1>1, <1>4, ChunkFacts DEF Chunks!IInv, Chunks!ChunkConstants
<1> DEFINE decoded == {rows[i] : i \in (got + 1)..(got + n)}
           group == batch \cup Chunks!Kept(decoded)
<1>6. decoded \subseteq Chunks!Source
  BY <1>4, <1>5
<1>7. Chunks!Decoded' = Chunks!Decoded \cup decoded
  <2>1. 1..(got + n) = (1..got) \cup ((got + 1)..(got + n))
    BY <1>5
  <2> QED BY <1>1, <1>2, <2>1 DEF Chunks!Decoded
<1>8. rows[got + n] \in decoded /\ rows[got + n] \in Chunks!Source
  BY <1>5, <1>6
<1>9. /\ early' = early \cup (decoded \ Chunks!Kept(decoded))
      /\ (batch' = group /\ parts' = parts) \/ (batch' = {} /\ parts' = parts \cup ({group} \ {{}}))
  BY <1>1
<1> HIDE DEF decoded
<1>10. /\ Chunks!Kept(decoded) \subseteq decoded
       /\ \A row \in decoded : row \notin Chunks!Kept(decoded) => ~Chunks!HasKey(row)
  BY DEF Chunks!Kept
<1>11. /\ \A row : row \in batch' \cup UNION parts'
                      <=> row \in batch \cup UNION parts \/ row \in Chunks!Kept(decoded)
       /\ batch' \subseteq Chunks!Source /\ parts' \subseteq SUBSET Chunks!Source
  <2>1. group \subseteq Chunks!Source /\ \A row : row \in group
          <=> row \in batch \/ row \in Chunks!Kept(decoded)
    BY <1>6, <1>10 DEF Chunks!IInv, Chunks!ChunkTyped
  <2> HIDE DEF group
  <2>2. CASE batch' = group /\ parts' = parts
    <3>1. \A row : row \in batch' \cup UNION parts' <=> row \in group \/ row \in UNION parts
      BY <2>2
    <3> QED BY <2>1, <2>2, <3>1 DEF Chunks!IInv, Chunks!ChunkTyped
  <2>3. CASE batch' = {} /\ parts' = parts \cup ({group} \ {{}})
    <3>1. \A row : row \in batch' \cup UNION parts' <=> row \in group \/ row \in UNION parts
      BY <2>3
    <3> QED BY <2>1, <2>3, <3>1 DEF Chunks!IInv, Chunks!ChunkTyped
  <2> QED BY <1>9, <2>2, <2>3 DEF group
<1>12. lo' \in Chunks!Keyed \cup {NoCursor} /\ (lo' # NoCursor => lo' = lo \/ lo' = rows[got + n])
       /\ (lo' = NoCursor => ~Chunks!HasKey(rows[got + n]))
  <2>1. /\ lo \in Chunks!Keyed \cup {NoCursor} /\ NoCursor \notin Chunks!Keyed
        /\ Chunks!HasKey(rows[got + n]) <=> rows[got + n] \in Chunks!Keyed
    BY <1>8, ChunkFacts DEF Chunks!IInv
  <2> QED BY <1>1, <2>1 DEF Chunks!Furthest, Chunks!LastKey
<1>13. Chunks!ChunkTyped'
  <2>1. early' \subseteq Chunks!Source /\ tries' \in Nat
    BY <1>2, <1>6, <1>9 DEF Chunks!IInv, Chunks!ChunkTyped
  <2>2. dest' \cup early' \cup batch' \cup UNION parts' \subseteq Chunks!Source
    BY <1>2, <1>11, <2>1 DEF Chunks!IInv, Chunks!ChunkTyped
  <2>3. got' \in 0..Len(rows')
    BY <1>1, <1>2, <1>4, <1>5
  <2>4. Chunks!TypeOK'
    BY <1>2, <1>3, <1>12, <2>2, <2>3 DEF Chunks!IInv, Chunks!ChunkTyped, Chunks!TypeOK, Chunks!Keyed
  <2> QED BY <1>2, <1>3, <1>11, <2>1, <2>4 DEF Chunks!IInv, Chunks!ChunkTyped
<1>14. Chunks!RowsHandled'
  <2>1. \A row \in early' : ~Chunks!HasKey(row)
    BY <1>9, <1>10 DEF Chunks!IInv, Chunks!RowsHandled
  <2>2. Chunks!Decoded' \subseteq dest' \cup early' \cup batch' \cup UNION parts'
    <3>1. Chunks!Decoded \subseteq dest \cup early \cup batch \cup UNION parts
      BY <1>2 DEF Chunks!IInv, Chunks!RowsHandled, Chunks!InChunk
    <3>2. ASSUME NEW row \in Chunks!Decoded'
          PROVE  row \in dest' \cup early' \/ row \in batch' \cup UNION parts'
      BY <1>2, <1>7, <1>9, <1>11, <3>1, <3>2
    <3> QED BY <3>2
  <2> QED BY <1>2, <1>3, <1>4, <2>1, <2>2 DEF Chunks!RowsHandled, Chunks!HasKey
<1>15. Chunks!CandidateDecoded'
  BY <1>1, <1>2, <1>7, <1>8, <1>12
  DEF Chunks!IInv, Chunks!CandidateDecoded, Chunks!InChunk, Chunks!HasKey
<1>16. Chunks!Behind(cursor)' /\ Chunks!Behind(todo)'
  BY <1>2, <1>3, <1>9 DEF Chunks!IInv, Chunks!Behind
<1>17. Chunks!ChunksWhole'
  BY <1>2, <1>3 DEF Chunks!IInv, Chunks!ChunksWhole
<1> QED BY <1>13, <1>14, <1>15, <1>16, <1>17 DEF Chunks!IInv

\* The insert of one lands.
LEMMA ChunkInsertLandsKeeps ==
  ASSUME Chunks!ChunkConstants, Chunks!IInv, Chunks!InsertLands
  PROVE  Chunks!IInv'
<1>1. PICK group \in parts : parts' = parts \ {group} /\ dest' = dest \cup group
  BY DEF Chunks!InsertLands
<1>2. /\ pc \in {"read", "flush"} /\ pc' = pc /\ read' = read /\ cursor' = cursor /\ rows' = rows
      /\ got' = got /\ lo' = lo /\ batch' = batch /\ early' = early
      /\ todo' = todo /\ tries' = tries
  BY DEF Chunks!InsertLands, Chunks!chunk
<1>3. Chunks!Source' = Chunks!Source /\ Chunks!Nulls' = Chunks!Nulls
        /\ Chunks!FirstRows(cursor)' = Chunks!FirstRows(cursor)
  BY <1>2, ChunkSameRead
<1>4. /\ dest' \subseteq Chunks!Source /\ parts' \subseteq SUBSET Chunks!Source
           /\ dest \subseteq dest'
      /\ dest' \cup UNION parts' = dest \cup UNION parts
  BY <1>1 DEF Chunks!IInv, Chunks!ChunkTyped
<1>5. Chunks!ChunkTyped'
  <2>1. dest' \cup early' \cup batch' \cup UNION parts' \subseteq Chunks!Source
    BY <1>2, <1>4 DEF Chunks!IInv, Chunks!ChunkTyped
  <2>2. Chunks!TypeOK'
    BY <1>2, <1>3, <2>1 DEF Chunks!IInv, Chunks!ChunkTyped, Chunks!TypeOK
  <2> QED BY <1>2, <1>3, <1>4, <2>2 DEF Chunks!IInv, Chunks!ChunkTyped
<1>6. Chunks!Decoded' = Chunks!Decoded
  BY <1>2 DEF Chunks!Decoded
<1>7. Chunks!RowsHandled' /\ Chunks!CandidateDecoded'
  <2>1. Chunks!InChunk' => Chunks!Decoded' \subseteq dest' \cup early' \cup batch' \cup UNION parts'
    BY <1>2, <1>4, <1>6 DEF Chunks!IInv, Chunks!RowsHandled, Chunks!InChunk
  <2> QED BY <1>2, <1>3, <1>6, <2>1
      DEF Chunks!IInv, Chunks!RowsHandled, Chunks!CandidateDecoded, Chunks!InChunk, Chunks!Whole,
          Chunks!HasKey
<1>8. Chunks!Behind(cursor)' /\ Chunks!Behind(todo)'
  BY <1>2, <1>3, <1>4 DEF Chunks!IInv, Chunks!Behind
<1>9. Chunks!ChunksWhole'
  BY <1>2, <1>3, <1>4 DEF Chunks!IInv, Chunks!ChunksWhole
<1> QED BY <1>5, <1>7, <1>8, <1>9 DEF Chunks!IInv

\* The statement has no more rows.
LEMMA ChunkEndStatementKeeps ==
  ASSUME Chunks!ChunkConstants, Chunks!IInv, Chunks!EndStatement
  PROVE  Chunks!IInv'
<1>1. /\ pc = "read" /\ Chunks!Whole /\ pc' = "flush" /\ batch' = {}
      /\ parts' = parts \cup ({batch} \ {{}})
      /\ read' = read /\ cursor' = cursor /\ rows' = rows /\ got' = got /\ lo' = lo
      /\ dest' = dest /\ early' = early /\ todo' = todo /\ tries' = tries
  BY DEF Chunks!EndStatement, Chunks!chunk
<1>2. Chunks!Source' = Chunks!Source /\ Chunks!Nulls' = Chunks!Nulls
        /\ Chunks!FirstRows(cursor)' = Chunks!FirstRows(cursor)
  BY <1>1, ChunkSameRead
<1>3. /\ parts' \subseteq SUBSET Chunks!Source /\ UNION parts' = batch \cup UNION parts
  BY <1>1 DEF Chunks!IInv, Chunks!ChunkTyped
<1>4. Chunks!ChunkTyped'
  <2>1. dest' \cup early' \cup batch' \cup UNION parts' \subseteq Chunks!Source
    BY <1>1, <1>3 DEF Chunks!IInv, Chunks!ChunkTyped
  <2>2. Chunks!TypeOK'
    BY <1>1, <1>2, <2>1 DEF Chunks!IInv, Chunks!ChunkTyped, Chunks!TypeOK
  <2> QED BY <1>1, <1>2, <1>3, <2>2 DEF Chunks!IInv, Chunks!ChunkTyped
<1>5. Chunks!Decoded' = Chunks!Decoded
  BY <1>1 DEF Chunks!Decoded
<1>6. Chunks!RowsHandled' /\ Chunks!CandidateDecoded'
  <2>1. Chunks!Decoded' \subseteq dest' \cup early' \cup batch' \cup UNION parts'
    BY <1>1, <1>3, <1>5 DEF Chunks!IInv, Chunks!RowsHandled, Chunks!InChunk
  <2> QED BY <1>1, <1>2, <1>5, <2>1
      DEF Chunks!IInv, Chunks!RowsHandled, Chunks!CandidateDecoded, Chunks!InChunk, Chunks!Whole,
          Chunks!HasKey
<1>7. Chunks!Behind(cursor)' /\ Chunks!Behind(todo)'
  BY <1>1, <1>2 DEF Chunks!IInv, Chunks!Behind
<1>8. Chunks!ChunksWhole'
  BY <1>1, <1>2 DEF Chunks!IInv, Chunks!ChunksWhole
<1> QED BY <1>4, <1>6, <1>7, <1>8 DEF Chunks!IInv

\* Every insert has its answer: the chunk was empty, had no key to go on
\* from, or is to be marked.
LEMMA ChunkEndChunkKeeps ==
  ASSUME Chunks!ChunkConstants, Chunks!IInv, Chunks!EndChunk
  PROVE  Chunks!IInv'
<1>1. /\ pc = "flush" /\ parts = {}
      /\ read' = read /\ cursor' = cursor /\ rows' = rows /\ got' = got /\ lo' = lo
      /\ batch' = batch /\ parts' = parts
      /\ dest' = dest /\ early' = early /\ todo' = todo /\ tries' = tries
  BY DEF Chunks!EndChunk, Chunks!AllAnswered, Chunks!chunk, Chunks!sends
<1>2. \/ got = 0 /\ pc' = "ok"
      \/ got # 0 /\ lo = NoCursor /\ pc' = "refused"
      \/ got # 0 /\ lo # NoCursor /\ pc' = "mark"
  BY DEF Chunks!EndChunk
<1>3. Chunks!Source' = Chunks!Source /\ Chunks!Nulls' = Chunks!Nulls
        /\ Chunks!FirstRows(cursor)' = Chunks!FirstRows(cursor)
  BY <1>1, ChunkSameRead
<1>4. batch = {} /\ todo = cursor
  BY <1>1 DEF Chunks!IInv, Chunks!RowsHandled, Chunks!ChunkTyped, Chunks!TypeOK
<1>5. Chunks!ChunkTyped'
  <2>1. pc' \in {"ok", "refused", "mark"}
    BY <1>2
  <2>2. Chunks!TypeOK'
    BY <1>1, <1>3, <1>4, <2>1 DEF Chunks!IInv, Chunks!ChunkTyped, Chunks!TypeOK, Chunks!Over
  <2> QED BY <1>1, <1>3, <2>2 DEF Chunks!IInv, Chunks!ChunkTyped
<1>6. Chunks!Decoded' = Chunks!Decoded
  BY <1>1 DEF Chunks!Decoded
<1>7. Chunks!RowsHandled' /\ Chunks!CandidateDecoded'
  BY <1>1, <1>2, <1>3, <1>6
  DEF Chunks!IInv, Chunks!RowsHandled, Chunks!CandidateDecoded, Chunks!InChunk, Chunks!Whole,
      Chunks!HasKey
<1>8. Chunks!Behind(cursor)' /\ Chunks!Behind(todo)'
  BY <1>1, <1>3 DEF Chunks!IInv, Chunks!Behind
<1>9. pc' = "ok" => Chunks!Keyed \subseteq dest
        /\ (read.nulls_first => Chunks!Nulls \subseteq dest \cup early)
  <2>1. pc' = "ok" => got < read.limit
    BY <1>2, ChunkFacts DEF Chunks!IInv
  <2> QED BY <1>1, <2>1, ChunkShortIsLast
<1>10. pc' = "refused" => Chunks!Nulls # {}
  <2> SUFFICES ASSUME pc' = "refused" PROVE Chunks!Nulls # {}
    OBVIOUS
  <2>1. got # 0 /\ got \in Nat /\ lo = NoCursor
    BY <1>2, ChunkFacts DEF Chunks!IInv
  <2>2. ~Chunks!HasKey(rows[got])
    BY <1>1, <2>1 DEF Chunks!IInv, Chunks!CandidateDecoded, Chunks!InChunk
  <2>3. rows \in Chunks!FirstRows(cursor) /\ got = Len(rows)
          /\ cursor \in Chunks!Keyed \cup {NoCursor}
    BY <1>1, ChunkFacts DEF Chunks!IInv, Chunks!RowsHandled, Chunks!InChunk, Chunks!Whole
  <2>4. rows[got] \in Chunks!Source
    BY <2>1, <2>3, ChunkFirstRowsAre, ChunkOrder DEF Chunks!IInv
  <2> QED BY <2>2, <2>4, ChunkFacts DEF Chunks!IInv, Chunks!Source
<1>11. Chunks!ChunksWhole'
  BY <1>1, <1>3, <1>9, <1>10 DEF Chunks!IInv, Chunks!ChunksWhole
<1> QED BY <1>5, <1>7, <1>8, <1>11 DEF Chunks!IInv

\* The marker moves to the chunk's last key.
LEMMA ChunkMarkKeeps ==
  ASSUME Chunks!ChunkConstants, Chunks!IInv, Chunks!Mark
  PROVE  Chunks!IInv'
<1>1. /\ pc = "mark" /\ todo' = lo /\ cursor' = lo
      /\ read' = read /\ rows' = rows /\ got' = got /\ lo' = lo
      /\ batch' = batch /\ parts' = parts
      /\ dest' = dest /\ early' = early /\ tries' = tries
  BY DEF Chunks!Mark, Chunks!chunk, Chunks!sends
<1>2. (got < read.limit /\ pc' = "ok") \/ (~(got < read.limit) /\ pc' = "statement")
  BY DEF Chunks!Mark
<1>3. Chunks!Source' = Chunks!Source /\ Chunks!Nulls' = Chunks!Nulls
  BY <1>1, ChunkSameRead
<1>4. parts = {} /\ lo \in Chunks!Keyed /\ Chunks!Behind(lo)
  BY <1>1, ChunkCandidateCovers DEF Chunks!IInv, Chunks!ChunkTyped, Chunks!TypeOK
<1>5. Chunks!ChunkTyped'
  <2>1. pc' \in {"ok", "statement"}
    BY <1>2
  <2>2. Chunks!TypeOK'
    BY <1>1, <1>3, <1>4, <2>1
    DEF Chunks!IInv, Chunks!ChunkTyped, Chunks!TypeOK, Chunks!Over, Chunks!Keyed
  <2> QED BY <1>1, <1>3, <2>2 DEF Chunks!IInv, Chunks!ChunkTyped
<1>6. Chunks!RowsHandled' /\ Chunks!CandidateDecoded'
  BY <1>1, <1>2
  DEF Chunks!IInv, Chunks!RowsHandled, Chunks!CandidateDecoded, Chunks!InChunk, Chunks!HasKey
<1>7. Chunks!Behind(cursor)' /\ Chunks!Behind(todo)'
  BY <1>1, <1>3, <1>4 DEF Chunks!Behind
<1>8. pc' = "ok" => Chunks!Keyed \subseteq dest
        /\ (read.nulls_first => Chunks!Nulls \subseteq dest \cup early)
  <2>1. pc' = "ok" => got < read.limit
    BY <1>2
  <2> QED BY <1>1, <1>4, <2>1, ChunkShortIsLast
<1>9. Chunks!ChunksWhole'
  BY <1>1, <1>2, <1>3, <1>7, <1>8 DEF Chunks!ChunksWhole, Chunks!Behind
<1> QED BY <1>5, <1>6, <1>7, <1>9 DEF Chunks!IInv

\* A failure leaves the marker where it is, or where it was being moved to.
LEMMA ChunkFailsKeeps ==
  ASSUME Chunks!ChunkConstants, Chunks!IInv, Chunks!Fails
  PROVE  Chunks!IInv'
<1>1. /\ pc' = "failed" /\ batch' = {} /\ parts' = {}
      /\ read' = read /\ rows' = rows /\ got' = got /\ lo' = lo /\ cursor' = cursor
      /\ early' = early /\ tries' = tries
      /\ todo' = todo \/ (pc = "mark" /\ todo' = lo)
  BY DEF Chunks!Fails, Chunks!chunk
<1>2. PICK applied \in SUBSET parts : dest' = dest \cup UNION applied
  BY DEF Chunks!Fails
<1>3. Chunks!Source' = Chunks!Source /\ Chunks!Nulls' = Chunks!Nulls
  BY <1>1, ChunkSameRead
<1>4. dest \subseteq dest' /\ dest' \subseteq Chunks!Source
  BY <1>2 DEF Chunks!IInv, Chunks!ChunkTyped
<1>5. Chunks!Behind(todo)' /\ todo' \in Chunks!Keyed \cup {NoCursor}
  <2>1. CASE todo' = todo
    BY <1>1, <1>3, <1>4, <2>1, ChunkFacts DEF Chunks!IInv, Chunks!Behind
  <2>2. CASE pc = "mark" /\ todo' = lo
    BY <1>1, <1>3, <1>4, <2>2, ChunkCandidateCovers DEF Chunks!Behind
  <2> QED BY <1>1, <2>1, <2>2
<1>6. Chunks!ChunkTyped'
  <2>1. dest' \cup early' \cup batch' \cup UNION parts' \subseteq Chunks!Source
    BY <1>1, <1>4 DEF Chunks!IInv, Chunks!ChunkTyped
  <2>2. Chunks!TypeOK'
    BY <1>1, <1>3, <1>5, <2>1
    DEF Chunks!IInv, Chunks!ChunkTyped, Chunks!TypeOK, Chunks!Over, Chunks!Keyed
  <2> QED BY <1>1, <1>3, <1>4, <2>2 DEF Chunks!IInv, Chunks!ChunkTyped
<1>7. Chunks!RowsHandled' /\ Chunks!CandidateDecoded'
  BY <1>1 DEF Chunks!IInv, Chunks!RowsHandled, Chunks!CandidateDecoded, Chunks!InChunk, Chunks!HasKey
<1>8. Chunks!Behind(cursor)'
  BY <1>1, <1>3, <1>4 DEF Chunks!IInv, Chunks!Behind
<1>9. Chunks!ChunksWhole'
  BY <1>1, <1>3, <1>5 DEF Chunks!ChunksWhole, Chunks!Behind
<1> QED BY <1>5, <1>6, <1>7, <1>8, <1>9 DEF Chunks!IInv

\* A run resumes from the marker.
LEMMA ChunkResumeKeeps ==
  ASSUME Chunks!ChunkConstants, Chunks!IInv, Chunks!Resume
  PROVE  Chunks!IInv'
<1>1. /\ pc = "failed" /\ pc' = "statement" /\ cursor' = todo /\ tries' = tries + 1
      /\ read' = read /\ rows' = rows /\ got' = got /\ lo' = lo
      /\ batch' = batch /\ parts' = parts
      /\ dest' = dest /\ early' = early /\ todo' = todo
  BY DEF Chunks!Resume, Chunks!chunk, Chunks!sends
<1>2. Chunks!Source' = Chunks!Source /\ Chunks!Nulls' = Chunks!Nulls
  BY <1>1, ChunkSameRead
<1>3. Chunks!ChunkTyped'
  <2>1. Chunks!TypeOK'
    BY <1>1, <1>2 DEF Chunks!IInv, Chunks!ChunkTyped, Chunks!TypeOK
  <2> QED BY <1>1, <1>2, <2>1 DEF Chunks!IInv, Chunks!ChunkTyped
<1>4. Chunks!RowsHandled' /\ Chunks!CandidateDecoded'
  BY <1>1 DEF Chunks!IInv, Chunks!RowsHandled, Chunks!CandidateDecoded, Chunks!InChunk, Chunks!HasKey
<1>5. Chunks!Behind(cursor)' /\ Chunks!Behind(todo)' /\ Chunks!ChunksWhole'
  BY <1>1, <1>2 DEF Chunks!IInv, Chunks!Behind, Chunks!ChunksWhole
<1> QED BY <1>3, <1>4, <1>5 DEF Chunks!IInv

\* The invariant holds when nothing happens;
LEMMA ChunkUnchanged ==
  ASSUME Chunks!IInv, UNCHANGED Chunks!vars
  PROVE  Chunks!IInv'
<1>1. /\ pc' = pc /\ cursor' = cursor /\ tries' = tries
      /\ read' = read /\ rows' = rows /\ got' = got /\ lo' = lo
      /\ batch' = batch /\ parts' = parts
      /\ dest' = dest /\ early' = early /\ todo' = todo
  BY DEF Chunks!vars, Chunks!chunk, Chunks!sends
<1>2. Chunks!Source' = Chunks!Source /\ Chunks!Nulls' = Chunks!Nulls
        /\ Chunks!FirstRows(cursor)' = Chunks!FirstRows(cursor)
  BY <1>1, ChunkSameRead
<1>3. Chunks!ChunkTyped'
  <2>1. Chunks!TypeOK'
    BY <1>1, <1>2 DEF Chunks!IInv, Chunks!ChunkTyped, Chunks!TypeOK
  <2> QED BY <1>1, <1>2, <2>1 DEF Chunks!IInv, Chunks!ChunkTyped
<1>4. Chunks!Decoded' = Chunks!Decoded
  BY <1>1 DEF Chunks!Decoded
<1>5. Chunks!RowsHandled' /\ Chunks!CandidateDecoded'
  BY <1>1, <1>2, <1>4
  DEF Chunks!IInv, Chunks!RowsHandled, Chunks!CandidateDecoded, Chunks!InChunk, Chunks!Whole,
      Chunks!HasKey
<1>6. Chunks!Behind(cursor)' /\ Chunks!Behind(todo)' /\ Chunks!ChunksWhole'
  BY <1>1, <1>2 DEF Chunks!IInv, Chunks!Behind, Chunks!ChunksWhole
<1> QED BY <1>3, <1>5, <1>6 DEF Chunks!IInv

\* it holds at the start,
LEMMA ChunkInitInv ==
  ASSUME Chunks!ChunkConstants, Chunks!Init
  PROVE  Chunks!IInv
<1>1. /\ read \in ChunkedReads /\ pc = "statement" /\ cursor = NoCursor /\ todo = NoCursor
      /\ rows = <<>> /\ got = 0 /\ lo = NoCursor
      /\ batch = {} /\ parts = {} /\ dest = {} /\ early = {} /\ tries = 1
  BY DEF Chunks!Init
<1>2. Len(rows) = 0 /\ Chunks!Range(rows) = {}
  BY <1>1 DEF Chunks!Range
<1>3. Chunks!ChunkTyped
  <2>1. Chunks!TypeOK
    BY <1>1, <1>2 DEF Chunks!TypeOK
  <2> QED BY <1>1, <2>1 DEF Chunks!ChunkTyped
<1>4. Chunks!RowsHandled /\ Chunks!CandidateDecoded /\ Chunks!Behind(cursor) /\ Chunks!Behind(todo)
        /\ Chunks!ChunksWhole
  BY <1>1
  DEF Chunks!RowsHandled, Chunks!CandidateDecoded, Chunks!InChunk, Chunks!Behind, Chunks!ChunksWhole
<1> QED BY <1>3, <1>4 DEF Chunks!IInv

\* and every step keeps it.
LEMMA ChunkNextKeeps ==
  ASSUME Chunks!ChunkConstants, Chunks!IInv, Chunks!Next
  PROVE  Chunks!IInv'
<1>1. CASE Chunks!Loop
  BY <1>1, ChunkStatementKeeps, ChunkReadBatchKeeps, ChunkEndStatementKeeps, ChunkInsertLandsKeeps,
     ChunkEndChunkKeeps,
     ChunkMarkKeeps DEF Chunks!Loop
<1>2. CASE Chunks!Fails \/ Chunks!Resume
  BY <1>2, ChunkFailsKeeps, ChunkResumeKeeps
<1>3. CASE Chunks!Returned
  BY <1>3, ChunkUnchanged DEF Chunks!Returned
<1> QED BY <1>1, <1>2, <1>3 DEF Chunks!Next

\* A chunked read's inductive invariant holds in every state
\* (transfer_keyset_mysql and its analogues).
THEOREM ChunkInvariant == Spec => [](which = "chunks" => Chunks!IInv)
<1>1. Init => (which = "chunks" => Chunks!IInv)
  BY Begins, ChunkInstance, ChunkInitInv
<1>2. (which = "chunks" => Chunks!IInv) /\ [Next]_readsVars => (which = "chunks" => Chunks!IInv)'
  BY Goes, ChunkInstance, ChunkNextKeeps, ChunkUnchanged
<1> QED BY <1>1, <1>2, PTL DEF Spec

\* A marker has nothing behind it that is not in the destination, and a read
\* that ends well has read every row with a key (persist_chunk_cursor, reap,
\* last_int_key).
THEOREM ChunksAreWhole == Spec => []ChunksWhole
<1>1. (which = "chunks" => Chunks!IInv) => ChunksWhole
  BY DEF ChunksWhole, Chunks!IInv, Chunks!ChunkTyped
<1> QED BY <1>1, ChunkInvariant, PTL

-----------------------------------------------------------------------------
(* The key reconciliation.                                                 *)

\* The sets the invariant speaks of, element by element.
LEMMA RecElements ==
  /\ \A rs, k : k \in Rec!InWindow(rs) <=> \E r \in rs : r.in /\ r.k = k
  /\ \A k : Rec!RowOf(k).k = k /\ Rec!RowOf(k).w = source[k].w /\ Rec!RowOf(k).in = source[k].in
  /\ Rec!NoRow.w = 0 /\ Rec!NoRow.in = FALSE /\ Rec!NoBatch.w = 0 /\ Rec!NoBatch.rows = {}
<1>1. ASSUME NEW rs, NEW k
      PROVE  k \in Rec!InWindow(rs) <=> \E r \in rs : r.in /\ r.k = k
  BY DEF Rec!InWindow
<1> QED BY <1>1 DEF Rec!RowOf, Rec!NoRow, Rec!NoBatch

\* A side's text tells keys apart, and two renderings have no text in common.
LEMMA RecTexts ==
  ASSUME Rec!ReconcileConstants
  PROVE  /\ \A j, k \in ReconcileKeys : Rec!DestText(j) = Rec!DestText(k) => j = k
         /\ request.alike => \A k : Rec!DestText(k) = k
         /\ ~request.alike => \A k \in ReconcileKeys : Rec!DestText(k) \notin ReconcileKeys
         /\ \A k : Rec!SourceText(k) = k
<1>1. \A k \in ReconcileKeys : k \in Nat \ {0}
  BY DEF Rec!ReconcileConstants
<1> QED BY <1>1 DEF Rec!DestText, Rec!SourceText

\* What the invariant says of rows.
LEMMA RecRows ==
  ASSUME Rec!IInv
  PROVE  /\ \A k \in ReconcileKeys : source[k].w \in Nat /\ source[k].in \in BOOLEAN
              /\ source[k].w <= clock
         /\ clock \in Nat /\ cursor \in Nat /\ cursor <= clock /\ 1 <= cursor
         /\ \A r \in dest \cup batch.rows : r.k \in ReconcileKeys /\ r.w \in Nat /\ r.w >= 1
              /\ r.w <= clock
  BY DEF Rec!IInv, Rec!TypeOK

\* The source changes a row.
LEMMA RecChangeRowKeeps ==
  ASSUME Rec!ReconcileConstants, Rec!IInv, NEW k \in ReconcileKeys, Rec!ChangeRow(k)
  PROVE  Rec!IInv'
<1> USE DEF Rec!ChangeRow, Rec!syncs, Rec!found
<1>1. PICK in \in BOOLEAN :
        /\ in => k \notin left
        /\ source' = [source EXCEPT ![k] = [w |-> clock + 1, in |-> in]]
        /\ left' = IF source[k].in /\ ~in THEN left \cup {k} ELSE left
  OBVIOUS
<1>2. /\ clock' = clock + 1 /\ clock < ReconcileChanges /\ ReconcileChanges \in Nat
      /\ dest' = dest /\ cursor' = cursor /\ batch' = batch /\ pc' = pc /\ theirs' = theirs
      /\ ours' = ours /\ orphans' = orphans /\ phantom' = phantom /\ request' = request
      /\ faults' = faults
  BY DEF Rec!ReconcileConstants
<1>3. /\ source' \in [ReconcileKeys -> [w : Nat, in : BOOLEAN]]
      /\ source'[k].w = clock + 1 /\ (source'[k].in <=> in)
      /\ \A j \in ReconcileKeys : j # k => source'[j] = source[j]
  BY <1>1, RecRows DEF Rec!IInv
<1>4. left \subseteq left' /\ \A j \in left' : j \in left \/ (j = k /\ source[k].in /\ ~in)
  BY <1>1
<1>5. Rec!TypeOK'
  BY <1>2, <1>3, RecRows DEF Rec!IInv, Rec!TypeOK
<1>6. \A j \in ReconcileKeys : source[j].in => j \in left' \/ source'[j].in
  BY <1>1, <1>3
<1>7. Rec!LeftStaysOut'
  BY <1>1, <1>2, <1>3, <1>4, <1>6, RecRows DEF Rec!IInv, Rec!LeftStaysOut
<1>8. Rec!BatchNewer'
  <2> SUFFICES ASSUME batch # Rec!NoBatch
               PROVE  Rec!BatchNewer'
    BY <1>2 DEF Rec!BatchNewer
  <2>1. batch.w \in cursor..(clock + 1) /\ batch.w <= clock
    BY RecRows DEF Rec!IInv, Rec!BatchNewer
  <2>2. \A r \in batch.rows : r.w > cursor /\ (source'[r.k].w > 0 => source'[r.k].w > cursor)
    BY <1>3, RecRows DEF Rec!IInv, Rec!BatchNewer, Rec!Live
  <2>3. \A j \in ReconcileKeys : source'[j].w > cursor /\ source'[j].w <= batch.w =>
          j # k /\ source'[j] = source[j] /\ Rec!RowOf(j)' = Rec!RowOf(j)
    BY <1>3, <2>1, RecRows DEF Rec!RowOf
  <2>4. \A j \in ReconcileKeys : source'[j].w > cursor /\ source'[j].w <= batch.w
          => Rec!RowOf(j)' \in batch.rows
    BY <2>3 DEF Rec!IInv, Rec!BatchNewer
  <2> QED BY <1>2, <2>1, <2>2, <2>4 DEF Rec!BatchNewer, Rec!Live
<1>9. Rec!CopiedStays'
  BY <1>2, <1>3, RecRows DEF Rec!IInv, Rec!CopiedStays, Rec!Live, Rec!RowOf
<1>10. Rec!OrphansLeft'
  BY <1>2, <1>4, <1>6 DEF Rec!IInv, Rec!OrphansLeft, Rec!DestText
<1>11. Rec!PhantomsFound' /\ Rec!NothingToDelete'
  BY <1>2, <1>4 DEF Rec!IInv, Rec!PhantomsFound, Rec!NothingToDelete, Rec!InWindow
<1> QED BY <1>2, <1>3, <1>5, <1>7, <1>8, <1>9, <1>10, <1>11 DEF Rec!IInv

\* The source loses a row.
LEMMA RecDeleteRowKeeps ==
  ASSUME Rec!ReconcileConstants, Rec!IInv, NEW k \in ReconcileKeys, Rec!DeleteRow(k)
  PROVE  Rec!IInv'
<1> USE DEF Rec!DeleteRow, Rec!syncs, Rec!found
<1>1. /\ source' = [source EXCEPT ![k] = Rec!NoRow] /\ left' = left \cup {k}
      /\ clock' = clock
      /\ dest' = dest /\ cursor' = cursor /\ batch' = batch /\ pc' = pc /\ theirs' = theirs
      /\ ours' = ours /\ orphans' = orphans /\ phantom' = phantom /\ request' = request
      /\ faults' = faults
  OBVIOUS
<1>2. /\ source' \in [ReconcileKeys -> [w : Nat, in : BOOLEAN]]
      /\ source'[k].w = 0 /\ source'[k].in = FALSE
      /\ \A j \in ReconcileKeys : j # k => source'[j] = source[j]
  BY <1>1 DEF Rec!IInv, Rec!NoRow
<1>3. Rec!TypeOK'
  BY <1>1, <1>2, RecRows DEF Rec!IInv, Rec!TypeOK
<1>4. \A j \in ReconcileKeys : source[j].in => j \in left' \/ source'[j].in
  BY <1>1, <1>2
<1>5. Rec!LeftStaysOut'
  BY <1>1, <1>2, <1>4, RecRows DEF Rec!IInv, Rec!LeftStaysOut
<1>6. Rec!BatchNewer'
  <2> SUFFICES ASSUME batch # Rec!NoBatch
               PROVE  Rec!BatchNewer'
    BY <1>1 DEF Rec!BatchNewer
  <2>1. \A r \in batch.rows : r.w > cursor /\ (source'[r.k].w > 0 => source'[r.k].w > cursor)
    BY <1>2, RecRows DEF Rec!IInv, Rec!BatchNewer, Rec!Live
  <2>2. \A j \in ReconcileKeys : source'[j].w > cursor
          => j # k /\ source'[j] = source[j] /\ Rec!RowOf(j)' = Rec!RowOf(j)
    BY <1>2, RecRows DEF Rec!RowOf
  <2>3. \A j \in ReconcileKeys : source'[j].w > cursor /\ source'[j].w <= batch.w
          => Rec!RowOf(j)' \in batch.rows
    BY <2>2 DEF Rec!IInv, Rec!BatchNewer
  <2> QED BY <1>1, <2>1, <2>3 DEF Rec!IInv, Rec!BatchNewer, Rec!Live
<1>7. Rec!CopiedStays'
  BY <1>1, <1>2, RecRows DEF Rec!IInv, Rec!CopiedStays, Rec!Live, Rec!RowOf
<1>8. Rec!OrphansLeft'
  BY <1>1, <1>4 DEF Rec!IInv, Rec!OrphansLeft, Rec!DestText
<1>9. Rec!PhantomsFound' /\ Rec!NothingToDelete'
  BY <1>1 DEF Rec!IInv, Rec!PhantomsFound, Rec!NothingToDelete, Rec!InWindow
<1> QED BY <1>1, <1>2, <1>3, <1>5, <1>6, <1>7, <1>8, <1>9 DEF Rec!IInv

\* A sync reads what is newer than its cursor.
LEMMA RecSyncReadsKeeps ==
  ASSUME Rec!ReconcileConstants, Rec!IInv, Rec!SyncReads
  PROVE  Rec!IInv'
<1> USE DEF Rec!SyncReads, Rec!sides, Rec!found
<1>1. /\ batch = Rec!NoBatch /\ clock > cursor
      /\ batch' = [w |-> clock,
           rows |-> {Rec!RowOf(k) : k \in {j \in ReconcileKeys : source[j].w > cursor}}]
      /\ source' = source /\ clock' = clock /\ left' = left
      /\ dest' = dest /\ cursor' = cursor /\ pc' = pc /\ theirs' = theirs
      /\ ours' = ours /\ orphans' = orphans /\ phantom' = phantom /\ request' = request
      /\ faults' = faults
  OBVIOUS
<1>2. /\ batch'.w = clock
      /\ \A k \in ReconcileKeys : source[k].w > cursor => Rec!RowOf(k) \in batch'.rows
      /\ \A r \in batch'.rows : /\ r.k \in ReconcileKeys /\ r.w = source[r.k].w
           /\ r.in = source[r.k].in
                                /\ source[r.k].w > cursor
  BY <1>1 DEF Rec!RowOf
<1>3. Rec!TypeOK'
  BY <1>1, <1>2, RecRows DEF Rec!IInv, Rec!TypeOK
<1>4. Rec!LeftStaysOut'
  BY <1>1, <1>2 DEF Rec!IInv, Rec!LeftStaysOut
<1>5. Rec!BatchNewer'
  BY <1>1, <1>2, RecRows DEF Rec!BatchNewer, Rec!Live, Rec!RowOf
<1>6. Rec!CopiedStays'
  BY <1>1 DEF Rec!IInv, Rec!CopiedStays, Rec!Live, Rec!RowOf
<1>7. Rec!OrphansLeft'
  BY <1>1 DEF Rec!IInv, Rec!OrphansLeft, Rec!DestText
<1>8. Rec!PhantomsFound' /\ Rec!NothingToDelete'
  BY <1>1, <1>2 DEF Rec!IInv, Rec!PhantomsFound, Rec!NothingToDelete, Rec!InWindow, Rec!LeftStaysOut
<1> QED BY <1>1, <1>3, <1>4, <1>5, <1>6, <1>7, <1>8 DEF Rec!IInv

\* A sync writes what it read.
LEMMA RecSyncWritesKeeps ==
  ASSUME Rec!ReconcileConstants, Rec!IInv, Rec!SyncWrites
  PROVE  Rec!IInv'
<1> DEFINE newKeys == {r.k : r \in batch.rows}
<1> USE DEF Rec!SyncWrites, Rec!sides, Rec!found
<1>1. /\ batch # Rec!NoBatch /\ batch' = Rec!NoBatch /\ cursor' = batch.w
      /\ dest' = batch.rows \cup {r \in dest : request.merges => r.k \notin newKeys}
      /\ source' = source /\ clock' = clock /\ left' = left
      /\ pc' = pc /\ theirs' = theirs
      /\ ours' = ours /\ orphans' = orphans /\ phantom' = phantom /\ request' = request
      /\ faults' = faults
  OBVIOUS
<1>2. batch'.rows = {} /\ batch.w \in Nat /\ cursor <= batch.w /\ batch.w <= clock
  BY <1>1, RecElements, RecRows DEF Rec!IInv, Rec!BatchNewer
<1>3. \A r \in dest' : r \in dest \cup batch.rows
  BY <1>1
<1>4. Rec!TypeOK'
  BY <1>1, <1>2, <1>3, RecRows DEF Rec!IInv, Rec!TypeOK
<1>5. Rec!LeftStaysOut'
  BY <1>1, <1>2, <1>3 DEF Rec!IInv, Rec!LeftStaysOut
<1>6. Rec!BatchNewer'
  BY <1>1 DEF Rec!BatchNewer
<1>7. ASSUME NEW k \in ReconcileKeys, Rec!Live(k), source[k].w <= batch.w
      PROVE  Rec!RowOf(k) \in dest'
  <2>1. CASE source[k].w > cursor
    BY <1>1, <1>7, <2>1 DEF Rec!IInv, Rec!BatchNewer
  <2>2. CASE source[k].w <= cursor
    <3>1. Rec!RowOf(k) \in dest /\ Rec!RowOf(k).k = k
      BY <1>7, <2>2 DEF Rec!IInv, Rec!CopiedStays, Rec!RowOf
    <3>2. k \notin newKeys
      BY <1>1, <1>7, <2>2, RecRows DEF Rec!IInv, Rec!BatchNewer
    <3> QED BY <1>1, <3>1, <3>2
  <2> QED BY <2>1, <2>2, RecRows, <1>2
<1>8. Rec!CopiedStays'
  BY <1>1, <1>7 DEF Rec!CopiedStays, Rec!Live, Rec!RowOf
<1>9. Rec!OrphansLeft'
  BY <1>1 DEF Rec!IInv, Rec!OrphansLeft, Rec!DestText
<1>10. Rec!PhantomsFound' /\ Rec!NothingToDelete'
  <2>1. Rec!InWindow(dest)' \cap phantom \subseteq Rec!InWindow(dest)
    BY <1>3, RecElements DEF Rec!IInv, Rec!PhantomsFound, Rec!InWindow
  <2> QED BY <1>1, <1>2, <2>1 DEF Rec!IInv, Rec!PhantomsFound, Rec!NothingToDelete
<1> QED BY <1>1, <1>4, <1>5, <1>6, <1>8, <1>9, <1>10 DEF Rec!IInv

\* The destination's keys are read, then the source's.
LEMMA RecReadKeeps ==
  ASSUME Rec!ReconcileConstants, Rec!IInv, Rec!Read
  PROVE  Rec!IInv'
<1> USE DEF Rec!Read, Rec!sides, Rec!syncs
<1>1. /\ source' = source /\ clock' = clock /\ left' = left /\ dest' = dest
      /\ cursor' = cursor /\ batch' = batch /\ orphans' = orphans /\ request' = request
      /\ faults' = faults
      /\ \/ /\ pc = "start" /\ pc' = "source" /\ Rec!ReadDestKeys /\ ours' = ours
            /\ phantom' = {k \in ReconcileKeys : ~Rec!Live(k) /\ k \in left
                 /\ k \notin {r.k : r \in batch.rows}}
         \/ /\ pc = "source" /\ pc' = "diff" /\ Rec!ReadSourceKeys /\ theirs' = theirs
            /\ phantom' = phantom
  BY DEF Rec!ReadSides
<1>2. pc' \in {"source", "diff"}
  BY <1>1
<1>3. Rec!LeftStaysOut' /\ Rec!BatchNewer' /\ Rec!CopiedStays'
  BY <1>1 DEF Rec!IInv, Rec!LeftStaysOut, Rec!BatchNewer, Rec!CopiedStays, Rec!Live, Rec!RowOf
<1>4. \A k \in Rec!InWindow(dest) : k \in ReconcileKeys /\ (k \in left \/ source[k].in)
  BY RecElements, RecRows DEF Rec!IInv, Rec!LeftStaysOut
<1>5. CASE pc = "start"
  <2>1. theirs' = {Rec!DestText(k) : k \in Rec!InWindow(dest)} /\ ours' = ours /\ pc' = "source"
    BY <1>1, <1>5 DEF Rec!ReadDestKeys
  <2>2. Rec!OrphansLeft'
    <3>1. theirs' \subseteq {Rec!DestText(k) : k \in ReconcileKeys}
      BY <1>4, <2>1
    <3>2. \A k \in ReconcileKeys : Rec!DestText(k) \in theirs' => k \in left \/ source[k].in
      <4> SUFFICES ASSUME NEW k \in ReconcileKeys, Rec!DestText(k) \in theirs'
                   PROVE  k \in left \/ source[k].in
        OBVIOUS
      <4>1. PICK j \in Rec!InWindow(dest) : Rec!DestText(j) = Rec!DestText(k)
        BY <2>1
      <4>2. j = k
        BY <1>4, <4>1, RecTexts
      <4> QED BY <1>4, <4>1, <4>2
    <3> QED BY <1>1, <2>1, <3>1, <3>2 DEF Rec!IInv, Rec!OrphansLeft, Rec!DestText
  <2>3. Rec!PhantomsFound'
    <3>1. phantom' \subseteq left /\ \A r \in batch.rows : r.k \notin phantom'
      BY <1>1, <1>5
    <3>2. request.alike => Rec!InWindow(dest) \subseteq theirs'
      BY <2>1, RecTexts
    <3> QED BY <1>1, <2>1, <3>1, <3>2 DEF Rec!PhantomsFound, Rec!InWindow
  <2>4. Rec!TypeOK'
    <3>1. orphans' \subseteq theirs'
      BY <1>1, <1>5 DEF Rec!IInv, Rec!NothingToDelete
    <3> QED BY <1>1, <3>1 DEF Rec!IInv, Rec!TypeOK
  <2>5. Rec!NothingToDelete'
    BY <1>1, <1>5 DEF Rec!IInv, Rec!NothingToDelete
  <2> QED BY <1>1, <1>2, <1>3, <2>1, <2>2, <2>3, <2>4, <2>5 DEF Rec!IInv
<1>6. CASE pc = "source"
  <2>1. \A k : k \in ours' <=> \E j \in ReconcileKeys : source[j].in /\ k = j
    <3>1. ours' = {Rec!SourceText(k) : k \in Rec!InWindow({Rec!RowOf(k) : k \in ReconcileKeys})}
      BY <1>1, <1>6 DEF Rec!ReadSourceKeys
    <3>2. \A k : k \in Rec!InWindow({Rec!RowOf(j) : j \in ReconcileKeys})
            <=> \E j \in ReconcileKeys : source[j].in /\ k = j
      BY RecElements
    <3>3. \A k : k \in ours' <=> k \in Rec!InWindow({Rec!RowOf(j) : j \in ReconcileKeys})
      <4>1. \A k : Rec!SourceText(k) = k
        BY RecTexts
      <4> QED BY <3>1, <4>1
    <3> QED BY <3>2, <3>3
  <2>2. theirs' = theirs /\ pc' = "diff" /\ phantom' = phantom
    BY <1>1, <1>6
  <2>3. Rec!OrphansLeft'
    BY <1>1, <1>6, <2>1, <2>2 DEF Rec!IInv, Rec!OrphansLeft, Rec!DestText
  <2>4. Rec!PhantomsFound'
    <3>1. phantom \cap ours' = {}
      BY <2>1 DEF Rec!IInv, Rec!PhantomsFound, Rec!LeftStaysOut
    <3> QED BY <1>1, <1>6, <2>2, <3>1 DEF Rec!IInv, Rec!PhantomsFound, Rec!InWindow
  <2>5. Rec!TypeOK'
    BY <1>1, <2>2 DEF Rec!IInv, Rec!TypeOK
  <2>6. Rec!NothingToDelete'
    BY <1>1, <1>6 DEF Rec!IInv, Rec!NothingToDelete
  <2> QED BY <1>1, <1>2, <1>3, <2>2, <2>3, <2>4, <2>5, <2>6 DEF Rec!IInv
<1> QED BY <1>1, <1>5, <1>6

\* The two sides are compared.
LEMMA RecDiffKeeps ==
  ASSUME Rec!ReconcileConstants, Rec!IInv, Rec!Diff
  PROVE  Rec!IInv'
<1> USE DEF Rec!Diff, Rec!sides, Rec!syncs
<1>1. /\ source' = source /\ clock' = clock /\ left' = left /\ dest' = dest
      /\ cursor' = cursor /\ batch' = batch /\ request' = request /\ faults' = faults
      /\ theirs' = theirs /\ ours' = ours /\ phantom' = phantom
      /\ pc = "diff" /\ pc' \in {"refused", "delete", "done"}
      /\ orphans' = (IF request.delete THEN theirs \ ours ELSE {})
      /\ pc' = "delete" => request.delete /\ theirs \ ours # {} /\ ~Rec!NothingInCommon
      /\ pc' = "done" /\ request.delete => theirs \ ours = {}
  BY DEF Rec!Orphaned
<1>2. Rec!LeftStaysOut' /\ Rec!BatchNewer' /\ Rec!CopiedStays'
  BY <1>1 DEF Rec!IInv, Rec!LeftStaysOut, Rec!BatchNewer, Rec!CopiedStays, Rec!Live, Rec!RowOf
<1>3. Rec!TypeOK'
  BY <1>1 DEF Rec!IInv, Rec!TypeOK
<1>4. Rec!OrphansLeft'
  <2> SUFFICES ASSUME pc' = "delete", NEW k \in ReconcileKeys, Rec!DestText(k) \in theirs,
                      Rec!DestText(k) \notin ours
               PROVE  k \in left
    BY <1>1 DEF Rec!IInv, Rec!OrphansLeft, Rec!DestText
  <2>1. k \in left \/ k \in ours
    BY <1>1 DEF Rec!IInv, Rec!OrphansLeft
  <2>2. CASE request.alike
    BY <2>1, <2>2, RecTexts
  <2>3. CASE ~request.alike
    <3>1. theirs \cap ours = {}
      BY <2>3, RecTexts DEF Rec!IInv, Rec!OrphansLeft
    <3>2. ours = {}
      BY <1>1, <3>1 DEF Rec!NothingInCommon, Rec!Orphaned, Rec!Missing
    <3> QED BY <2>1, <3>2
  <2> QED BY <2>2, <2>3
<1>5. Rec!PhantomsFound'
  <2>1. request.alike => Rec!InWindow(dest) \cap phantom \subseteq theirs \ ours
    BY <1>1 DEF Rec!IInv, Rec!PhantomsFound
  <2> QED BY <1>1, <2>1 DEF Rec!IInv, Rec!PhantomsFound, Rec!InWindow
<1>6. Rec!NothingToDelete'
  BY <1>1 DEF Rec!NothingToDelete
<1> QED BY <1>1, <1>2, <1>3, <1>4, <1>5, <1>6 DEF Rec!IInv

\* A delete takes rows of keys that have left for good.
LEMMA RecDoomedKeeps ==
  ASSUME Rec!ReconcileConstants, Rec!IInv, pc = "delete", NEW chunk, chunk \subseteq orphans,
         dest' = dest \ Rec!Doomed(chunk), UNCHANGED <<request, Rec!sides, Rec!syncs>>
  PROVE  /\ Rec!CopiedStays'
         /\ request.alike => Rec!InWindow(dest)' \cap phantom \subseteq orphans \ chunk
         /\ dest' \subseteq dest
<1> USE DEF Rec!sides, Rec!syncs
<1>1. \A r \in Rec!Doomed(chunk) : r \in dest /\ r.in /\ r.k \in left /\ r.k \in ReconcileKeys
  BY RecRows DEF Rec!Doomed, Rec!IInv, Rec!OrphansLeft
<1>2. Rec!CopiedStays'
  <2> SUFFICES ASSUME NEW k \in ReconcileKeys, Rec!Live(k), source[k].w <= cursor
               PROVE  Rec!RowOf(k) \in dest'
    BY DEF Rec!CopiedStays, Rec!Live, Rec!RowOf
  <2>1. Rec!RowOf(k) \in dest /\ Rec!RowOf(k).k = k /\ Rec!RowOf(k).in = source[k].in
    BY DEF Rec!IInv, Rec!CopiedStays, Rec!RowOf
  <2> QED BY <1>1, <2>1 DEF Rec!IInv, Rec!LeftStaysOut
<1>3. ASSUME request.alike, NEW k \in Rec!InWindow(dest)' \cap phantom
      PROVE  k \in orphans \ chunk
  <2>1. PICK r \in dest' : r.in /\ r.k = k
    BY <1>3 DEF Rec!InWindow
  <2>2. k \in orphans
    BY <1>3, <2>1, RecElements DEF Rec!IInv, Rec!PhantomsFound
  <2>3. Rec!DestText(k) = k
    BY <1>3, RecTexts
  <2>4. k \notin chunk
    BY <2>1, <2>3 DEF Rec!Doomed
  <2> QED BY <2>2, <2>4
<1> QED BY <1>2, <1>3

\* A chunk of the orphans is deleted.
LEMMA RecDeleteChunkKeeps ==
  ASSUME Rec!ReconcileConstants, Rec!IInv, Rec!DeleteChunk
  PROVE  Rec!IInv'
<1> DEFINE chunk == Rec!FirstKeys(orphans)
<1> USE DEF Rec!DeleteChunk, Rec!sides, Rec!syncs
<1>1. /\ source' = source /\ clock' = clock /\ left' = left
      /\ cursor' = cursor /\ batch' = batch /\ request' = request /\ faults' = faults
      /\ theirs' = theirs /\ ours' = ours /\ phantom' = phantom
      /\ pc = "delete" /\ pc' \in {"delete", "done"}
      /\ dest' = dest \ Rec!Doomed(chunk) /\ orphans' = orphans \ chunk
      /\ pc' = "done" => orphans = chunk
  OBVIOUS
<1>2. chunk \subseteq orphans
  BY DEF Rec!FirstKeys
<1> HIDE DEF chunk
<1>3. /\ Rec!CopiedStays'
      /\ request.alike => Rec!InWindow(dest)' \cap phantom \subseteq orphans'
      /\ dest' \subseteq dest
  BY <1>1, <1>2, RecDoomedKeeps
<1>4. Rec!TypeOK'
  BY <1>1, <1>3 DEF Rec!IInv, Rec!TypeOK
<1>5. Rec!LeftStaysOut' /\ Rec!BatchNewer'
  BY <1>1, <1>3 DEF Rec!IInv, Rec!LeftStaysOut, Rec!BatchNewer, Rec!Live, Rec!RowOf
<1>6. Rec!OrphansLeft'
  BY <1>1 DEF Rec!IInv, Rec!OrphansLeft, Rec!DestText
<1>7. Rec!PhantomsFound'
  BY <1>1, <1>3 DEF Rec!IInv, Rec!PhantomsFound
<1>8. Rec!NothingToDelete'
  BY <1>1 DEF Rec!IInv, Rec!NothingToDelete
<1> QED BY <1>1, <1>3, <1>4, <1>5, <1>6, <1>7, <1>8 DEF Rec!IInv

\* A statement fails; a delete may have been done.
LEMMA RecFailsKeeps ==
  ASSUME Rec!ReconcileConstants, Rec!IInv, Rec!Fails
  PROVE  Rec!IInv'
<1> DEFINE chunk == Rec!FirstKeys(orphans)
<1> USE DEF Rec!Fails, Rec!sides, Rec!syncs, Rec!found
<1>1. /\ source' = source /\ clock' = clock /\ left' = left
      /\ cursor' = cursor /\ batch' = batch /\ request' = request
      /\ theirs' = theirs /\ ours' = ours /\ orphans' = orphans /\ phantom' = phantom
      /\ pc' = "failed" /\ faults < ReconcileFaults /\ faults' = faults + 1
      /\ dest' = dest \/ (pc = "delete" /\ dest' = dest \ Rec!Doomed(chunk))
  OBVIOUS
<1>2. chunk \subseteq orphans
  BY DEF Rec!FirstKeys
<1> HIDE DEF chunk
<1>3. Rec!CopiedStays' /\ dest' \subseteq dest
  <2>1. CASE dest' = dest
    BY <1>1, <2>1 DEF Rec!IInv, Rec!CopiedStays, Rec!Live, Rec!RowOf
  <2>2. CASE pc = "delete" /\ dest' = dest \ Rec!Doomed(chunk)
    BY <1>1, <1>2, <2>2, RecDoomedKeeps
  <2> QED BY <1>1, <2>1, <2>2
<1>4. Rec!TypeOK'
  BY <1>1, <1>3 DEF Rec!IInv, Rec!TypeOK, Rec!ReconcileConstants
<1>5. Rec!LeftStaysOut' /\ Rec!BatchNewer'
  BY <1>1, <1>3 DEF Rec!IInv, Rec!LeftStaysOut, Rec!BatchNewer, Rec!Live, Rec!RowOf
<1>6. Rec!OrphansLeft'
  BY <1>1 DEF Rec!IInv, Rec!OrphansLeft, Rec!DestText
<1>7. Rec!PhantomsFound'
  BY <1>1 DEF Rec!IInv, Rec!PhantomsFound
<1>8. Rec!NothingToDelete'
  BY <1>1 DEF Rec!NothingToDelete
<1> QED BY <1>1, <1>3, <1>4, <1>5, <1>6, <1>7, <1>8 DEF Rec!IInv

\* A reconcile is run again.
LEMMA RecAgainKeeps ==
  ASSUME Rec!ReconcileConstants, Rec!IInv, Rec!Again
  PROVE  Rec!IInv'
<1> USE DEF Rec!Again, Rec!sides, Rec!syncs
<1>1. Rec!TypeOK'
  BY DEF Rec!IInv, Rec!TypeOK
<1>2. Rec!LeftStaysOut' /\ Rec!BatchNewer' /\ Rec!CopiedStays'
  BY DEF Rec!IInv, Rec!LeftStaysOut, Rec!BatchNewer, Rec!CopiedStays, Rec!Live, Rec!RowOf
<1>3. Rec!OrphansLeft' /\ Rec!PhantomsFound' /\ Rec!NothingToDelete'
  BY DEF Rec!IInv, Rec!OrphansLeft, Rec!PhantomsFound, Rec!NothingToDelete, Rec!DestText
<1> QED BY <1>1, <1>2, <1>3 DEF Rec!IInv

\* Every action keeps the invariant.
LEMMA RecNextKeeps ==
  ASSUME Rec!ReconcileConstants, Rec!IInv, [Rec!Next]_Rec!vars
  PROVE  Rec!IInv'
<1>1. CASE UNCHANGED Rec!vars
  <2> USE <1>1 DEF Rec!vars, Rec!sides, Rec!syncs, Rec!found
  <2>1. Rec!TypeOK'
    BY DEF Rec!IInv, Rec!TypeOK
  <2>2. Rec!LeftStaysOut' /\ Rec!BatchNewer' /\ Rec!CopiedStays'
    BY DEF Rec!IInv, Rec!LeftStaysOut, Rec!BatchNewer, Rec!CopiedStays, Rec!Live, Rec!RowOf
  <2>3. Rec!OrphansLeft' /\ Rec!PhantomsFound' /\ Rec!NothingToDelete'
    BY DEF Rec!IInv, Rec!OrphansLeft, Rec!PhantomsFound, Rec!NothingToDelete, Rec!DestText,
           Rec!InWindow
  <2> QED BY <2>1, <2>2, <2>3 DEF Rec!IInv
<1> QED BY <1>1, RecChangeRowKeeps, RecDeleteRowKeeps, RecSyncReadsKeeps, RecSyncWritesKeeps,
           RecReadKeeps,
           RecDiffKeeps, RecDeleteChunkKeeps, RecFailsKeeps, RecAgainKeeps DEF Rec!Next

\* It holds before the reconcile begins.
LEMMA RecInitInv ==
  ASSUME Rec!ReconcileConstants, Rec!Init
  PROVE  Rec!IInv
<1> USE DEF Rec!Init, Rec!ReconcileConstants
<1>1. /\ source \in [ReconcileKeys -> [w : Nat, in : BOOLEAN]]
      /\ \A k \in OldKeys : source[k] = [w |-> 1, in |-> TRUE]
      /\ \A k \in ReconcileKeys \ OldKeys : source[k] = Rec!NoRow
  <2>1. [w |-> 1, in |-> TRUE] \in [w : Nat, in : BOOLEAN] /\ Rec!NoRow \in [w : Nat, in : BOOLEAN]
    BY DEF Rec!NoRow
  <2> QED BY <2>1
<1>2. batch.rows = {} /\ \A r \in dest : r.k \in OldKeys /\ r.w = 1 /\ r.in
  BY RecElements
<1>3. Rec!TypeOK
  <2>1. clock \in 1..ReconcileChanges /\ cursor \in 1..clock /\ faults \in 0..ReconcileFaults
    OBVIOUS
  <2>2. ASSUME NEW k \in ReconcileKeys
        PROVE  source[k].w \in 0..clock
    <3>1. source[k].w = 0 \/ source[k].w = 1
      BY <1>1, RecElements
    <3>2. clock = 1
      OBVIOUS
    <3> QED BY <3>1, <3>2
  <2>3. \A k \in ReconcileKeys : source[k].in \in BOOLEAN
    BY <1>1
  <2> QED BY <1>2, <2>1, <2>2, <2>3 DEF Rec!TypeOK
<1>4. Rec!LeftStaysOut /\ Rec!BatchNewer
  BY <1>1, <1>2 DEF Rec!LeftStaysOut, Rec!BatchNewer
<1>5. Rec!CopiedStays
  <2>1. \A k \in ReconcileKeys : source[k].w > 0 => k \in OldKeys
    BY <1>1, RecElements
  <2> QED BY <1>1, <2>1 DEF Rec!CopiedStays, Rec!Live, Rec!RowOf
<1>6. Rec!OrphansLeft /\ Rec!PhantomsFound /\ Rec!NothingToDelete
  BY <1>2 DEF Rec!OrphansLeft, Rec!PhantomsFound, Rec!NothingToDelete
<1> QED BY <1>1, <1>3, <1>4, <1>5, <1>6 DEF Rec!IInv

\* The inductive invariant of a reconcile among syncs holds in every state.
THEOREM ReconcileInvariant == Spec => [](which = "reconcile" => Rec!IInv)
<1>1. Init => (which = "reconcile" => Rec!IInv)
  BY Begins, ReconcileInstance, RecInitInv
<1>2. (which = "reconcile" => Rec!IInv) /\ [Next]_readsVars => (which = "reconcile" => Rec!IInv)'
  BY Goes, ReconcileInstance, RecNextKeeps
<1> QED BY <1>1, <1>2, PTL DEF Spec

\* What a reconcile deletes is what the source lost: a row the source has and
\* a sync has copied stays, whatever is changed and synced between the reads
\* and the deletes, and no key lost before the reconcile began survives it.
THEOREM DriftAlone == Spec => []OnlyDriftDeleted
<1>1. (which = "reconcile" => Rec!IInv) => OnlyDriftDeleted
  BY DEF OnlyDriftDeleted, Rec!IInv, Rec!CopiedStays, Rec!PhantomsFound, Rec!OnlyDriftDeleted
<1> QED BY <1>1, ReconcileInvariant, PTL

-----------------------------------------------------------------------------
(* The key ranges and windows of a plain read.                            *)

\* The instance's library operators are the library's.
LEMMA KeysLibrary ==
  ASSUME NEW S
  PROVE  Ranges!Cardinality(S) = Cardinality(S) /\ (Ranges!IsFiniteSet(S) <=> IsFiniteSet(S))
BY DEF Ranges!Cardinality, Cardinality, Ranges!IsFiniteSet, IsFiniteSet

\* A finite set of integers that is not empty has a least member.
LEMMA KeysLeastIs ==
  ASSUME NEW S, \A z \in S : z \in Int, IsFiniteSet(S), S # {}
  PROVE  Ranges!Least(S) \in S /\ \A y \in S : Ranges!Least(S) <= y
<1> DEFINE below(x) == {y \in S : y < x}
           T == {below(x) : x \in S}
<1>1. T \subseteq SUBSET S /\ T # {}
  OBVIOUS
<1>2. PICK s \in T : \A u \in T : u \subseteq s => u = s
  <2> HIDE DEF T
  <2> QED BY <1>1, SmallestSubset
<1>3. PICK x \in S : s = below(x)
  BY <1>2
<1>4. ASSUME NEW y \in S, y < x
      PROVE  FALSE
  <2>1. x \in Int /\ y \in Int /\ \A z \in S : z \in Int
    OBVIOUS
  <2>2. below(y) \subseteq below(x)
    <3>1. \A z \in S : z < y => z < x
      BY <1>4, <2>1
    <3> QED BY <3>1
  <2>3. y \in below(x) /\ y \notin below(y)
    BY <1>4, <2>1
  <2> QED BY <1>2, <1>3, <2>2, <2>3
<1>5. \A y \in S : x <= y
  BY <1>4
<1> QED BY <1>5 DEF Ranges!Least

\* And a largest.
LEMMA KeysLargestIs ==
  ASSUME NEW S, \A z \in S : z \in Int, IsFiniteSet(S), S # {}
  PROVE  Ranges!Largest(S) \in S /\ \A y \in S : y <= Ranges!Largest(S)
<1> DEFINE above(x) == {y \in S : x < y}
           T == {above(x) : x \in S}
<1>1. T \subseteq SUBSET S /\ T # {}
  OBVIOUS
<1>2. PICK s \in T : \A u \in T : u \subseteq s => u = s
  <2> HIDE DEF T
  <2> QED BY <1>1, SmallestSubset
<1>3. PICK x \in S : s = above(x)
  BY <1>2
<1>4. ASSUME NEW y \in S, x < y
      PROVE  FALSE
  <2>1. x \in Int /\ y \in Int /\ \A z \in S : z \in Int
    OBVIOUS
  <2>2. above(y) \subseteq above(x)
    <3>1. \A z \in S : y < z => x < z
      BY <1>4, <2>1
    <3> QED BY <3>1
  <2>3. y \in above(x) /\ y \notin above(y)
    BY <1>4, <2>1
  <2> QED BY <1>2, <1>3, <2>2, <2>3
<1>5. \A y \in S : y <= x
  BY <1>4
<1> QED BY <1>5 DEF Ranges!Largest

\* What \div and % are.
LEMMA KeysDividedBy ==
  ASSUME NEW n \in Nat, NEW r \in Nat, r >= 1
  PROVE  /\ n \div r \in Nat
         /\ (n \div r) * r <= n /\ n < (n \div r) * r + r
<1>1. n \div r \in Int /\ n % r \in 0..(r - 1)
  OBVIOUS
<1>2. n = (n \div r) * r + (n % r)
  OBVIOUS
<1>3. n \div r \in Nat
  OBVIOUS
<1> DEFINE q == n \div r
           m == n % r
<1>4. q \in Nat /\ m \in 0..(r - 1) /\ n = q * r + m
  BY <1>1, <1>2, <1>3
<1> HIDE DEF q, m
<1>5. q * r \in Nat
  BY <1>4
<1>6. q \in Nat /\ q * r <= n /\ n < q * r + r
  BY <1>4, <1>5
<1> QED BY <1>6 DEF q

\* A product grows with its factor.
LEMMA KeysTimes ==
  ASSUME NEW a \in Nat, NEW b \in Nat, a <= b, NEW w \in Nat
  PROVE  a * w \in Nat /\ a * w <= b * w
<1>1. PICK d \in Nat : b = a + d
  <2>1. b - a \in Nat /\ b = a + (b - a)
    OBVIOUS
  <2> QED BY <2>1
<1>2. b * w = a * w + d * w /\ a * w \in Nat /\ d * w \in Nat
  BY <1>1
<1> QED BY <1>2

\* range_partitions: the ranges are of one width, but for the last.
LEMMA KeysSplitIs ==
  ASSUME NEW min \in Int, NEW max \in Int, min <= max, NEW n \in Nat, n >= 1
  PROVE  \E w \in Nat, c \in Nat :
           /\ w >= 1 /\ max - min + 1 <= c * w
           /\ Ranges!Split(min, max, n) =
                [i \in 1..c |-> Ranges!Part("range", min + (i - 1) * w,
                Ranges!Smaller(min + i * w - 1, max))]
<1> DEFINE span  == max - min + 1
           width == Ranges!Larger((span + n - 1) \div n, 1)
           count == (span + width - 1) \div width
<1>1. span \in Nat /\ span >= 1 /\ span + n - 1 \in Nat
  OBVIOUS
<1> HIDE DEF span
<1>2. width \in Nat /\ width >= 1
  <2>1. (span + n - 1) \div n \in Nat
    BY <1>1, KeysDividedBy
  <2> QED BY <2>1 DEF Ranges!Larger
<1> HIDE DEF width
<1>3. span + width - 1 \in Nat
  BY <1>1, <1>2
<1>4. count \in Nat /\ span + width - 1 < count * width + width
  BY <1>2, <1>3, KeysDividedBy
<1> HIDE DEF count
<1>5. count * width \in Nat
  BY <1>2, <1>4
<1>6. span <= count * width
  BY <1>1, <1>2, <1>4, <1>5
<1>7. Ranges!Split(min, max, n) =
        [i \in 1..count |-> Ranges!Part("range", min + (i - 1) * width,
        Ranges!Smaller(min + i * width - 1, max))]
  BY DEF Ranges!Split, span, width, count
<1>8. max - min + 1 <= count * width
  BY <1>6 DEF span
<1> QED BY <1>2, <1>4, <1>7, <1>8

\* An integer of the interval is in a range.
LEMMA KeysRangeOf ==
  ASSUME NEW min \in Int, NEW max \in Int, NEW w \in Nat, w >= 1, NEW c \in Nat,
         max - min + 1 <= c * w, NEW k \in Int, min <= k, k <= max
  PROVE  \E i \in 1..c : min + (i - 1) * w <= k /\ k <= min + i * w - 1
<1> DEFINE d == k - min
           q == d \div w
<1>1. d \in Nat /\ k = min + d /\ d < max - min + 1
  OBVIOUS
<1> HIDE DEF d
<1>2. q \in Nat /\ q * w <= d /\ d < q * w + w
  BY <1>1, KeysDividedBy
<1> HIDE DEF q
<1>3. q * w \in Nat /\ c * w \in Nat
  BY <1>2
<1>4. q < c
  <2>1. SUFFICES ASSUME c <= q PROVE FALSE
    BY <1>2
  <2>2. c * w <= q * w
    BY <1>2, <2>1, KeysTimes
  <2> QED BY <1>1, <1>2, <1>3, <2>2
<1>5. q + 1 \in 1..c /\ (q + 1) - 1 = q /\ (q + 1) * w = q * w + w
  BY <1>2, <1>4
<1>6. min + ((q + 1) - 1) * w <= k /\ k <= min + (q + 1) * w - 1
  BY <1>1, <1>2, <1>3, <1>5
<1> QED BY <1>5, <1>6

\* And in one only.
LEMMA KeysOneRange ==
  ASSUME NEW min \in Int, NEW w \in Nat, w >= 1, NEW c \in Nat, NEW k \in Int,
         NEW i \in 1..c, NEW j \in 1..c,
         min + (i - 1) * w <= k, k <= min + i * w - 1,
         min + (j - 1) * w <= k, k <= min + j * w - 1
  PROVE  i = j
<1>1. ASSUME NEW a1 \in 1..c, NEW b1 \in 1..c, a1 < b1,
             k <= min + a1 * w - 1, min + (b1 - 1) * w <= k
      PROVE  FALSE
  <2>1. a1 \in Nat /\ b1 - 1 \in Nat /\ a1 <= b1 - 1
    BY <1>1
  <2>2. a1 * w \in Nat /\ a1 * w <= (b1 - 1) * w
    BY <2>1, KeysTimes
  <2> DEFINE a == a1 * w
             b == (b1 - 1) * w
  <2>3. b \in Nat
    BY <2>1
  <2>4. a \in Nat /\ a <= b /\ k <= min + a - 1 /\ min + b <= k
    BY <1>1, <2>2
  <2> HIDE DEF a, b
  <2> QED BY <2>3, <2>4
<1>2. i < j \/ j < i \/ i = j
  OBVIOUS
<1> QED BY <1>1, <1>2

\* The keys of the rows are integers, and of finitely many.
LEMMA KeysIntegersAre ==
  ASSUME Ranges!RangesConstants, NEW S \in SUBSET RangeKeys
  PROVE  /\ IsFiniteSet(S) /\ IsFiniteSet(Ranges!Integer(S)) /\ Ranges!Integer(S) \subseteq S
         /\ \A k \in Ranges!Integer(S) : k \in Int /\ k >= MinInt /\ k # NullKey
<1>1. IsFiniteSet(RangeKeys) /\ \A k \in RangeKeys : k # NullKey => k \in Int /\ k >= MinInt
  BY KeysLibrary DEF Ranges!RangesConstants
<1>2. Ranges!Integer(S) \subseteq S /\ \A k \in Ranges!Integer(S) : k # NullKey
  BY DEF Ranges!Integer
<1>3. IsFiniteSet(S)
  BY <1>1, FS_Subset
<1>4. IsFiniteSet(Ranges!Integer(S))
  BY <1>2, <1>3, FS_Subset
<1> QED BY <1>1, <1>2, <1>3, <1>4

\* Partitions without a key in common, and with a place for one.
KeysApart(ps)   == \A i, j \in DOMAIN ps : Ranges!Of(ps[i]) \cap Ranges!Of(ps[j]) # {} => i = j
KeysHolds(ps, k) == \E i \in DOMAIN ps : k \in Ranges!Of(ps[i])

\* The ranges of an interval, with a partition for NULL or without.
LEMMA KeysJoinedIs ==
  ASSUME Ranges!RangesConstants, NEW min \in Int, NEW max \in Int, min <= max, NEW n \in Nat,
         n >= 1,
         NEW null \in BOOLEAN
  PROVE  LET ps == Ranges!Split(min, max, n) \o (IF null THEN Ranges!NullKeys ELSE <<>>)
         IN /\ KeysApart(ps)
            /\ \A k \in Ranges!Integer(RangeKeys) : min <= k /\ k <= max => KeysHolds(ps, k)
            /\ null => KeysHolds(ps, NullKey)
<1>1. PICK w \in Nat, c \in Nat :
           /\ w >= 1 /\ max - min + 1 <= c * w
           /\ Ranges!Split(min, max, n) =
                [i \in 1..c |-> Ranges!Part("range", min + (i - 1) * w,
                Ranges!Smaller(min + i * w - 1, max))]
  BY KeysSplitIs
<1>a. w >= 1 /\ max - min + 1 <= c * w
  BY <1>1
<1> DEFINE s == Ranges!Split(min, max, n)
           e == IF null THEN Ranges!NullKeys ELSE <<>>
           ps == s \o e
<1>2. s = [i \in 1..c |-> Ranges!Part("range", min + (i - 1) * w,
      Ranges!Smaller(min + i * w - 1, max))]
  BY <1>1
<1> HIDE DEF s
<1>3. DOMAIN s = 1..c
      /\ \A i \in 1..c : s[i] = Ranges!Part("range", min + (i - 1) * w,
         Ranges!Smaller(min + i * w - 1, max))
  BY <1>2
<1>4. \A i \in 1..c : Ranges!Of(s[i]) =
        {k \in Ranges!Integer(RangeKeys) : min + (i - 1) * w <= k
        /\ k <= Ranges!Smaller(min + i * w - 1, max)}
  BY <1>3 DEF Ranges!Of, Ranges!Part, Ranges!In
<1>5. s \in Seq(Range(s)) /\ Len(s) = c
  <2>1. \A i \in 1..c : s[i] \in Range(s)
    BY <1>3 DEF Range
  <2>2. s \in [1..c -> Range(s)]
    BY <1>2, <2>1
  <2> QED BY <2>2, <1>3, LenProperties
<1>6. ASSUME NEW i \in 1..c, NEW k \in Ranges!Integer(RangeKeys)
      PROVE  /\ k \in Int
             /\ k \in Ranges!Of(s[i]) <=> min + (i - 1) * w <= k /\ k <= min + i * w - 1 /\ k <= max
  <2>1. k \in Int
    BY KeysIntegersAre
  <2>2. i * w \in Int /\ (i - 1) * w \in Int
    BY <1>1
  <2>3. k <= Ranges!Smaller(min + i * w - 1, max) <=> k <= min + i * w - 1 /\ k <= max
    BY <2>1, <2>2 DEF Ranges!Smaller
  <2> QED BY <1>4, <2>1, <2>3
<1>7. \A i, j \in 1..c : Ranges!Of(s[i]) \cap Ranges!Of(s[j]) # {} => i = j
  <2>1. SUFFICES ASSUME NEW i \in 1..c, NEW j \in 1..c, NEW k, k \in Ranges!Of(s[i]),
                        k \in Ranges!Of(s[j])
                 PROVE  i = j
    OBVIOUS
  <2>2. k \in Ranges!Integer(RangeKeys)
    BY <1>4, <2>1
  <2>3. /\ min + (i - 1) * w <= k /\ k <= min + i * w - 1
        /\ min + (j - 1) * w <= k /\ k <= min + j * w - 1
    BY <1>6, <2>1, <2>2
  <2>4. k \in Int
    BY <2>2, KeysIntegersAre
  <2> QED BY <1>a, <2>3, <2>4, KeysOneRange
<1>8. \A k \in Ranges!Integer(RangeKeys) : min <= k /\ k <= max =>
      \E i \in 1..c : k \in Ranges!Of(s[i])
  <2>1. SUFFICES ASSUME NEW k \in Ranges!Integer(RangeKeys), min <= k, k <= max
                 PROVE  \E i \in 1..c : k \in Ranges!Of(s[i])
    OBVIOUS
  <2>2. k \in Int
    BY KeysIntegersAre
  <2>3. PICK i \in 1..c : min + (i - 1) * w <= k /\ k <= min + i * w - 1
    BY <1>a, <2>1, <2>2, KeysRangeOf
  <2> QED BY <1>6, <2>1, <2>3
<1>9. CASE null
  <2>1. e = <<Ranges!Part("null", 1, 0)>>
    BY <1>9 DEF Ranges!NullKeys
  <2>2. /\ DOMAIN ps = 1..(c + 1) /\ \A i \in 1..c : ps[i] = s[i]
        /\ ps[c + 1] = Ranges!Part("null", 1, 0)
    <3> HIDE DEF e
    <3>1. Len(e) = 1 /\ e[1] = Ranges!Part("null", 1, 0) /\ e \in Seq({Ranges!Part("null", 1, 0)})
      BY <2>1
    <3>2. /\ Len(ps) = Len(s) + Len(e)
          /\ \A i \in 1..(Len(s) + Len(e)) : ps[i] = IF i <= Len(s) THEN s[i] ELSE e[i - Len(s)]
          /\ DOMAIN ps = 1..Len(ps)
      <4> DEFINE T == Range(s) \cup {Ranges!Part("null", 1, 0)}
      <4>1. s \in Seq(T) /\ e \in Seq(T)
        BY <1>5, <3>1
      <4>2. ps \in Seq(T)
        BY <4>1, ConcatProperties
      <4> HIDE DEF T
      <4> QED BY <4>1, <4>2, ConcatProperties, LenProperties
    <3> HIDE DEF ps
    <3>3. DOMAIN ps = 1..(c + 1)
      BY <1>5, <3>1, <3>2
    <3>4. \A i \in 1..c : i \in 1..(c + 1) /\ i <= c
      OBVIOUS
    <3>5. c + 1 \in 1..(c + 1) /\ ~(c + 1 <= c) /\ c + 1 - c = 1
      OBVIOUS
    <3> QED BY <1>5, <3>1, <3>2, <3>3, <3>4, <3>5
  <2> HIDE DEF ps, e
  <2>3. Ranges!Of(ps[c + 1]) = {NullKey}
    BY <2>2 DEF Ranges!Of, Ranges!Part
  <2>4. \A i \in 1..(c + 1) : i \in 1..c \/ i = c + 1
    OBVIOUS
  <2>5. \A i \in 1..c : i \in 1..(c + 1) /\ NullKey \notin Ranges!Of(ps[i])
    BY <1>4, <2>2 DEF Ranges!Integer
  <2>6. KeysApart(ps)
    <3>1. SUFFICES ASSUME NEW i \in 1..(c + 1), NEW j \in 1..(c + 1),
                          NEW k, k \in Ranges!Of(ps[i]), k \in Ranges!Of(ps[j])
                   PROVE  i = j
      BY <2>2 DEF KeysApart
    <3>2. CASE i \in 1..c /\ j \in 1..c
      BY <1>7, <2>2, <3>1, <3>2
    <3>3. CASE i = c + 1 \/ j = c + 1
      BY <2>3, <2>4, <2>5, <3>1, <3>3
    <3> QED BY <2>4, <3>2, <3>3
  <2>7. \A k \in Ranges!Integer(RangeKeys) : min <= k /\ k <= max => KeysHolds(ps, k)
    BY <1>8, <2>2, <2>5 DEF KeysHolds
  <2>8. KeysHolds(ps, NullKey)
    BY <2>2, <2>3 DEF KeysHolds
  <2> QED BY <2>6, <2>7, <2>8 DEF ps, e, s
<1>10. CASE ~null
  <2>1. ps = s
    BY <1>5, <1>10, ConcatEmptySeq
  <2> HIDE DEF ps, e
  <2>2. KeysApart(ps)
        /\ \A k \in Ranges!Integer(RangeKeys) : min <= k /\ k <= max => KeysHolds(ps, k)
    BY <1>3, <1>7, <1>8, <2>1 DEF KeysApart, KeysHolds
  <2> QED BY <1>10, <2>2 DEF ps, e, s
<1> QED BY <1>9, <1>10

\* What the read that is planned may be.
LEMMA KeysReadIs ==
  ASSUME Ranges!RangesConstants, Ranges!Typed
  PROVE  /\ read.parallel \in Nat /\ read.nullable \in BOOLEAN
         /\ read.start \in Nat /\ read.ceiling \in Nat
         /\ Ranges!Above => read.above \in Int
         /\ \/ read.given = Ranges!NoBounds
            \/ read.given.min \in MinInt..MaxInt /\ read.given.max \in read.given.min..MaxInt
         /\ read.unsigned => read.engine \in {"mysql", "clickhouse"}
         /\ read.engine = "clickhouse" => read.sweep = "no" /\ read.given = Ranges!NoBounds
         /\ rows \in SUBSET RangeKeys /\ read \in KeyedReads
         /\ MinInt \in Int /\ MaxInt \in Int /\ 0 \in MinInt..MaxInt
<1>1. read \in KeyedReads /\ rows \subseteq RangeKeys
  BY DEF Ranges!Typed, Ranges!TypeOK
<1> QED BY <1>1 DEF Ranges!RangesConstants, Ranges!Above

\* The bounds of the keys there are.
LEMMA KeysBoundsAre ==
  ASSUME Ranges!RangesConstants, Ranges!Typed, NEW S \in SUBSET Ranges!Integer(rows), S # {}
  PROVE  /\ Ranges!Least(S) \in S /\ Ranges!Least(S) \in Int /\ Ranges!Largest(S) \in S
            /\ Ranges!Largest(S) \in Int
         /\ \A k \in S : k \in Int /\ Ranges!Least(S) <= k /\ k <= Ranges!Largest(S)
<1>1. rows \in SUBSET RangeKeys
  BY KeysReadIs
<1>2. \A k \in S : k \in Int
  BY <1>1, KeysIntegersAre
<1>3. IsFiniteSet(S)
  BY <1>1, KeysIntegersAre, FS_Subset
<1> QED BY <1>2, <1>3, KeysLeastIs, KeysLargestIs

\* range_partitions: the partitions of a plan are apart, and hold what is there
\* and what may come inside them.
LEMMA KeysPlanDivides ==
  ASSUME Ranges!RangesConstants, Ranges!Typed, NEW ps \in {Ranges!Everything, Ranges!Ranges},
         Ranges!Start(Ranges!NoBounds, ps),
         read' = read, rows' = rows
  PROVE  /\ KeysApart(ps)
         /\ \A k \in RangeKeys : Ranges!Passes(k) /\ Ranges!MayHold(k)
            /\ (k \in rows \/ Ranges!Covered(k)') => KeysHolds(ps, k)
<1> DEFINE all == Ranges!Integer(rows)
           bottom == IF Ranges!Above
           /\ read.engine # "clickhouse" THEN read.above + 1 ELSE Ranges!Least(all)
<1>1. parts' = ps /\ window' = Ranges!NoBounds /\ present' = rows
  BY DEF Ranges!Start
<1>2. \A k : Ranges!Covered(k)' =>
      k = NullKey \/ ps = Ranges!Everything \/ (bottom <= k /\ k <= Ranges!Largest(all))
  BY <1>1 DEF Ranges!Covered, Ranges!Swept, Ranges!Bottom, Ranges!Above
<1> HIDE DEF bottom
<1>3. CASE ps = Ranges!Everything
  <2>1. DOMAIN ps = {1} /\ ps[1].of = "all"
    BY <1>3 DEF Ranges!Everything, Ranges!Part
  <2> QED BY <2>1 DEF KeysApart, KeysHolds, Ranges!Of
<1>4. ASSUME ps # Ranges!Everything, NEW keys, NEW from, NEW null,
             ps = Ranges!Parts(keys, from, null),
             null \in BOOLEAN, keys \subseteq all,
             keys # {} => /\ from \in Int /\ from <= Ranges!Largest(keys)
                          /\ \A k \in RangeKeys : k # NullKey /\ Ranges!Passes(k) =>
                               /\ k \in rows => from <= k /\ k <= Ranges!Largest(keys)
                               /\ bottom <= k /\ k <= Ranges!Largest(all) =>
                                  from <= k /\ k <= Ranges!Largest(keys),
             Ranges!Passes(NullKey) /\ Ranges!MayHold(NullKey) => null
      PROVE  /\ KeysApart(ps)
             /\ \A k \in RangeKeys : Ranges!Passes(k) /\ Ranges!MayHold(k)
                /\ (k \in rows \/ Ranges!Covered(k)') => KeysHolds(ps, k)
  <2>1. /\ read.parallel > 1 /\ keys # {}
        /\ ps = Ranges!Split(from, Ranges!Largest(keys),
           read.parallel) \o (IF null THEN Ranges!NullKeys ELSE <<>>)
    <3>1. /\ ~(read.parallel <= 1 \/ keys = {})
          /\ ps = Ranges!Split(from, Ranges!Largest(keys),
             read.parallel) \o (IF null THEN Ranges!NullKeys ELSE <<>>)
      BY <1>4 DEF Ranges!Parts
    <3>2. read.parallel \in Nat
      BY KeysReadIs
    <3> QED BY <3>1, <3>2
  <2>2. /\ Ranges!Largest(keys) \in Int /\ from \in Int /\ from <= Ranges!Largest(keys)
        /\ read.parallel \in Nat /\ read.parallel >= 1
    BY <1>4, <2>1, KeysBoundsAre, KeysReadIs
  <2>3. /\ KeysApart(ps)
           /\ \A k \in Ranges!Integer(RangeKeys) : from <= k /\ k <= Ranges!Largest(keys) =>
           KeysHolds(ps, k)
        /\ null => KeysHolds(ps, NullKey)
    BY <1>4, <2>1, <2>2, KeysJoinedIs
  <2>4. ASSUME NEW k \in RangeKeys, Ranges!Passes(k), Ranges!MayHold(k), k \in rows
               \/ Ranges!Covered(k)'
        PROVE  KeysHolds(ps, k)
    <3>1. CASE k = NullKey
      BY <1>4, <2>3, <2>4, <3>1
    <3>2. CASE k # NullKey
      <4>1. k \in Ranges!Integer(RangeKeys)
        BY <3>2 DEF Ranges!Integer
      <4>2. from <= k /\ k <= Ranges!Largest(keys)
        BY <1>2, <1>4, <2>1, <2>4, <3>2
      <4> QED BY <2>3, <4>1, <4>2
    <3> QED BY <3>1, <3>2
  <2> QED BY <2>3, <2>4
<1>5. ASSUME ps # Ranges!Everything, read.engine = "clickhouse"
      PROVE  /\ KeysApart(ps)
             /\ \A k \in RangeKeys : Ranges!Passes(k) /\ Ranges!MayHold(k)
                /\ (k \in rows \/ Ranges!Covered(k)') => KeysHolds(ps, k)
  <2>1. ps = Ranges!Parts(all, Ranges!Least(all), read.nullable)
    BY <1>5 DEF Ranges!Ranges, Ranges!ClickHouseRanges
  <2>2. all # {} => /\ Ranges!Least(all) \in Int /\ Ranges!Least(all) <= Ranges!Largest(all)
                    /\ \A k \in RangeKeys : k # NullKey /\ Ranges!Passes(k) =>
                         /\ k \in rows => Ranges!Least(all) <= k /\ k <= Ranges!Largest(all)
                         /\ bottom <= k /\ k <= Ranges!Largest(all) =>
                            Ranges!Least(all) <= k /\ k <= Ranges!Largest(all)
    <3>1. \A k \in rows : k # NullKey => k \in all
      BY DEF Ranges!Integer
    <3>2. bottom = Ranges!Least(all)
      BY <1>5 DEF bottom
    <3> HIDE DEF all
    <3>3. all \in SUBSET Ranges!Integer(rows)
      BY DEF all
    <3> QED BY <3>1, <3>2, <3>3, KeysBoundsAre
  <2>3. Ranges!MayHold(NullKey) => read.nullable
    BY DEF Ranges!MayHold
  <2>4. read.nullable \in BOOLEAN
    BY KeysReadIs
  <2> QED BY <1>4, <1>5, <2>1, <2>2, <2>3, <2>4
<1>6. ASSUME ps # Ranges!Everything, read.engine # "clickhouse"
      PROVE  /\ KeysApart(ps)
             /\ \A k \in RangeKeys : Ranges!Passes(k) /\ Ranges!MayHold(k)
                /\ (k \in rows \/ Ranges!Covered(k)') => KeysHolds(ps, k)
  <2> DEFINE keys == Ranges!KeysAbove
             null == read.nullable /\ ~Ranges!Above
  <2>1. ps = Ranges!Parts(keys, Ranges!From(keys), null)
    BY <1>6 DEF Ranges!Ranges, Ranges!SqlRanges
  <2>2. keys \subseteq all /\ \A k \in all : k \in keys <=> Ranges!Passes(k)
    BY DEF Ranges!KeysAbove
  <2>3. \A k \in rows : k # NullKey => k \in all
    BY DEF Ranges!Integer
  <2>4. null \in BOOLEAN
    BY KeysReadIs
  <2>5. Ranges!Passes(NullKey) /\ Ranges!MayHold(NullKey) => null
    BY DEF Ranges!Passes, Ranges!MayHold
  <2> HIDE DEF keys, null
  <2>6. ASSUME keys # {}
        PROVE  /\ Ranges!From(keys) \in Int /\ Ranges!From(keys) <= Ranges!Largest(keys)
               /\ \A k \in RangeKeys : k # NullKey /\ Ranges!Passes(k) =>
                    /\ k \in rows => Ranges!From(keys) <= k /\ k <= Ranges!Largest(keys)
                    /\ bottom <= k /\ k <= Ranges!Largest(all) =>
                       Ranges!From(keys) <= k /\ k <= Ranges!Largest(keys)
    <3>0. all # {} /\ keys \in SUBSET Ranges!Integer(rows) /\ all \in SUBSET Ranges!Integer(rows)
      BY <2>2, <2>6
    <3> HIDE DEF all
    <3>1. /\ Ranges!Least(keys) \in keys /\ Ranges!Least(keys) \in Int
             /\ Ranges!Largest(keys) \in keys
          /\ Ranges!Largest(keys) \in Int
          /\ \A k \in keys : k \in Int /\ Ranges!Least(keys) <= k /\ k <= Ranges!Largest(keys)
      BY <2>6, <3>0, KeysBoundsAre
    <3>2. /\ Ranges!Largest(all) \in all /\ Ranges!Largest(all) \in Int
          /\ \A k \in all : k \in Int /\ Ranges!Least(all) <= k /\ k <= Ranges!Largest(all)
      BY <3>0, KeysBoundsAre
    <3>3. ASSUME NEW k \in RangeKeys, k # NullKey PROVE k \in Int
      BY <3>3 DEF Ranges!RangesConstants
    <3>4. CASE Ranges!Above
      <4>1. read.above \in Int /\ Ranges!From(keys) = read.above + 1 /\ bottom = read.above + 1
        BY <1>6, <3>4, KeysReadIs DEF Ranges!From, bottom
      <4>2. \A k \in RangeKeys : k # NullKey /\ Ranges!Passes(k) => k >= read.above + 1
        BY <3>3, <3>4, <4>1 DEF Ranges!Passes
      <4>3. \A k \in all : k > read.above => k \in keys
        BY <2>2, <3>4, KeysReadIs, KeysIntegersAre DEF Ranges!Passes, all
      <4>4. \A k \in keys : k > read.above
        BY <2>2, <3>4 DEF Ranges!Passes
      <4>5. Ranges!Largest(all) <= Ranges!Largest(keys)
        <5>1. Ranges!Largest(keys) <= Ranges!Largest(all)
          BY <2>2, <3>1, <3>2
        <5>2. Ranges!Largest(all) > read.above
          BY <3>1, <3>2, <4>1, <4>4, <5>1
        <5> QED BY <3>1, <3>2, <4>3, <5>2
      <4> QED BY <2>2, <2>3, <3>1, <3>2, <3>3, <4>1, <4>2, <4>4, <4>5
    <3>5. CASE ~Ranges!Above
      <4>1. keys = all
        BY <2>2, <3>5 DEF Ranges!Passes
      <4>2. Ranges!From(keys) = Ranges!Least(all) /\ bottom = Ranges!Least(all)
        BY <3>5, <4>1 DEF Ranges!From, bottom
      <4> QED BY <2>3, <3>1, <3>2, <3>3, <4>1, <4>2
    <3> QED BY <3>4, <3>5
  <2> QED BY <1>4, <1>6, <2>1, <2>2, <2>4, <2>5, <2>6
<1> QED BY <1>3, <1>5, <1>6

\* What nothing that reads or plans touches.
LEMMA KeysSameDivided ==
  ASSUME UNCHANGED <<read, window, parts, present>>, Ranges!Planned', Ranges!Planned, Ranges!Divided
  PROVE  Ranges!Divided'
BY DEF Ranges!Divided, Ranges!Planned, Ranges!Swept, Ranges!Covered, Ranges!Bottom, Ranges!Passes,
       Ranges!Above, Ranges!MayHold

\* Rows are added at any time.
LEMMA KeysGrowKeeps ==
  ASSUME Ranges!RangesConstants, Ranges!KInv, Ranges!Grow
  PROVE  Ranges!KInv'
<1>1. PICK k \in RangeKeys \ rows : Ranges!MayHold(k) /\ rows' = rows \cup {k}
  BY DEF Ranges!Grow
<1>2. /\ UNCHANGED <<read, pc, tries, window, parts, present, todo, lo, step, early, got>>
      /\ pc # "done" /\ Ranges!Cardinality(rows) < KeyRows
  BY DEF Ranges!Grow, Ranges!planned, Ranges!sweeping
<1>3. Ranges!Typed'
  <2>1. rows \in SUBSET RangeKeys /\ KeyRows \in Nat
    BY KeysReadIs DEF Ranges!RangesConstants, Ranges!KInv
  <2>2. IsFiniteSet(rows)
    BY <2>1, KeysIntegersAre
  <2>3. Ranges!Cardinality(rows') = Ranges!Cardinality(rows) + 1 /\ Ranges!Cardinality(rows) \in Nat
    BY <1>1, <2>2, FS_AddElement, FS_CardinalityType, KeysLibrary
  <2>4. Ranges!Cardinality(rows') <= KeyRows
    BY <1>2, <2>1, <2>3
  <2>5. Ranges!TypeOK'
    BY <1>1, <1>2, <2>1, <2>4 DEF Ranges!KInv, Ranges!Typed, Ranges!TypeOK, Ranges!RangesConstants
  <2>6. \A x \in rows' : Ranges!MayHold(x)'
    BY <1>1, <1>2 DEF Ranges!KInv, Ranges!Typed, Ranges!MayHold
  <2> QED BY <1>1, <1>2, <2>5, <2>6 DEF Ranges!KInv, Ranges!Typed, Ranges!Planned, Ranges!Swept
<1>4. Ranges!Divided'
  BY <1>2, KeysSameDivided DEF Ranges!KInv, Ranges!Divided, Ranges!Planned
<1>5. Ranges!PartsRead' /\ Ranges!Placed' /\ Ranges!WindowsRead'
  BY <1>2 DEF Ranges!KInv, Ranges!PartsRead, Ranges!Placed, Ranges!WindowsRead, Ranges!Planned,
              Ranges!Swept, Ranges!Passes, Ranges!Above, Ranges!Taken
<1> QED BY <1>3, <1>4, <1>5 DEF Ranges!KInv

\* A plan of partitions.
LEMMA KeysPartitioned ==
  ASSUME Ranges!RangesConstants, Ranges!KInv, pc \in {"plan", "unswept"},
         read.given = Ranges!NoBounds,
         NEW ps \in {Ranges!Everything, Ranges!Ranges}, Ranges!Start(Ranges!NoBounds, ps),
         UNCHANGED <<read, rows, tries, Ranges!sweeping, early, got>>
  PROVE  Ranges!KInv'
<1>1. /\ UNCHANGED <<read, rows, tries, lo, step, early, got>>
      /\ parts' = ps /\ window' = Ranges!NoBounds /\ present' = rows /\ todo' = DOMAIN ps
      /\ pc' = "planned"
  BY DEF Ranges!Start, Ranges!sweeping
<1>2. ~Ranges!Swept' /\ Ranges!Planned'
  BY <1>1 DEF Ranges!Swept, Ranges!Planned
<1>3. Ranges!Typed'
  <2>1. Ranges!TypeOK'
    BY <1>1 DEF Ranges!KInv, Ranges!Typed, Ranges!TypeOK
  <2>2. \A x \in rows' : Ranges!MayHold(x)'
    BY <1>1 DEF Ranges!KInv, Ranges!Typed, Ranges!MayHold
  <2> QED BY <1>1, <1>2, <2>1, <2>2 DEF Ranges!KInv, Ranges!Typed
<1>4. Ranges!Divided'
  <2>1. /\ KeysApart(ps)
        /\ \A k \in RangeKeys : Ranges!Passes(k) /\ Ranges!MayHold(k)
           /\ (k \in rows \/ Ranges!Covered(k)') => KeysHolds(ps, k)
    BY <1>1, KeysPlanDivides DEF Ranges!KInv
  <2>2. \A k : (Ranges!Passes(k)' <=> Ranges!Passes(k))
        /\ (Ranges!MayHold(k)' <=> Ranges!MayHold(k))
    BY <1>1 DEF Ranges!Passes, Ranges!Above, Ranges!MayHold
  <2> QED BY <1>1, <2>1, <2>2 DEF Ranges!Divided, KeysApart, KeysHolds
<1>5. Ranges!PartsRead' /\ Ranges!Placed' /\ Ranges!WindowsRead'
  BY <1>1, <1>2 DEF Ranges!PartsRead, Ranges!Placed, Ranges!WindowsRead
<1> QED BY <1>3, <1>4, <1>5 DEF Ranges!KInv

\* setup_postgres and setup_mysql split a read that is not swept.
LEMMA KeysPlanRangesKeeps ==
  ASSUME Ranges!RangesConstants, Ranges!KInv, Ranges!PlanRanges
  PROVE  Ranges!KInv'
<1>1. pc \in {"plan", "unswept"} /\ read.given = Ranges!NoBounds
  BY DEF Ranges!PlanRanges, Ranges!KInv, Ranges!Typed, Ranges!Forced
<1> QED BY <1>1, KeysPartitioned DEF Ranges!PlanRanges

\* The cursor spares a read its sweep.
LEMMA KeysPlanOnePassKeeps ==
  ASSUME Ranges!RangesConstants, Ranges!KInv, Ranges!PlanOnePass
  PROVE  Ranges!KInv'
<1>1. pc \in {"plan", "unswept"} /\ read.given = Ranges!NoBounds
  BY DEF Ranges!PlanOnePass, Ranges!BoundedByCursor, Ranges!Forced
<1> QED BY <1>1, KeysPartitioned DEF Ranges!PlanOnePass

\* A sweep begins just below a key, unless there is nothing below it.
LEMMA KeysBeginIs ==
  ASSUME Ranges!RangesConstants, NEW m \in Int, MinInt <= m
  PROVE  /\ Ranges!Begin(m) \in Int /\ MinInt <= Ranges!Begin(m) /\ Ranges!Begin(m) <= m
            /\ m - 1 <= Ranges!Begin(m)
         /\ m # MinInt => Ranges!Begin(m) < m
<1>1. MinInt \in Int
  BY DEF Ranges!RangesConstants
<1>2. Ranges!Begin(m) = IF m - 1 > MinInt THEN m - 1 ELSE MinInt
  <2>1. Ranges!Below(m) = IF m - 1 > MinInt THEN m - 1 ELSE MinInt
    BY DEF Ranges!Below, Ranges!Larger
  <2> QED BY <2>1 DEF Ranges!Begin
<1> QED BY <1>1, <1>2

\* A plan of windows, between bounds that are given or that hold what there is.
LEMMA KeysSweepPlanned ==
  ASSUME Ranges!RangesConstants, Ranges!KInv, pc = "plan", NEW b, Ranges!Sweep(b),
         b # Ranges!NoBounds,
         b.min \in MinInt..MaxInt, b.max \in b.min..MaxInt,
         IF read.given # Ranges!NoBounds THEN b = read.given
         ELSE \A k \in Ranges!Integer(rows) : b.min <= k /\ k <= b.max,
         UNCHANGED <<read, rows, tries, early, got>>
  PROVE  Ranges!KInv'
<1>1. /\ UNCHANGED <<read, rows, tries, early, got>>
      /\ parts' = Ranges!Everything /\ window' = b /\ present' = rows
         /\ todo' = DOMAIN Ranges!Everything
      /\ pc' = "planned" /\ lo' = Ranges!Begin(b.min) /\ step' = read.start
  BY DEF Ranges!Sweep, Ranges!Start
<1>2. Ranges!Swept' /\ Ranges!Planned'
  BY <1>1 DEF Ranges!Swept, Ranges!Planned
<1>3. MinInt \in Int /\ MaxInt \in Int /\ read.start \in Nat /\ read.ceiling \in Nat
  BY KeysReadIs DEF Ranges!KInv
<1>4. Ranges!Begin(b.min) \in MinInt..b.min
  <2>1. b.min \in Int /\ MinInt <= b.min
    BY <1>3
  <2> QED BY <1>3, <2>1, KeysBeginIs
<1>5. b.min \in Int /\ b.max \in Int /\ b.min <= b.max /\ b.max <= MaxInt /\ MinInt <= b.min
  BY <1>3
<1>6. Ranges!Typed'
  <2>1. lo' \in MinInt..MaxInt
    BY <1>1, <1>3, <1>4, <1>5
  <2>2. step' \in 0..Ranges!Larger(read.ceiling, read.start)
    BY <1>1, <1>3 DEF Ranges!Larger
  <2>3. Ranges!TypeOK'
    BY <1>1, <2>1, <2>2 DEF Ranges!KInv, Ranges!Typed, Ranges!TypeOK
  <2>4. \A x \in rows' : Ranges!MayHold(x)'
    BY <1>1 DEF Ranges!KInv, Ranges!Typed, Ranges!MayHold
  <2> QED BY <1>1, <1>2, <2>3, <2>4 DEF Ranges!KInv, Ranges!Typed
<1>7. Ranges!Placed'
  <2>1. Ranges!Begin(b.min) \in Ranges!Begin(b.min)..b.max
    BY <1>3, <1>4, <1>5
  <2>2. rows \subseteq RangeKeys
    BY DEF Ranges!KInv, Ranges!Typed, Ranges!TypeOK
  <2>3. ASSUME read.given = Ranges!NoBounds, NEW k \in Ranges!Integer(rows)
        PROVE  k \in Ranges!In(b)
    <3>1. b.min <= k /\ k <= b.max
      BY <2>3
    <3> QED BY <2>2, <3>1 DEF Ranges!Integer, Ranges!In
  <2> QED BY <1>1, <2>1, <2>3 DEF Ranges!Placed
<1>8. Ranges!Divided' /\ Ranges!PartsRead' /\ Ranges!WindowsRead'
  BY <1>1, <1>2 DEF Ranges!Divided, Ranges!PartsRead, Ranges!WindowsRead
<1> QED BY <1>6, <1>7, <1>8 DEF Ranges!KInv

\* plan_read_window of bounds that are given.
LEMMA KeysPlanGivenKeeps ==
  ASSUME Ranges!RangesConstants, Ranges!KInv, Ranges!PlanGiven
  PROVE  Ranges!KInv'
<1> DEFINE b == read.given
<1>1. pc = "plan" /\ b # Ranges!NoBounds /\ Ranges!Sweep(b) /\ UNCHANGED <<read, rows, tries, early,
      got>>
  BY DEF Ranges!PlanGiven
<1>2. b.min \in MinInt..MaxInt /\ b.max \in b.min..MaxInt
  BY <1>1, KeysReadIs DEF Ranges!KInv
<1> QED BY <1>1, <1>2, KeysSweepPlanned

\* A read that cannot be swept.
LEMMA KeysNoSweepKeeps ==
  ASSUME Ranges!RangesConstants, Ranges!KInv, pc = "plan", read.given = Ranges!NoBounds,
         Ranges!NoSweep,
         UNCHANGED <<read, rows, tries, early, got>>
  PROVE  Ranges!KInv'
<1>1. /\ UNCHANGED <<read, rows, tries, early, got, window, parts, todo, present, lo, step>>
      /\ pc' = "unswept"
  BY DEF Ranges!NoSweep, Ranges!sweeping
<1> QED BY <1>1 DEF Ranges!KInv, Ranges!Typed, Ranges!TypeOK, Ranges!Planned, Ranges!MayHold,
                    Ranges!Divided, Ranges!PartsRead, Ranges!Placed, Ranges!WindowsRead

\* plan_read_window of the bounds that are found: of a MySQL key they may not fit.
LEMMA KeysPlanSweepKeeps ==
  ASSUME Ranges!RangesConstants, Ranges!KInv, Ranges!PlanSweep
  PROVE  Ranges!KInv'
<1>1. /\ pc = "plan" /\ read.sweep # "no" /\ read.given = Ranges!NoBounds
      /\ UNCHANGED <<read, rows, tries, early, got>>
  BY DEF Ranges!PlanSweep
<1>2. CASE Ranges!KeyBounds = Ranges!NoBounds
  BY <1>1, <1>2, KeysNoSweepKeeps DEF Ranges!PlanSweep
<1>3. CASE Ranges!KeyBounds # Ranges!NoBounds
  <2> DEFINE keys == Ranges!Integer(rows)
             b    == Ranges!KeyBounds
  <2>1. /\ keys # {} /\ b = [min |-> Ranges!Least(keys), max |-> Ranges!Largest(keys)]
        /\ read.engine = "mysql" => ~(b.max > MaxInt)
    BY <1>3 DEF Ranges!KeyBounds, Ranges!MySqlBounds, Ranges!PgBounds
  <2>2. Ranges!Sweep(b)
    BY <1>3 DEF Ranges!PlanSweep
  <2>3. b.min = Ranges!Least(keys) /\ b.max = Ranges!Largest(keys)
    BY <2>1
  <2> HIDE DEF b
  <2>4. MinInt \in Int /\ MaxInt \in Int /\ rows \in SUBSET RangeKeys
    BY KeysReadIs DEF Ranges!KInv
  <2>5. /\ Ranges!Least(keys) \in keys /\ Ranges!Least(keys) \in Int
        /\ Ranges!Largest(keys) \in keys /\ Ranges!Largest(keys) \in Int
        /\ \A k \in keys : k \in Int /\ Ranges!Least(keys) <= k /\ k <= Ranges!Largest(keys)
    BY <2>1, KeysBoundsAre DEF Ranges!KInv
  <2>6. Ranges!Least(keys) >= MinInt
    BY <2>4, <2>5, KeysIntegersAre
  <2>7. Ranges!Largest(keys) <= MaxInt
    <3>1. CASE read.engine = "mysql"
      BY <2>1, <2>3, <2>4, <2>5, <3>1
    <3>2. CASE read.engine # "mysql"
      <4>1. ~read.unsigned
        BY <1>1, <3>2, KeysReadIs DEF Ranges!KInv
      <4>2. Ranges!Largest(keys) # NullKey /\ Ranges!Largest(keys) \in rows
        BY <2>5 DEF Ranges!Integer
      <4> QED BY <4>1, <4>2 DEF Ranges!KInv, Ranges!Typed, Ranges!MayHold
    <3> QED BY <3>1, <3>2
  <2> HIDE DEF keys
  <2>8. b.min \in MinInt..MaxInt /\ b.max \in b.min..MaxInt
    BY <2>3, <2>4, <2>5, <2>6, <2>7
  <2>9. \A k \in keys : b.min <= k /\ k <= b.max
    BY <2>3, <2>5
  <2>10. b # Ranges!NoBounds
    BY <1>3 DEF b
  <2> QED BY <1>1, <2>2, <2>8, <2>9, <2>10, KeysSweepPlanned DEF keys
<1> QED BY <1>2, <1>3

\* key_bounds_with_retry.
LEMMA KeysProbeFailsKeeps ==
  ASSUME Ranges!RangesConstants, Ranges!KInv, Ranges!ProbeFails
  PROVE  Ranges!KInv'
<1>1. pc = "plan" /\ read.given = Ranges!NoBounds /\ UNCHANGED <<read, rows, early, got>>
  BY DEF Ranges!ProbeFails
<1>2. CASE tries + 1 < BoundsAttempts
  <2>1. /\ tries' = tries + 1
        /\ UNCHANGED <<read, rows, early, got, pc, window, parts, todo, present, lo, step>>
    BY <1>1, <1>2 DEF Ranges!ProbeFails, Ranges!sweeping
  <2>2. tries' \in 0..(BoundsAttempts - 1)
    BY <1>2, <2>1 DEF Ranges!KInv, Ranges!Typed, Ranges!TypeOK, Ranges!RangesConstants
  <2> QED BY <1>1, <2>1, <2>2
          DEF Ranges!KInv, Ranges!Typed, Ranges!TypeOK, Ranges!Planned, Ranges!MayHold,
              Ranges!Divided, Ranges!PartsRead, Ranges!Placed, Ranges!WindowsRead
<1>3. CASE ~(tries + 1 < BoundsAttempts)
  BY <1>1, <1>3, KeysNoSweepKeeps DEF Ranges!ProbeFails
<1> QED BY <1>2, <1>3

\* Nothing is read yet.
LEMMA KeysBeginsKeeps ==
  ASSUME Ranges!RangesConstants, Ranges!KInv, Ranges!Begins
  PROVE  Ranges!KInv'
<1>1. /\ pc = "planned" /\ pc' = "read" /\ early' = rows
      /\ UNCHANGED <<read, rows, tries, window, parts, present, todo, lo, step, got>>
  BY DEF Ranges!Begins, Ranges!planned, Ranges!sweeping
<1>2. /\ present \subseteq rows /\ todo = DOMAIN parts /\ \A k \in RangeKeys : got[k] = 0
      /\ Ranges!Swept => lo = Ranges!Begin(window.min)
      /\ ~Ranges!Swept => read.given = Ranges!NoBounds
  BY <1>1 DEF Ranges!KInv, Ranges!Typed, Ranges!Planned
<1>3. Ranges!Typed'
  BY <1>1, <1>2
  DEF Ranges!KInv, Ranges!Typed, Ranges!TypeOK, Ranges!Planned, Ranges!Swept, Ranges!MayHold
<1>4. Ranges!Divided'
  BY <1>1, KeysSameDivided DEF Ranges!KInv, Ranges!Planned
<1>5. Ranges!PartsRead'
  <2>1. DOMAIN parts' \ todo' = {} /\ \A k \in RangeKeys : got'[k] = 0
    BY <1>1, <1>2
  <2> QED BY <1>1, <2>1 DEF Ranges!PartsRead
<1>6. Ranges!Placed'
  BY <1>1 DEF Ranges!KInv, Ranges!Placed, Ranges!Planned, Ranges!Swept
<1>7. Ranges!WindowsRead'
  <2>1. SUFFICES ASSUME Ranges!Swept PROVE Ranges!WindowsRead'
    BY <1>1 DEF Ranges!WindowsRead, Ranges!Swept
  <2>2. /\ lo = Ranges!Begin(window.min) /\ window.min \in MinInt..MaxInt
        /\ MinInt \in Int /\ MaxInt \in Int /\ rows \subseteq RangeKeys
    BY <1>1, <1>2, <2>1, KeysReadIs DEF Ranges!KInv, Ranges!Placed, Ranges!Planned
  <2>3. window.min \in Int /\ MinInt <= window.min
    BY <2>2
  <2>4. Ranges!Begin(window.min) \in Int
    BY <2>3, KeysBeginIs
  <2>5. ASSUME NEW k \in RangeKeys PROVE ~Ranges!Taken(k)'
    <3>1. k # NullKey => k \in Int
      BY DEF Ranges!RangesConstants
    <3> QED BY <1>1, <2>2, <2>4, <3>1 DEF Ranges!Taken
  <2>6. \A k \in RangeKeys : got'[k] = 0
    BY <1>1, <1>2
  <2>7. rows' \subseteq RangeKeys /\ early' \subseteq RangeKeys /\ pc' # "done"
    BY <1>1, <2>2
  <2> QED BY <2>5, <2>6, <2>7 DEF Ranges!WindowsRead
<1> QED BY <1>3, <1>4, <1>5, <1>6, <1>7 DEF Ranges!KInv

\* A statement adds to what was read the rows it asks for that pass.
LEMMA KeysSendIs ==
  ASSUME Ranges!RangesConstants, Ranges!KInv, NEW ks, Ranges!Send(ks),
         \A k \in ks \cap RangeKeys : Ranges!Passes(k) => got[k] = 0
  PROVE  /\ got' \in [RangeKeys -> {0, 1}]
         /\ \A k \in RangeKeys : got'[k] = 1 <=>
            got[k] = 1 \/ (k \in rows /\ k \in ks /\ Ranges!Passes(k))
<1>1. got' = [k \in RangeKeys |-> got[k] + (IF k \in rows /\ k \in ks
      /\ Ranges!Passes(k) THEN 1 ELSE 0)]
  BY DEF Ranges!Send
<1>2. got \in [RangeKeys -> {0, 1}]
  BY DEF Ranges!KInv, Ranges!Typed
<1>3. ASSUME NEW k \in RangeKeys
      PROVE  /\ got'[k] \in {0, 1}
             /\ got'[k] = 1 <=> got[k] = 1 \/ (k \in rows /\ k \in ks /\ Ranges!Passes(k))
  <2>1. got[k] \in {0, 1}
    BY <1>2
  <2>2. CASE k \in rows /\ k \in ks /\ Ranges!Passes(k)
    <3>1. got'[k] = got[k] + 1
      BY <1>1, <2>2
    <3>2. got[k] = 0
      BY <2>2
    <3> QED BY <2>2, <3>1, <3>2
  <2>3. CASE ~(k \in rows /\ k \in ks /\ Ranges!Passes(k))
    <3>1. got'[k] = got[k] + 0
      BY <1>1, <2>3
    <3>2. got'[k] = got[k]
      BY <2>1, <3>1
    <3> QED BY <2>1, <2>3, <3>2
  <2> QED BY <2>2, <2>3
<1> QED BY <1>1, <1>3

\* A partition is read: no other one has its keys.
LEMMA KeysReadPartKeeps ==
  ASSUME Ranges!RangesConstants, Ranges!KInv, Ranges!ReadPart
  PROVE  Ranges!KInv'
<1>1. PICK i \in todo :
        /\ Ranges!Send(Ranges!Of(parts[i])) /\ todo' = todo \ {i}
        /\ pc' = IF todo = {i} THEN "done" ELSE pc
  BY DEF Ranges!ReadPart, Ranges!Of
<1>2. /\ pc = "read" /\ ~Ranges!Swept
      /\ UNCHANGED <<read, rows, tries, window, parts, present, lo, step, early>>
  BY DEF Ranges!ReadPart, Ranges!planned, Ranges!sweeping
<1>3. /\ todo \subseteq DOMAIN parts /\ Ranges!Planned /\ ~Ranges!Swept' /\ pc' \in {"read", "done"}
      /\ Ranges!Planned' /\ early \subseteq rows /\ read.given = Ranges!NoBounds
  BY <1>1, <1>2 DEF Ranges!KInv, Ranges!Typed, Ranges!TypeOK, Ranges!Planned, Ranges!Swept
<1>4. \A k \in Ranges!Of(parts[i]) \cap RangeKeys : Ranges!Passes(k) => got[k] = 0
  <2>1. SUFFICES ASSUME NEW k \in RangeKeys, k \in Ranges!Of(parts[i]),
                        Ranges!Passes(k) PROVE got[k] # 1
    BY DEF Ranges!KInv, Ranges!Typed
  <2>2. SUFFICES ASSUME got[k] = 1 PROVE FALSE
    OBVIOUS
  <2>3. PICK j \in DOMAIN parts \ todo : k \in Ranges!Of(parts[j])
    BY <1>2, <2>1, <2>2 DEF Ranges!KInv, Ranges!PartsRead
  <2>4. Ranges!Of(parts[i]) \cap Ranges!Of(parts[j]) # {}
    BY <2>1, <2>3
  <2>5. i = j
    BY <1>1, <1>2, <1>3, <2>3, <2>4 DEF Ranges!KInv, Ranges!Divided
  <2> QED BY <2>3, <2>5
<1>5. /\ got' \in [RangeKeys -> {0, 1}]
      /\ \A k \in RangeKeys : got'[k] = 1 <=>
         got[k] = 1 \/ (k \in rows /\ k \in Ranges!Of(parts[i]) /\ Ranges!Passes(k))
  BY <1>1, <1>4, KeysSendIs
<1>6. Ranges!Typed'
  <2>1. Ranges!TypeOK'
    BY <1>1, <1>2, <1>3 DEF Ranges!KInv, Ranges!Typed, Ranges!TypeOK
  <2>2. \A x \in rows' : Ranges!MayHold(x)'
    BY <1>2 DEF Ranges!KInv, Ranges!Typed, Ranges!MayHold
  <2>3. present \subseteq early /\ present \subseteq rows
    BY <1>2, <1>3 DEF Ranges!KInv, Ranges!Typed
  <2> QED BY <1>2, <1>3, <1>5, <2>1, <2>2, <2>3 DEF Ranges!Typed
<1>7. Ranges!Divided'
  BY <1>2, <1>3, KeysSameDivided DEF Ranges!KInv
<1>8. Ranges!PartsRead'
  <2>1. pc' = "done" => todo' = {}
    BY <1>1, <1>2
  <2>2. DOMAIN parts \ todo' = (DOMAIN parts \ todo) \cup {i}
    BY <1>1, <1>3
  <2>3. \A k : Ranges!Passes(k)' <=> Ranges!Passes(k)
    BY <1>2 DEF Ranges!Passes, Ranges!Above
  <2>4. ASSUME NEW k \in RangeKeys, got'[k] = 1
        PROVE  Ranges!Passes(k) /\ \E j \in DOMAIN parts \ todo' : k \in Ranges!Of(parts[j])
    BY <1>2, <1>5, <2>2, <2>4 DEF Ranges!KInv, Ranges!PartsRead
  <2>5. ASSUME NEW k \in early, NEW j \in DOMAIN parts \ todo', Ranges!Passes(k),
               k \in Ranges!Of(parts[j])
        PROVE  got'[k] = 1
    <3>1. k \in rows /\ k \in RangeKeys
      BY <1>3 DEF Ranges!KInv, Ranges!Typed, Ranges!TypeOK
    <3>2. j = i \/ got[k] = 1
      BY <1>2, <2>2, <2>5 DEF Ranges!KInv, Ranges!PartsRead
    <3> QED BY <1>5, <2>5, <3>1, <3>2
  <2> QED BY <1>2, <2>1, <2>3, <2>4, <2>5 DEF Ranges!PartsRead
<1>9. Ranges!Placed' /\ Ranges!WindowsRead'
  BY <1>3 DEF Ranges!Placed, Ranges!WindowsRead
<1> QED BY <1>6, <1>7, <1>8, <1>9 DEF Ranges!KInv

\* Where a sweep is.
LEMMA KeysSweepIs ==
  ASSUME Ranges!RangesConstants, Ranges!KInv, pc \in {"read", "done"}, Ranges!Swept
  PROVE  /\ window.min \in Int /\ window.max \in Int /\ lo \in Int
            /\ Ranges!Begin(window.min) \in Int
         /\ MinInt <= window.min /\ window.min <= window.max /\ window.max <= MaxInt
         /\ Ranges!Begin(window.min) <= lo /\ lo <= window.max
            /\ window.min - 1 <= Ranges!Begin(window.min)
         /\ window.min # MinInt => Ranges!Begin(window.min) < window.min
         /\ window.min = MinInt => Ranges!Begin(window.min) = MinInt
         /\ MinInt \in Int /\ MaxInt \in Int /\ Ranges!Planned
         /\ present \subseteq early /\ early \subseteq rows /\ rows \subseteq RangeKeys
<1>1. /\ MinInt \in Int /\ MaxInt \in Int /\ Ranges!Planned
      /\ present \subseteq early /\ early \subseteq rows /\ rows \subseteq RangeKeys
  BY KeysReadIs DEF Ranges!KInv, Ranges!Planned, Ranges!Typed
<1>2. /\ window.min \in MinInt..MaxInt /\ window.max \in window.min..MaxInt
      /\ lo \in Ranges!Begin(window.min)..window.max
  BY <1>1 DEF Ranges!KInv, Ranges!Placed
<1>3. window.min \in Int /\ MinInt <= window.min
  BY <1>1, <1>2
<1>4. /\ Ranges!Begin(window.min) \in Int /\ MinInt <= Ranges!Begin(window.min)
      /\ Ranges!Begin(window.min) <= window.min /\ window.min - 1 <= Ranges!Begin(window.min)
      /\ window.min # MinInt => Ranges!Begin(window.min) < window.min
  BY <1>3, KeysBeginIs
<1>5. window.max \in Int /\ window.min <= window.max /\ window.max <= MaxInt
  BY <1>1, <1>2
<1>6. lo \in Int /\ Ranges!Begin(window.min) <= lo /\ lo <= window.max
  BY <1>2, <1>4, <1>5
<1> QED BY <1>1, <1>3, <1>4, <1>5, <1>6

\* plan_read_window: a window is no narrower than this.
LEMMA KeysFloorIs ==
  ASSUME Ranges!RangesConstants, Ranges!KInv
  PROVE  Ranges!Floor \in Nat /\ Ranges!Floor <= read.start /\ read.start \in Nat
         /\ read.ceiling \in Nat
<1>1. read.start \in Nat /\ read.ceiling \in Nat
  BY KeysReadIs DEF Ranges!KInv
<1>2. LeastWindow \in Nat
  BY DEF Ranges!RangesConstants
<1>3. read.start \div 64 \in Nat
  BY <1>1, KeysDividedBy
<1> QED BY <1>1, <1>2, <1>3 DEF Ranges!Floor, Ranges!Larger, Ranges!Smaller

\* next_window: a window begins where the last one ended.
LEMMA KeysReadWindowKeeps ==
  ASSUME Ranges!RangesConstants, Ranges!KInv, Ranges!ReadWindow
  PROVE  Ranges!KInv'
<1> DEFINE ks == {k \in Ranges!Integer(RangeKeys) : lo < k /\ k <= Ranges!Until}
<1>1. /\ pc = "read" /\ Ranges!Swept /\ lo < window.max /\ Ranges!Send(ks) /\ lo' = Ranges!Until
      /\ UNCHANGED <<read, rows, pc, tries, window, parts, present, todo, early>>
  BY DEF Ranges!ReadWindow, Ranges!planned
<1>2. /\ window.max \in Int /\ lo \in Int /\ Ranges!Begin(window.min) \in Int
         /\ Ranges!Begin(window.min) <= lo
      /\ lo <= window.max /\ MinInt \in Int /\ MaxInt \in Int /\ MinInt <= window.min
      /\ window.min \in Int /\ window.min - 1 <= Ranges!Begin(window.min) /\ window.max <= MaxInt
      /\ Ranges!Planned /\ early \subseteq rows /\ rows \subseteq RangeKeys
      /\ window.min = MinInt => Ranges!Begin(window.min) = MinInt
  BY <1>1, KeysSweepIs
<1>3. step \in Nat
  BY <1>2, KeysFloorIs DEF Ranges!KInv, Ranges!Typed, Ranges!TypeOK, Ranges!Larger
<1>4. Ranges!Until \in Int /\ lo <= Ranges!Until /\ Ranges!Until <= window.max
  BY <1>1, <1>2, <1>3 DEF Ranges!Until, Ranges!Smaller
<1>5. MinInt <= Ranges!Begin(window.min)
  BY <1>2
<1>6. step' \in 0..Ranges!Larger(read.ceiling, read.start)
  <2>1. PICK w \in ((step + 2) \div 4)..((5 * step + 2) \div 4) :
          step' = Ranges!Larger(Ranges!Smaller(w, read.ceiling), Ranges!Floor)
    BY DEF Ranges!ReadWindow
  <2>2. w \in Int
    BY <2>1
  <2> QED BY <2>1, <2>2, KeysFloorIs DEF Ranges!Larger, Ranges!Smaller
<1>7. ASSUME NEW k \in RangeKeys PROVE k # NullKey => k \in Int
  BY DEF Ranges!RangesConstants
<1> HIDE DEF ks
<1>8. \A k \in ks : k \in RangeKeys /\ k # NullKey /\ lo < k /\ k <= Ranges!Until
  BY DEF ks, Ranges!Integer
<1>9. \A k \in ks \cap RangeKeys : Ranges!Passes(k) => got[k] = 0
  <2>1. \A k \in ks : ~Ranges!Taken(k)
    BY <1>2, <1>7, <1>8 DEF Ranges!Taken
  <2>2. \A k \in ks \cap RangeKeys : got[k] # 1
    BY <1>1, <1>8, <2>1 DEF Ranges!KInv, Ranges!WindowsRead
  <2> QED BY <2>2 DEF Ranges!KInv, Ranges!Typed
<1>10. /\ got' \in [RangeKeys -> {0, 1}]
       /\ \A k \in RangeKeys : got'[k] = 1 <=>
          got[k] = 1 \/ (k \in rows /\ k \in ks /\ Ranges!Passes(k))
  BY <1>1, <1>9, KeysSendIs
<1>11. Ranges!Typed'
  <2>1. lo' \in MinInt..MaxInt
    BY <1>1, <1>2, <1>4, <1>5
  <2>2. Ranges!TypeOK'
    BY <1>1, <1>6, <2>1 DEF Ranges!KInv, Ranges!Typed, Ranges!TypeOK
  <2>3. \A x \in rows' : Ranges!MayHold(x)'
    BY <1>1 DEF Ranges!KInv, Ranges!Typed, Ranges!MayHold
  <2> QED BY <1>1, <1>10, <2>2, <2>3 DEF Ranges!KInv, Ranges!Typed, Ranges!Planned, Ranges!Swept
<1>12. Ranges!Divided' /\ Ranges!PartsRead'
  BY <1>1 DEF Ranges!Divided, Ranges!PartsRead, Ranges!Swept
<1>13. Ranges!Placed'
  <2>1. lo' \in Ranges!Begin(window.min)..window.max
    BY <1>1, <1>2, <1>4
  <2> QED BY <1>1, <1>2, <2>1 DEF Ranges!KInv, Ranges!Placed, Ranges!Planned, Ranges!Swept
<1>14. Ranges!WindowsRead'
  <2>1. ASSUME NEW k \in RangeKeys
        PROVE  Ranges!Taken(k)' <=> Ranges!Taken(k) \/ k \in ks
    <3>1. Ranges!Taken(k)' <=> k # NullKey /\ Ranges!Begin(window.min) < k /\ k <= Ranges!Until
      BY <1>1 DEF Ranges!Taken
    <3>2. k \in ks <=> k # NullKey /\ lo < k /\ k <= Ranges!Until
      BY DEF ks, Ranges!Integer
    <3> QED BY <1>2, <1>4, <1>7, <3>1, <3>2 DEF Ranges!Taken
  <2>2. \A k : Ranges!Passes(k)' <=> Ranges!Passes(k)
    BY <1>1 DEF Ranges!Passes, Ranges!Above
  <2>3. \A k \in RangeKeys : got'[k] = 1 => Ranges!Passes(k) /\ Ranges!Taken(k)'
    BY <1>1, <1>10, <2>1 DEF Ranges!KInv, Ranges!WindowsRead
  <2>4. \A k \in early : Ranges!Passes(k) /\ Ranges!Taken(k)' => got'[k] = 1
    BY <1>1, <1>2, <1>10, <2>1 DEF Ranges!KInv, Ranges!WindowsRead
  <2> QED BY <1>1, <2>2, <2>3, <2>4 DEF Ranges!WindowsRead
<1> QED BY <1>11, <1>12, <1>13, <1>14 DEF Ranges!KInv

\* A window that is cancelled sent nothing.
LEMMA KeysCancelWindowKeeps ==
  ASSUME Ranges!RangesConstants, Ranges!KInv, Ranges!CancelWindow
  PROVE  Ranges!KInv'
<1>1. /\ pc = "read" /\ Ranges!Swept
      /\ UNCHANGED <<read, rows, tries, window, parts, present, todo, lo, early, got>>
  BY DEF Ranges!CancelWindow, Ranges!planned
<1>2. CASE step > Ranges!Floor
  <2>1. step' = Ranges!Larger(step \div 2, Ranges!Floor) /\ UNCHANGED pc
    BY <1>2 DEF Ranges!CancelWindow
  <2>2. step \in Nat /\ step <= Ranges!Larger(read.ceiling, read.start)
    BY KeysFloorIs DEF Ranges!KInv, Ranges!Typed, Ranges!TypeOK, Ranges!Larger
  <2>3. step \div 2 \in Nat /\ step \div 2 <= step
    BY <2>2
  <2>4. step' \in 0..Ranges!Larger(read.ceiling, read.start)
    BY <2>1, <2>2, <2>3, KeysFloorIs DEF Ranges!Larger
  <2> QED BY <1>1, <2>1, <2>4
          DEF Ranges!KInv, Ranges!Typed, Ranges!TypeOK, Ranges!MayHold, Ranges!Planned,
              Ranges!Swept, Ranges!Divided, Ranges!PartsRead, Ranges!Placed, Ranges!WindowsRead,
              Ranges!Passes, Ranges!Above, Ranges!Taken
<1>3. CASE ~(step > Ranges!Floor)
  <2>1. pc' = "failed" /\ UNCHANGED step
    BY <1>3 DEF Ranges!CancelWindow
  <2> QED BY <1>1, <2>1
          DEF Ranges!KInv, Ranges!Typed, Ranges!TypeOK, Ranges!MayHold, Ranges!Planned,
              Ranges!Divided, Ranges!PartsRead, Ranges!Placed, Ranges!WindowsRead
<1> QED BY <1>2, <1>3

\* A sweep ends with the rows without a key.
LEMMA KeysReadNullKeeps ==
  ASSUME Ranges!RangesConstants, Ranges!KInv, Ranges!ReadNull
  PROVE  Ranges!KInv'
<1> DEFINE nulls == read.nullable /\ read.given = Ranges!NoBounds
           ks == IF nulls THEN {NullKey} ELSE {}
<1>1. /\ pc = "read" /\ Ranges!Swept /\ lo >= window.max /\ Ranges!Send(ks) /\ todo' = {}
         /\ pc' = "done"
      /\ UNCHANGED <<read, rows, tries, window, parts, present, lo, step, early>>
  BY DEF Ranges!ReadNull, Ranges!planned, Ranges!sweeping
<1>2. lo = window.max /\ early \subseteq rows /\ rows \subseteq RangeKeys
  BY <1>1, KeysSweepIs
<1>3. \A k : k \in ks <=> nulls /\ k = NullKey
  OBVIOUS
<1>4. \A k \in rows : Ranges!MayHold(k)
  BY DEF Ranges!KInv, Ranges!Typed
<1> HIDE DEF ks
<1>5. \A k \in ks \cap RangeKeys : Ranges!Passes(k) => got[k] = 0
  <2>1. \A k \in ks \cap RangeKeys : got[k] # 1
    BY <1>1, <1>3 DEF Ranges!KInv, Ranges!WindowsRead, Ranges!Taken
  <2> QED BY <2>1 DEF Ranges!KInv, Ranges!Typed
<1>6. /\ got' \in [RangeKeys -> {0, 1}]
      /\ \A k \in RangeKeys : got'[k] = 1 <=>
         got[k] = 1 \/ (k \in rows /\ k \in ks /\ Ranges!Passes(k))
  BY <1>1, <1>5, KeysSendIs
<1>7. Ranges!Typed'
  <2>1. Ranges!TypeOK'
    BY <1>1 DEF Ranges!KInv, Ranges!Typed, Ranges!TypeOK
  <2>2. \A x \in rows' : Ranges!MayHold(x)'
    BY <1>1 DEF Ranges!KInv, Ranges!Typed, Ranges!MayHold
  <2> QED BY <1>1, <1>6, <2>1, <2>2 DEF Ranges!KInv, Ranges!Typed, Ranges!Planned, Ranges!Swept
<1>8. Ranges!Divided' /\ Ranges!PartsRead'
  BY <1>1 DEF Ranges!Divided, Ranges!PartsRead, Ranges!Swept
<1>9. Ranges!Placed'
  BY <1>1 DEF Ranges!KInv, Ranges!Placed, Ranges!Planned, Ranges!Swept
<1>10. Ranges!WindowsRead'
  <2>1. \A k : (Ranges!Passes(k)' <=> Ranges!Passes(k)) /\ (Ranges!Taken(k)' <=> Ranges!Taken(k))
    BY <1>1 DEF Ranges!Passes, Ranges!Above, Ranges!Taken
  <2>2. \A k \in RangeKeys : got'[k] = 1 =>
           Ranges!Passes(k) /\ (Ranges!Taken(k) \/ (k = NullKey /\ read.given = Ranges!NoBounds))
    BY <1>1, <1>3, <1>6 DEF Ranges!KInv, Ranges!WindowsRead
  <2>3. \A k \in early : Ranges!Passes(k)
        /\ (Ranges!Taken(k) \/ (k = NullKey /\ read.given = Ranges!NoBounds)) =>
           got'[k] = 1
    <3>1. SUFFICES ASSUME NEW k \in early, Ranges!Passes(k), Ranges!Taken(k)
                          \/ (k = NullKey /\ read.given = Ranges!NoBounds)
                   PROVE  got'[k] = 1
      OBVIOUS
    <3>2. k \in rows /\ k \in RangeKeys
      BY <1>2
    <3>3. CASE Ranges!Taken(k)
      BY <1>1, <1>6, <3>1, <3>2, <3>3 DEF Ranges!KInv, Ranges!WindowsRead
    <3>4. CASE k = NullKey /\ read.given = Ranges!NoBounds
      <4>1. read.nullable
        BY <1>4, <3>2, <3>4 DEF Ranges!MayHold
      <4> QED BY <1>3, <1>6, <3>1, <3>2, <3>4, <4>1
    <3> QED BY <3>1, <3>3, <3>4
  <2> QED BY <1>1, <1>2, <2>1, <2>2, <2>3 DEF Ranges!WindowsRead
<1> QED BY <1>7, <1>8, <1>9, <1>10 DEF Ranges!KInv

\* It holds before the read is planned.
LEMMA KeysInitInv ==
  ASSUME Ranges!RangesConstants, Ranges!Init
  PROVE  Ranges!KInv
<1>1. rows \subseteq RangeKeys /\ Ranges!Cardinality(rows) < KeyRows
      /\ \A k \in rows : Ranges!MayHold(k)
  BY DEF Ranges!Init
<1>2. Ranges!TypeOK
  <2>1. read \in KeyedReads /\ lo = 0 /\ step = 0 /\ tries = 0 /\ todo = {} /\ pc = "plan"
    BY DEF Ranges!Init
  <2>2. IsFiniteSet(rows) /\ KeyRows \in Nat /\ BoundsAttempts \in Nat \ {0} /\ 0 \in MinInt..MaxInt
    BY <1>1, KeysIntegersAre DEF Ranges!RangesConstants
  <2>3. Ranges!Cardinality(rows) \in Nat
    BY <2>2, FS_CardinalityType, KeysLibrary
  <2>4. Ranges!Cardinality(rows) <= KeyRows
    BY <1>1, <2>2, <2>3
  <2>5. step \in 0..Ranges!Larger(read.ceiling, read.start)
    BY <2>1 DEF Ranges!RangesConstants, Ranges!Larger
  <2> QED BY <1>1, <2>1, <2>2, <2>4, <2>5 DEF Ranges!TypeOK
<1>3. got \in [RangeKeys -> {0, 1}] /\ \A k \in RangeKeys : got[k] = 0
  BY DEF Ranges!Init
<1>4. pc = "plan"
  BY DEF Ranges!Init
<1> QED BY <1>1, <1>2, <1>3, <1>4 DEF Ranges!KInv, Ranges!Typed, Ranges!Planned, Ranges!Divided,
                                      Ranges!PartsRead, Ranges!Placed, Ranges!WindowsRead

\* Every action keeps the invariant.
LEMMA KeysNextKeeps ==
  ASSUME Ranges!RangesConstants, Ranges!KInv, [Ranges!Next]_Ranges!vars
  PROVE  Ranges!KInv'
<1>1. CASE UNCHANGED Ranges!vars
  <2>1. UNCHANGED <<read, rows, pc, tries, window, parts, present, todo, lo, step, early, got>>
    BY <1>1 DEF Ranges!vars, Ranges!planned, Ranges!sweeping
  <2> QED BY <2>1
          DEF Ranges!KInv, Ranges!Typed, Ranges!TypeOK, Ranges!MayHold, Ranges!Planned,
              Ranges!Swept, Ranges!Divided, Ranges!PartsRead, Ranges!Placed, Ranges!WindowsRead,
              Ranges!Passes, Ranges!Above, Ranges!Taken, Ranges!Covered, Ranges!Bottom
<1> QED BY <1>1, KeysGrowKeeps, KeysPlanRangesKeeps, KeysPlanOnePassKeeps, KeysPlanGivenKeeps,
    KeysPlanSweepKeeps,
           KeysProbeFailsKeeps, KeysBeginsKeeps, KeysReadPartKeeps, KeysReadWindowKeeps,
           KeysCancelWindowKeeps,
           KeysReadNullKeeps DEF Ranges!Next

\* What it says of a read that is done.
LEMMA KeysInvHolds ==
  ASSUME Ranges!RangesConstants, Ranges!KInv
  PROVE  Ranges!TypeOK /\ Ranges!KeysReadOnce
<1>1. Ranges!TypeOK /\ \A k \in RangeKeys : got[k] \in {0, 1}
  BY DEF Ranges!KInv, Ranges!Typed
<1>2. \A k \in RangeKeys : got[k] <= 1
  BY <1>1
<1>3. ASSUME pc = "done", NEW k \in RangeKeys
      PROVE  /\ got[k] = 1 => Ranges!Asked(k)
             /\ Ranges!Asked(k) /\ (k \in present \/ (k \in early /\ Ranges!Covered(k))) =>
                  got[k] = 1 \/ (k = MinInt /\ Ranges!Swept)
  <2>1. /\ Ranges!Planned /\ present \subseteq early /\ early \subseteq rows
        /\ \A x \in rows : Ranges!MayHold(x)
    BY <1>3 DEF Ranges!KInv, Ranges!Typed, Ranges!Planned
  <2>2. CASE ~Ranges!Swept
    <3>1. read.given = Ranges!NoBounds /\ todo = {}
      BY <1>3, <2>1, <2>2 DEF Ranges!KInv, Ranges!Typed, Ranges!PartsRead
    <3>2. got[k] = 1 => Ranges!Asked(k)
      BY <1>3, <2>2, <3>1 DEF Ranges!KInv, Ranges!PartsRead, Ranges!Asked
    <3>3. ASSUME Ranges!Asked(k), k \in present \/ (k \in early /\ Ranges!Covered(k))
          PROVE  got[k] = 1
      <4>1. k \in early /\ Ranges!Passes(k) /\ Ranges!MayHold(k)
        BY <2>1, <3>3 DEF Ranges!Asked
      <4>2. PICK i \in DOMAIN parts : k \in Ranges!Of(parts[i])
        BY <2>1, <2>2, <3>3, <4>1 DEF Ranges!KInv, Ranges!Divided
      <4> QED BY <1>3, <2>2, <3>1, <4>1, <4>2 DEF Ranges!KInv, Ranges!PartsRead
    <3> QED BY <3>2, <3>3
  <2>3. CASE Ranges!Swept
    <3>1. /\ window.min \in Int /\ window.max \in Int /\ Ranges!Begin(window.min) \in Int
          /\ MinInt <= window.min /\ window.min - 1 <= Ranges!Begin(window.min)
          /\ window.min # MinInt => Ranges!Begin(window.min) < window.min
          /\ window.min = MinInt => Ranges!Begin(window.min) = MinInt
          /\ MinInt \in Int
      BY <1>3, <2>3, KeysSweepIs
    <3>2. lo = window.max
      BY <1>3, <2>3 DEF Ranges!KInv, Ranges!WindowsRead
    <3>3. IF read.given # Ranges!NoBounds THEN window = read.given
          ELSE \A x \in Ranges!Integer(present) : x \in Ranges!In(window)
      BY <2>1, <2>3 DEF Ranges!KInv, Ranges!Placed
    <3>4. k # NullKey => k \in Int /\ k >= MinInt
      BY DEF Ranges!RangesConstants
    <3>5. ASSUME got[k] = 1 PROVE Ranges!Asked(k)
      <4>1. Ranges!Passes(k) /\ (Ranges!Taken(k) \/ (k = NullKey /\ read.given = Ranges!NoBounds))
        BY <1>3, <2>3, <3>5 DEF Ranges!KInv, Ranges!WindowsRead
      <4>2. ASSUME Ranges!Taken(k)
            PROVE  k # NullKey /\ window.min <= k /\ k <= window.max
        BY <3>1, <3>2, <3>4, <4>2 DEF Ranges!Taken
      <4> QED BY <3>3, <4>1, <4>2 DEF Ranges!Asked
    <3>6. ASSUME Ranges!Asked(k), k \in present \/ (k \in early /\ Ranges!Covered(k)), k # MinInt
                 \/ k = NullKey
          PROVE  got[k] = 1
      <4>1. k \in early /\ Ranges!Passes(k)
        BY <2>1, <3>6 DEF Ranges!Asked
      <4>2. CASE k = NullKey
        <5>1. read.given = Ranges!NoBounds
          BY <3>6, <4>2 DEF Ranges!Asked
        <5> QED BY <1>3, <2>3, <4>1, <4>2, <5>1 DEF Ranges!KInv, Ranges!WindowsRead
      <4>3. CASE k # NullKey
        <5>1. window.min <= k /\ k <= window.max
          <6>1. CASE read.given # Ranges!NoBounds
            BY <3>3, <3>6, <6>1 DEF Ranges!Asked
          <6>2. CASE read.given = Ranges!NoBounds
            <7>1. k \in Ranges!In(window)
              BY <2>3, <3>3, <3>6, <4>3, <6>2 DEF Ranges!Covered, Ranges!Integer
            <7> QED BY <7>1 DEF Ranges!In
          <6> QED BY <6>1, <6>2
        <5>2. Ranges!Taken(k)
          BY <3>1, <3>2, <3>4, <3>6, <4>3, <5>1 DEF Ranges!Taken
        <5> QED BY <1>3, <2>3, <4>1, <5>2 DEF Ranges!KInv, Ranges!WindowsRead
      <4> QED BY <4>2, <4>3
    <3> QED BY <2>3, <3>5, <3>6
  <2> QED BY <2>2, <2>3
<1> QED BY <1>1, <1>2, <1>3 DEF Ranges!KeysReadOnce

\* The inductive invariant of a plain read's ranges and windows holds in every
\* state.
THEOREM KeysInvariant == Spec => [](which = "keys" => Ranges!KInv)
<1>1. Init => (which = "keys" => Ranges!KInv)
  BY Begins, RangesInstance, KeysInitInv
<1>2. (which = "keys" => Ranges!KInv) /\ [Next]_readsVars => (which = "keys" => Ranges!KInv)'
  BY Goes, RangesInstance, KeysNextKeeps
<1> QED BY <1>1, <1>2, PTL DEF Spec

\* Every row a read asks for that was there when its bounds were found, or that
\* came inside them before it began, is read once, and no row is read twice:
\* however many ranges range_partitions makes of the keys, however wide next_window
\* makes a window, however often one is cancelled, and whatever is added meanwhile.
\* A sweep leaves out a key that is i64::MIN.
THEOREM KeysAreReadOnce == Spec => []KeysReadOnce
<1>1. (which = "keys" => Ranges!KInv) => KeysReadOnce
  BY RangesInstance, KeysInvHolds DEF KeysReadOnce
<1> QED BY <1>1, KeysInvariant, PTL

-----------------------------------------------------------------------------
(* What may be asked of a transfer.                                       *)

\* normalize takes options away, of a full refresh.
LEMMA ConfigNormalizedIs ==
  ASSUME NEW c \in Config!AskedTransfers
  PROVE  /\ Config!Normalized(c) \in Config!AskedTransfers
         /\ Config!Normalized(c).source = c.source /\ Config!Normalized(c).dest = c.dest
         /\ Config!Normalized(c).mode = c.mode
         /\ c.mode # "full" => Config!Normalized(c).set = c.set
         /\ c.mode = "full" =>
              Config!Normalized(c).set = c.set \ {"watermark", "watermark_source_expr", "seed",
              "chunk_rows",
                                           "keyset_not_null"}
<1> DEFINE gone == {"watermark", "watermark_source_expr", "seed", "chunk_rows", "keyset_not_null"}
<1>1. CASE c.mode = "full"
  <2>1. Config!Normalized(c) = [c EXCEPT !.set = @ \ gone]
    BY <1>1 DEF Config!Normalized
  <2> HIDE DEF gone
  <2>2. /\ Config!Normalized(c) \in Config!AskedTransfers
        /\ Config!Normalized(c).source = c.source /\ Config!Normalized(c).dest = c.dest
        /\ Config!Normalized(c).mode = c.mode /\ Config!Normalized(c).set = c.set \ gone
    BY <2>1 DEF Config!AskedTransfers
  <2> QED BY <1>1, <2>2 DEF gone
<1>2. CASE c.mode # "full"
  BY <1>2 DEF Config!Normalized
<1> QED BY <1>1, <1>2

\* What is asked for is of these types.
LEMMA ConfigAskedIs ==
  ASSUME NEW c \in Config!AskedTransfers
  PROVE  /\ c.source \in Config!Sources /\ c.dest \in Config!Dests /\ c.mode \in Config!Modes
         /\ c.set \subseteq Config!Knobs \cup Config!Facts
  BY DEF Config!AskedTransfers

LEMMA ConfigValidateKeeps ==
  ASSUME Config!ConfigConstants, Config!ConfigInv, Config!Validate
  PROVE  Config!ConfigInv'
<1>1. pc = "asked" /\ asked \in Config!AskedTransfers /\ asked \in AskedFor
  BY DEF Config!Validate, Config!ConfigInv
<1>2. CASE Config!OptionsRefuse(asked)
  <2>1. pc' = "refused" /\ UNCHANGED <<asked, flow>>
    BY <1>2 DEF Config!Validate, Config!OptionsRefuse, Config!Refuse
  <2> QED BY <1>1, <2>1 DEF Config!ConfigInv, Config!TypeOK
<1>3. CASE ~Config!OptionsRefuse(asked)
  <2>1. pc' = "accepted" /\ asked' = Config!Normalized(asked)
    BY <1>3 DEF Config!Validate, Config!OptionsRefuse
  <2>2. asked' \in Config!AskedTransfers
    BY <1>1, <2>1, ConfigNormalizedIs
  <2>3. Config!TypeOK'
    BY <2>1, <2>2, ConfigAskedIs DEF Config!TypeOK
  <2>4. Config!Validated'
    BY <1>1, <1>3, <2>1 DEF Config!Validated
  <2> QED BY <2>1, <2>2, <2>3, <2>4 DEF Config!ConfigInv
<1> QED BY <1>2, <1>3

LEMMA ConfigDispatchKeeps ==
  ASSUME Config!ConfigInv, Config!Dispatch
  PROVE  Config!ConfigInv'
<1>1. pc = "accepted" /\ asked \in Config!AskedTransfers /\ Config!Validated
  BY DEF Config!Dispatch, Config!ConfigInv
<1>2. CASE Config!FlowRefuses(asked)
  <2>1. pc' = "refused" /\ UNCHANGED <<asked, flow>>
    BY <1>2 DEF Config!Dispatch, Config!FlowRefuses, Config!Refuse
  <2> QED BY <1>1, <2>1 DEF Config!ConfigInv, Config!TypeOK
<1>3. CASE ~Config!FlowRefuses(asked)
  <2>1. pc' = "planned" /\ flow' = Config!Plan(asked) /\ UNCHANGED asked
    BY <1>3 DEF Config!Dispatch, Config!FlowRefuses
  <2>2. Config!TypeOK'
    BY <1>1, <2>1, ConfigAskedIs DEF Config!TypeOK
  <2>3. Config!Validated' /\ ~Config!FlowRefuses(asked)'
    BY <1>1, <1>3, <2>1 DEF Config!Validated
  <2> QED BY <1>1, <2>1, <2>2, <2>3 DEF Config!ConfigInv
<1> QED BY <1>2, <1>3

LEMMA ConfigResolveKeeps ==
  ASSUME Config!ConfigInv, Config!Resolve
  PROVE  Config!ConfigInv'
<1>1. pc = "planned" /\ asked \in Config!AskedTransfers /\ Config!Validated
      /\ ~Config!FlowRefuses(asked)
  BY DEF Config!Resolve, Config!ConfigInv
<1>2. CASE Config!ColumnsRefuse(asked)
  <2>1. pc' = "refused" /\ UNCHANGED <<asked, flow>>
    BY <1>2 DEF Config!Resolve, Config!ColumnsRefuse, Config!Refuse
  <2> QED BY <1>1, <2>1 DEF Config!ConfigInv, Config!TypeOK
<1>3. CASE ~Config!ColumnsRefuse(asked)
  <2>1. pc' = "runs" /\ UNCHANGED <<asked, flow>>
    BY <1>3 DEF Config!Resolve, Config!ColumnsRefuse
  <2>2. Config!TypeOK'
    BY <1>1, <2>1 DEF Config!ConfigInv, Config!TypeOK
  <2>3. Config!Validated' /\ ~Config!FlowRefuses(asked)'
    BY <1>1, <2>1 DEF Config!Validated
  <2>4. ~Config!ColumnsRefuse(asked)'
    BY <1>3, <2>1
       DEF Config!ColumnsRefuse, Config!ChunkKeyRefuses, Config!WindowKeyRefuses,
           Config!StreamRefuses, Config!MergeRefuses
  <2> QED BY <1>1, <2>1, <2>2, <2>3, <2>4 DEF Config!ConfigInv
<1> QED BY <1>2, <1>3

LEMMA ConfigNextKeeps ==
  ASSUME Config!ConfigConstants, Config!ConfigInv, [Config!Next]_Config!vars
  PROVE  Config!ConfigInv'
<1>1. CASE UNCHANGED Config!vars
  BY <1>1 DEF Config!vars, Config!ConfigInv, Config!TypeOK, Config!Validated, Config!ColumnsRefuse,
              Config!ChunkKeyRefuses, Config!WindowKeyRefuses,
              Config!StreamRefuses, Config!MergeRefuses
<1> QED BY <1>1, ConfigValidateKeeps, ConfigDispatchKeeps, ConfigResolveKeeps
        DEF Config!Next, Config!Returned

LEMMA ConfigInitInv ==
  ASSUME Config!ConfigConstants, Config!Init
  PROVE  Config!ConfigInv
<1>1. asked \in AskedFor /\ asked \in Config!AskedTransfers /\ pc = "asked"
  BY DEF Config!Init, Config!ConfigConstants
<1> QED BY <1>1, ConfigAskedIs DEF Config!ConfigInv, Config!TypeOK

\* What the plan of a run says.
LEMMA ConfigPlanIs ==
  ASSUME Config!ConfigInv, pc = "runs"
  PROVE  /\ flow.flow = Config!FlowOf(asked)
         /\ flow.promote = Config!Promotion(asked)
         /\ flow.append <=> asked.mode = "append"
         /\ flow.counts <=> asked.dest = "bigquery"
         /\ flow.chunked <=> "chunk_rows" \in asked.set
         /\ flow.swept <=> Config!Windowed(asked)
         /\ flow.gate <=> "validate" \in asked.set
         /\ flow.delete_stale <=> "delete_stale" \in asked.set
         /\ flow.attempts = Config!Attempts(asked)
         /\ flow.saves <=> Config!KeepsCursor(asked) /\ "no_advance" \notin asked.set
            /\ asked.source # "frame"
         /\ flow.cursor = Config!CursorValues(asked)
<1>1. flow = Config!Plan(asked)
  BY DEF Config!ConfigInv, Config!TypeOK
<1> QED BY <1>1 DEF Config!Plan

\* What was not refused, of what is left once it is normalized.
LEMMA ConfigAcceptedIs ==
  ASSUME Config!ConfigConstants, Config!ConfigInv, pc = "runs"
  PROVE  /\ asked.dest = "csv" => asked.mode # "incremental" /\ "validate" \notin asked.set
         /\ "chunk_rows" \in asked.set => Config!Database(asked) /\ asked.mode = "incremental"
         /\ Config!KeepsCursor(asked) /\ asked.source # "frame" => "watermark" \in asked.set
         /\ "lookback" \in asked.set => asked.set \cap {"key", "order_by"} # {}
         /\ asked.mode = "append" =>
              /\ "validate" \notin asked.set
              /\ asked.dest # "csv" => ~Config!Database(asked)
         /\ Config!Windowed(asked) => asked.mode = "incremental"
         /\ "window_bounds" \in asked.set =>
              "no_advance" \in asked.set /\ "delete_stale" \notin asked.set
         /\ "delete_stale" \in asked.set =>
              /\ asked.mode = "incremental" /\ asked.dest # "csv"
              /\ asked.source # "frame" => "prune_watermark" \in asked.set
              /\ "chunk_rows" \notin asked.set /\ "watermark_source_expr" \notin asked.set
<1>1. PICK c \in AskedFor : ~Config!OptionsRefuse(c) /\ asked = Config!Normalized(c)
  BY DEF Config!ConfigInv, Config!Validated
<1>2. c \in Config!AskedTransfers
  BY DEF Config!ConfigConstants
<1>3. /\ asked.source = c.source /\ asked.dest = c.dest /\ asked.mode = c.mode
      /\ c.mode # "full" => asked.set = c.set
      /\ c.mode = "full" =>
           asked.set = c.set \ {"watermark", "watermark_source_expr", "seed", "chunk_rows",
                                "keyset_not_null"}
  BY <1>1, <1>2, ConfigNormalizedIs
<1>4. /\ asked.set \subseteq c.set /\ "chunk_rows" \in asked.set => c.mode # "full"
      /\ {"lookback", "validate", "windowed", "window_bounds", "delete_stale"} \cap c.set
           = {"lookback", "validate", "windowed", "window_bounds", "delete_stale"} \cap asked.set
  BY <1>3
<1>5. /\ ~Config!CsvRefuses(c) /\ ~Config!ReadRefuses(c) /\ ~Config!CursorRefuses(c)
         /\ ~Config!AppendRefuses(c)
      /\ ~Config!ChunkRefuses(c) /\ ~Config!SweepRefuses(c) /\ ~Config!BoundsRefuse(c)
         /\ ~Config!DeleteRefuses(c)
  BY <1>1 DEF Config!OptionsRefuse
<1>6. asked.dest = "csv" => asked.mode # "incremental" /\ "validate" \notin asked.set
  BY <1>3, <1>4, <1>5 DEF Config!CsvRefuses
<1>7. "chunk_rows" \in asked.set => Config!Database(asked) /\ asked.mode = "incremental"
  BY <1>3, <1>4, <1>5 DEF Config!ReadRefuses, Config!ChunkRefuses, Config!Database
<1>8. Config!KeepsCursor(asked) /\ asked.source # "frame" => "watermark" \in asked.set
  BY <1>3, <1>5 DEF Config!CursorRefuses, Config!KeepsCursor
<1>9. "lookback" \in asked.set => asked.set \cap {"key", "order_by"} # {}
  BY <1>3, <1>4, <1>5 DEF Config!CursorRefuses
<1>10. asked.mode = "append" =>
         /\ "validate" \notin asked.set
         /\ asked.dest # "csv" => ~Config!Database(asked)
  BY <1>3, <1>4, <1>5 DEF Config!AppendRefuses, Config!Database
<1>11. Config!Windowed(asked) => asked.mode = "incremental"
  BY <1>3, <1>4, <1>5 DEF Config!SweepRefuses, Config!Windowed
<1>12. "window_bounds" \in asked.set =>
       "no_advance" \in asked.set /\ "delete_stale" \notin asked.set
  BY <1>3, <1>4, <1>5 DEF Config!BoundsRefuse
<1>13. "delete_stale" \in asked.set =>
         /\ asked.mode = "incremental" /\ asked.dest # "csv"
         /\ asked.source # "frame" => "prune_watermark" \in asked.set
         /\ "chunk_rows" \notin asked.set /\ "watermark_source_expr" \notin asked.set
  BY <1>3, <1>4, <1>5, <1>6 DEF Config!DeleteRefuses
<1> QED BY <1>6, <1>7, <1>8, <1>9, <1>10, <1>11, <1>12, <1>13

LEMMA ConfigInvHolds ==
  ASSUME Config!ConfigConstants, Config!ConfigInv
  PROVE  Config!TypeOK /\ Config!AcceptedIsSound
<1> SUFFICES ASSUME pc = "runs" PROVE Config!AcceptedIsSound
  BY DEF Config!ConfigInv, Config!AcceptedIsSound
<1>1. /\ asked.source \in Config!Sources /\ asked.dest \in Config!Dests
         /\ asked.mode \in Config!Modes
      /\ ~Config!FlowRefuses(asked) /\ ~Config!ColumnsRefuse(asked)
  BY DEF Config!ConfigInv, Config!TypeOK
\* What each run is promoted by.
<1>2. /\ asked.mode = "full" => flow.promote = "swap"
      /\ asked.mode = "incremental" => flow.promote \in {"merge", "insert", "direct"}
      /\ asked.mode = "incremental" /\ Config!ForcesStaging(asked) =>
         flow.promote \in {"merge", "insert"}
  BY ConfigPlanIs DEF Config!Promotion
<1>3. asked.mode = "incremental" /\ asked.dest # "csv"
      /\ asked.set \cap {"validate", "delete_stale"} # {} =>
        flow.promote \in {"merge", "insert"}
  BY <1>1, ConfigPlanIs DEF Config!Promotion, Config!ForcesStaging, Config!Dests
<1>4. Config!IsTransfer
  <2>1. flow.chunked =>
        /\ flow.flow = "database" /\ flow.promote \in {"merge", "insert", "direct"}
        /\ ~flow.append /\ ~flow.gate /\ ~flow.delete_stale
    <3> SUFFICES ASSUME "chunk_rows" \in asked.set
                 PROVE  /\ Config!FlowOf(asked) = "database"
                        /\ flow.promote \in {"merge", "insert", "direct"}
                        /\ ~flow.append /\ ~flow.gate /\ ~flow.delete_stale
      BY ConfigPlanIs
    <3>1. Config!Database(asked) /\ asked.mode = "incremental" /\ "delete_stale" \notin asked.set
      BY ConfigAcceptedIs
    <3>2. asked.source # "bigquery" /\ "validate" \notin asked.set
      BY <1>1, <3>1 DEF Config!FlowRefuses, Config!SessionRefuses, Config!GateRefuses
    <3>3. Config!FlowOf(asked) = "database"
      BY <3>1, <3>2 DEF Config!FlowOf, Config!Database
    <3> QED BY <1>2, <3>1, <3>2, <3>3, ConfigPlanIs
  <2>2. flow.gate => flow.promote \in {"swap", "merge", "insert"}
    BY <1>1, <1>2, <1>3, ConfigPlanIs, ConfigAcceptedIs DEF Config!Modes
  <2>3. flow.delete_stale => flow.promote \in {"merge", "insert"}
    BY <1>1, <1>3, ConfigPlanIs, ConfigAcceptedIs
  <2>4. /\ flow.promote = "append" => flow.append
        /\ flow.append => flow.promote \in {"append", "direct"}
    BY ConfigPlanIs DEF Config!Promotion
  <2>5. flow.append /\ flow.promote = "direct" => flow.flow \in {"api", "frame"}
    <3> SUFFICES ASSUME asked.mode = "append", Config!Promotion(asked) = "direct"
                 PROVE  Config!FlowOf(asked) \in {"api", "frame"}
      BY ConfigPlanIs
    <3>1. asked.dest # "csv"
      BY DEF Config!Promotion, Config!ForcesStaging
    <3>2. ~Config!Database(asked)
      BY <3>1, ConfigAcceptedIs
    <3> QED BY <1>1, <3>2 DEF Config!FlowOf, Config!Database, Config!Sources
  <2>6. flow.counts =>
          flow.promote \in {"swap", "merge"} \/ (flow.append /\ flow.promote = "direct")
    BY <1>1, ConfigPlanIs DEF Config!Promotion, Config!ForcesStaging, Config!StagesForRetries,
       Config!Modes
  <2> QED BY <2>1, <2>2, <2>3, <2>4, <2>5, <2>6 DEF Config!IsTransfer
<1>5. flow.delete_stale => Config!LeftOut = {}
  BY ConfigPlanIs, ConfigAcceptedIs DEF Config!LeftOut
<1>6. flow.saves => "window_bounds" \notin asked.set /\ "watermark" \in asked.set
  BY ConfigPlanIs, ConfigAcceptedIs
<1>7. flow.saves /\ flow.cursor = "rows" =>
        asked.set \cap {"watermark_source_expr", "transforms_watermark"} = {}
  BY <1>1, ConfigPlanIs DEF Config!ColumnsRefuse, Config!StreamRefuses
<1>8. flow.promote = "merge" => "key" \in asked.set
  BY <1>1 DEF Config!ColumnsRefuse, Config!MergeRefuses
<1>9. flow.attempts > 1 /\ "keeps_duplicates" \in asked.set
         /\ asked.mode = "incremental" /\ asked.dest = "clickhouse" /\ Config!Database(asked) =>
            Config!Staged
  <2>1. SUFFICES ASSUME flow.attempts > 1, "keeps_duplicates" \in asked.set,
                        asked.mode = "incremental", asked.dest = "clickhouse",
                        Config!Database(asked)
                 PROVE  Config!Staged
    OBVIOUS
  <2>2. Config!Attempts(asked) > 1
    BY <2>1, ConfigPlanIs
  <2>3. Config!ForcesStaging(asked)
    BY <2>1, <2>2 DEF Config!ForcesStaging, Config!StagesForRetries
  <2> QED BY <1>2, <2>1, <2>3 DEF Config!Staged
<1>10. flow.chunked \/ flow.swept => asked.mode = "incremental"
  BY ConfigPlanIs, ConfigAcceptedIs
<1>11. "lookback" \in asked.set => asked.set \cap {"key", "order_by"} # {}
  BY ConfigAcceptedIs
<1> QED BY <1>4, <1>5, <1>6, <1>7, <1>8, <1>9, <1>10, <1>11 DEF Config!AcceptedIsSound

\* The inductive invariant of what is accepted holds in every
\* state.
THEOREM ConfigInvariant == Spec => [](which = "config" => Config!ConfigInv)
<1>1. Init => (which = "config" => Config!ConfigInv)
  BY Begins, ConfigInstance, ConfigInitInv
<1>2. (which = "config" => Config!ConfigInv) /\ [Next]_readsVars =>
        (which = "config" => Config!ConfigInv)'
  BY Goes, ConfigInstance, ConfigNextKeeps
<1> QED BY <1>1, <1>2, PTL DEF Spec

\* Whatever combination of options is asked for, a run that starts is a sound one:
\* what validate_with, validate_frame_only, the flow of the source and its columns
\* let through is a run the transfer model is about, deletes only against the whole
\* of its window, and saves only a cursor its next filter can be compared with.
THEOREM AcceptedRunsAreSound == Spec => []AcceptedIsSound
<1>1. (which = "config" => Config!ConfigInv) => AcceptedIsSound
  BY ConfigInstance, ConfigInvHolds DEF AcceptedIsSound
<1> QED BY <1>1, ConfigInvariant, PTL

-----------------------------------------------------------------------------
(* The cursor of a run and the source.                                    *)

LEMMA ProbesLargestThere ==
  ASSUME NEW S, \A z \in S : z \in Int, IsFiniteSet(S), S # {}
  PROVE  \E x \in S : \A y \in S : y <= x
<1> DEFINE above(x) == {y \in S : x < y}
           T == {above(x) : x \in S}
<1>1. T \subseteq SUBSET S /\ T # {}
  OBVIOUS
<1>2. PICK s \in T : \A u \in T : u \subseteq s => u = s
  <2> HIDE DEF T
  <2> QED BY <1>1, SmallestSubset
<1>3. PICK x \in S : s = above(x)
  BY <1>2
<1>4. ASSUME NEW y \in S, x < y
      PROVE  FALSE
  <2>1. x \in Int /\ y \in Int /\ \A z \in S : z \in Int
    OBVIOUS
  <2>2. above(y) \subseteq above(x)
    <3>1. \A z \in S : y < z => x < z
      BY <1>4, <2>1
    <3> QED BY <3>1
  <2>3. y \in above(x) /\ y \notin above(y)
    BY <1>4, <2>1
  <2> QED BY <1>2, <1>3, <2>2, <2>3
<1> QED BY <1>4

\* The newest of natural watermarks.
ProbesGreatest(S) == CHOOSE n \in S \cup {0} : \A m \in S : m <= n

LEMMA ProbesGreatestIs ==
  ASSUME NEW n \in Nat, NEW S \in SUBSET (0..n)
  PROVE  ProbesGreatest(S) \in 0..n /\ (ProbesGreatest(S) = 0 \/ ProbesGreatest(S) \in S)
         /\ \A m \in S : m <= ProbesGreatest(S)
<1> DEFINE T == S \cup {0}
<1>1. T \subseteq 0..n /\ T # {}
  OBVIOUS
<1>2. IsFiniteSet(0..n)
  BY FS_Interval
<1>3. IsFiniteSet(T)
  BY <1>1, <1>2, FS_Subset
<1>4. \A z \in T : z \in Int
  BY <1>1
<1>5. \E x \in T : \A y \in T : y <= x
  <2> HIDE DEF T
  <2> QED BY <1>1, <1>3, <1>4, ProbesLargestThere
<1>6. \E x \in T : \A m \in S : m <= x
  BY <1>5
<1>7. ProbesGreatest(S) \in T /\ \A m \in S : m <= ProbesGreatest(S)
  BY <1>6 DEF ProbesGreatest
<1> QED BY <1>1, <1>7

\* What the rows hold.
LEMMA ProbesRowIs ==
  ASSUME Probes!ProbesConstants, Probes!TypeOK, NEW i \in Ids
  PROVE  /\ source[i].mark \in 0..Top /\ source[i].mark \in Int
         /\ source[i].mark = 0 /\ source[i].in => run.nullable
         /\ ~run.query /\ ~source[i].in => source[i].mark = 0
<1>1. source[i] \in Probes!RowsOf(run) /\ Top \in Nat
  BY DEF Probes!TypeOK, Probes!ProbesConstants
<1>2. CASE source[i] = Probes!Gone
  BY <1>1, <1>2 DEF Probes!Gone
<1>3. CASE source[i] # Probes!Gone
  <2>1. source[i] \in [mark : (IF run.nullable THEN 0 ELSE 1)..Top,
                       in : IF run.query THEN BOOLEAN ELSE {TRUE}]
    BY <1>1, <1>3 DEF Probes!RowsOf
  <2>2. /\ source[i].mark \in (IF run.nullable THEN 0 ELSE 1)..Top
        /\ source[i].in \in (IF run.query THEN BOOLEAN ELSE {TRUE})
    BY <2>1
  <2>3. source[i].mark \in 0..Top
    <3>1. CASE run.nullable
      BY <2>2, <3>1
    <3>2. CASE ~run.nullable
      BY <1>1, <2>2, <3>2
    <3> QED BY <3>1, <3>2
  <2>4. source[i].mark = 0 => run.nullable
    BY <1>1, <2>2
  <2>5. ~run.query => source[i].in = TRUE
    BY <2>2
  <2> QED BY <1>1, <2>3, <2>4, <2>5
<1> QED BY <1>2, <1>3

LEMMA ProbesNewestIs ==
  ASSUME Probes!ProbesConstants, Probes!TypeOK, NEW ids \in SUBSET Ids
  PROVE  /\ Probes!NewestOf(ids) \in 0..Top /\ Probes!NewestOf(ids) \in Int
         /\ Probes!NewestOf(ids) = 0 \/ \E i \in ids : source[i].mark = Probes!NewestOf(ids)
         /\ \A i \in ids : source[i].mark <= Probes!NewestOf(ids)
<1> DEFINE marks == {source[i].mark : i \in ids}
<1>1. marks \in SUBSET (0..Top)
  BY ProbesRowIs
<1>2. Top \in Nat
  BY DEF Probes!ProbesConstants
<1>3. Probes!NewestOf(ids) = ProbesGreatest(marks)
  BY DEF Probes!NewestOf, ProbesGreatest
<1>4. \A i \in ids : source[i].mark \in marks
  OBVIOUS
<1>5. \A m \in marks : \E i \in ids : source[i].mark = m
  OBVIOUS
<1> HIDE DEF marks
<1>6. /\ ProbesGreatest(marks) \in 0..Top
      /\ ProbesGreatest(marks) = 0 \/ ProbesGreatest(marks) \in marks
      /\ \A m \in marks : m <= ProbesGreatest(marks)
  BY <1>1, <1>2, ProbesGreatestIs
<1>7. ProbesGreatest(marks) \in Int
  BY <1>2, <1>6
<1> QED BY <1>3, <1>4, <1>5, <1>6, <1>7

\* What the run is.
LEMMA ProbesRunIs ==
  ASSUME Probes!ProbesConstants, Probes!TypeOK
  PROVE  /\ run.flow \in {"sql", "session"} /\ run.from \in {"query", "table", "stream"}
         /\ run.lookback \in Nat /\ Top \in Nat /\ NoCursor \notin 0..(Top + 1)
         /\ Probes!Within \subseteq Ids /\ Probes!Steady \subseteq Ids
<1>1. run \in CursorRuns
  BY DEF Probes!TypeOK
<1> QED BY <1>1 DEF Probes!ProbesConstants, Probes!Within, Probes!Steady

LEMMA ProbesProbeKeeps ==
  ASSUME Probes!ProbesConstants, Probes!ProbesInv, Probes!Probe
  PROVE  Probes!ProbesInv'
<1>1. /\ pc = "probe" /\ pc' = "judge" /\ step' = Probes!Probed
      /\ attempt' = Probes!NullWarnings
                      \cup IF run.from = "stream" THEN {"unindexed_watermark"} ELSE {}
      /\ UNCHANGED <<run, source, cursor, dest, window, read, batch>>
      /\ Probes!TypeOK /\ Probes!Untouched /\ cursor = dest
  BY DEF Probes!Probe, Probes!ProbesInv
<1>2. Probes!NullWarnings \subseteq {"null_check_skipped", "null_watermark"}
  BY DEF Probes!NullWarnings
<1>3. Probes!Probed \in 0..Top
  BY <1>1, ProbesRunIs, ProbesNewestIs DEF Probes!Probed
<1>4. Probes!TypeOK'
  <2>1. attempt' \subseteq Probes!Kinds
    BY <1>1, <1>2 DEF Probes!Kinds
  <2>2. \A i \in Ids : source'[i] \in Probes!RowsOf(run')
    BY <1>1 DEF Probes!TypeOK
  <2> QED BY <1>1, <1>3, <2>1, <2>2 DEF Probes!TypeOK
<1>5. Probes!WasProbed'
  <2>1. Probes!Within' = Probes!Within
        /\ Probes!NewestOf(Probes!Within)' = Probes!NewestOf(Probes!Within)
           /\ Probes!NewestOf(Ids)' = Probes!NewestOf(Ids)
    BY <1>1 DEF Probes!Within, Probes!NewestOf
  <2>2. run.from = "query" => Probes!MaxIsOf(Probes!Within)'
    BY <1>1, <2>1, ProbesRunIs, ProbesNewestIs DEF Probes!MaxIsOf, Probes!Probed, Probes!Untouched
  <2>3. run.from = "table" => Probes!MaxIsOf(Ids)'
    BY <1>1, <2>1, ProbesRunIs, ProbesNewestIs DEF Probes!MaxIsOf, Probes!Probed, Probes!Untouched
  <2>4. run.from = "stream" => step' = 0
    BY <1>1 DEF Probes!Probed
  <2>5. ASSUME run.flow = "sql", NEW i \in Probes!Steady, source[i].mark = 0
        PROVE  attempt' \cap {"null_watermark", "null_check_skipped"} # {}
    <3>1. i \in Probes!Nulls /\ run.nullable
      BY <1>1, <2>5, ProbesRunIs, ProbesRowIs DEF Probes!Steady, Probes!Within, Probes!Nulls
    <3>2. Probes!NullWarnings \cap {"null_watermark", "null_check_skipped"} # {}
      BY <2>5, <3>1 DEF Probes!NullWarnings
    <3> QED BY <1>1, <3>2
  <2>6. Probes!Steady' = Probes!Steady
    BY <1>1, <2>1 DEF Probes!Steady
  <2> QED BY <1>1, <2>1, <2>2, <2>3, <2>4, <2>5, <2>6 DEF Probes!WasProbed
<1>6. "watermark_not_advanced" \notin attempt' /\ "watermark_ahead_of_source" \notin attempt'
  BY <1>1, <1>2
<1>7. dest \in {NoCursor} \cup 1..(Top + 1)
  BY DEF Probes!ProbesInv
<1> QED BY <1>1, <1>4, <1>5, <1>6, <1>7 DEF Probes!ProbesInv

\* What a step leaves that touches neither the run's cursor nor the source.
LEMMA ProbesSameCursor ==
  ASSUME UNCHANGED <<run, dest, window, step>>
  PROVE  /\ Probes!Last' = Probes!Last /\ Probes!Lower' = Probes!Lower
            /\ Probes!Checked' = Probes!Checked /\ Probes!Ahead' = Probes!Ahead
         /\ Probes!Unbounded' = Probes!Unbounded /\ Probes!Excludes' = Probes!Excludes
         /\ \A m : Probes!InFilter(m)' = Probes!InFilter(m)
BY DEF Probes!Last, Probes!Lower, Probes!Checked, Probes!Ahead, Probes!Unbounded, Probes!Excludes,
       Probes!InFilter

LEMMA ProbesSameSource ==
  ASSUME UNCHANGED <<run, source, batch>>
  PROVE  /\ Probes!Within' = Probes!Within /\ Probes!Steady' = Probes!Steady
            /\ Probes!Untouched' = Probes!Untouched
         /\ Probes!NewestOf(Probes!Within)' = Probes!NewestOf(Probes!Within)
            /\ Probes!NewestOf(Ids)' = Probes!NewestOf(Ids)
BY DEF Probes!Within, Probes!Steady, Probes!Untouched, Probes!NewestOf

LEMMA ProbesSameVerdict ==
  ASSUME UNCHANGED <<run, dest, window, step, source, batch>>
  PROVE  Probes!Verdict' = Probes!Verdict
BY ProbesSameCursor, ProbesSameSource DEF Probes!Verdict

\* What was probed stays so while more is raised.
LEMMA ProbesStillProbed ==
  ASSUME UNCHANGED <<run, step, source, batch>>, attempt \subseteq attempt', Probes!WasProbed
  PROVE  Probes!WasProbed'
BY ProbesSameSource DEF Probes!WasProbed, Probes!MaxIsOf

LEMMA ProbesJudgeKeeps ==
  ASSUME Probes!ProbesConstants, Probes!ProbesInv, Probes!Judge
  PROVE  Probes!ProbesInv'
<1>1. /\ pc = "judge" /\ Probes!TypeOK /\ Probes!WasProbed /\ cursor = dest
      /\ "watermark_not_advanced" \notin attempt /\ "watermark_ahead_of_source" \notin attempt
      /\ dest \in {NoCursor} \cup 1..(Top + 1)
      /\ UNCHANGED <<run, source, cursor, dest, window, step, read, batch>>
  BY DEF Probes!Judge, Probes!ProbesInv
<1>2. \A i \in Ids : source'[i] \in Probes!RowsOf(run')
  BY <1>1 DEF Probes!TypeOK
<1>3. CASE Probes!Refused
  <2>1. pc' = "refused" /\ attempt' = attempt
    BY <1>3 DEF Probes!Judge
  <2>2. Probes!TypeOK'
    BY <1>1, <1>2, <2>1 DEF Probes!TypeOK
  <2>3. Probes!WasProbed'
    BY <1>1, <2>1, ProbesStillProbed
  <2> QED BY <1>1, <2>1, <2>2, <2>3 DEF Probes!ProbesInv
<1>4. CASE ~Probes!Refused
  <2> DEFINE told == IF Probes!Ahead
      /\ Probes!Verdict # "within" THEN {"watermark_ahead_of_source"} ELSE {}
  <2>1. pc' = "read" /\ attempt' = (attempt \cup Probes!Counted) \cup told
    BY <1>4 DEF Probes!Judge
  <2>2. Probes!Counted \subseteq {"null_watermark"} /\ told \subseteq {"watermark_ahead_of_source"}
    BY DEF Probes!Counted
  <2>3. attempt' \subseteq Probes!Kinds /\ "watermark_not_advanced" \notin attempt'
    BY <1>1, <2>1, <2>2 DEF Probes!TypeOK, Probes!Kinds
  <2>4. Probes!TypeOK'
    BY <1>1, <1>2, <2>1, <2>3 DEF Probes!TypeOK
  <2>5. Probes!WasProbed'
    BY <1>1, <2>1, ProbesStillProbed
  <2>6. "watermark_ahead_of_source" \in attempt' <=> Probes!Ahead /\ Probes!Verdict # "within"
    BY <1>1, <2>1, <2>2
  <2>7. run.flow = "session" /\ Probes!Unbounded /\ Probes!Excludes
        /\ (\E i \in Probes!Steady : source[i].mark = 0) =>
          "null_watermark" \in attempt'
    BY <2>1 DEF Probes!Counted, Probes!Nulls, Probes!Steady
  <2>8. Probes!WasJudged'
    BY <1>1, <2>6, <2>7, ProbesSameCursor, ProbesSameSource, ProbesSameVerdict DEF Probes!WasJudged
  <2> QED BY <1>1, <2>1, <2>3, <2>4, <2>5, <2>8 DEF Probes!ProbesInv
<1> QED BY <1>3, <1>4

LEMMA ProbesReadKeeps ==
  ASSUME Probes!ProbesConstants, Probes!ProbesInv, Probes!Read
  PROVE  Probes!ProbesInv'
<1>1. /\ pc = "read" /\ pc' = "finish" /\ Probes!TypeOK /\ Probes!WasProbed /\ Probes!WasJudged
         /\ cursor = dest
      /\ "watermark_not_advanced" \notin attempt
      /\ dest \in {NoCursor} \cup 1..(Top + 1)
      /\ read' = {source[i].mark : i \in {j \in Probes!Within : Probes!InFilter(source[j].mark)}}
      /\ UNCHANGED <<run, source, cursor, dest, window, step, attempt, batch>>
  BY DEF Probes!Read, Probes!ProbesInv
<1>2. Probes!TypeOK'
  <2>1. read' \subseteq 0..Top
    BY <1>1, ProbesRunIs, ProbesRowIs
  <2>2. \A i \in Ids : source'[i] \in Probes!RowsOf(run')
    BY <1>1 DEF Probes!TypeOK
  <2> QED BY <1>1, <2>1, <2>2 DEF Probes!TypeOK
<1>3. Probes!WasProbed'
  BY <1>1, ProbesStillProbed
<1>4. Probes!WasJudged'
  BY <1>1, ProbesSameCursor, ProbesSameSource, ProbesSameVerdict DEF Probes!WasJudged
<1>5. read' = {source[i].mark : i \in {j \in Probes!Within : Probes!InFilter(source[j].mark)}}'
  <2>1. {j \in Probes!Within : Probes!InFilter(source[j].mark)}'
          = {j \in Probes!Within : Probes!InFilter(source[j].mark)}
    BY <1>1, ProbesSameCursor, ProbesSameSource
  <2> QED BY <1>1, <2>1
<1> QED BY <1>1, <1>2, <1>3, <1>4, <1>5 DEF Probes!ProbesInv

\* What is seen in a read, and the cursor that comes of it.
LEMMA ProbesSeenIs ==
  ASSUME Probes!ProbesConstants, Probes!TypeOK
  PROVE  Probes!Seen \in 0..Top /\ Probes!Seen \in Int /\ (Probes!Seen = 0 \/ Probes!Seen \in read)
         /\ \A m \in read : m <= Probes!Seen
<1>1. Top \in Nat /\ read \in SUBSET (0..Top)
  BY ProbesRunIs DEF Probes!TypeOK
<1> QED BY <1>1, ProbesGreatestIs DEF Probes!Seen, ProbesGreatest

LEMMA ProbesLastIs ==
  ASSUME Probes!ProbesConstants, Probes!TypeOK, dest \in {NoCursor} \cup 1..(Top + 1)
  PROVE  /\ Probes!Last \in {NoCursor} \cup 1..(Top + 1)
         /\ Probes!Last # NoCursor => Probes!Last \in Int
         /\ step = 0 => Probes!Last = dest
         /\ Probes!Last = NoCursor => dest = NoCursor
         /\ step \in Int /\ step \in 0..Top /\ step # NoCursor
<1>1. step \in 0..Top /\ Top \in Nat /\ NoCursor \notin 0..(Top + 1)
  BY ProbesRunIs DEF Probes!TypeOK
<1>2. step \in Int /\ step \in 0..(Top + 1) /\ (step # 0 => step \in 1..(Top + 1))
  BY <1>1
<1> QED BY <1>1, <1>2 DEF Probes!Last

LEMMA ProbesFinishKeeps ==
  ASSUME Probes!ProbesConstants, Probes!ProbesInv, Probes!Finish
  PROVE  Probes!ProbesInv'
<1>1. /\ pc = "finish" /\ pc' = "ok" /\ Probes!TypeOK /\ Probes!WasProbed /\ Probes!WasJudged
         /\ cursor = dest
      /\ "watermark_not_advanced" \notin attempt
      /\ dest \in {NoCursor} \cup 1..(Top + 1)
      /\ read = {source[i].mark : i \in {j \in Probes!Within : Probes!InFilter(source[j].mark)}}
      /\ attempt' = (attempt \cup Probes!Unwatermarked) \cup Probes!NotAdvanced
      /\ cursor' = IF Probes!NewWatermark = NoCursor THEN cursor ELSE Probes!NewWatermark
      /\ UNCHANGED <<run, source, dest, window, step, read, batch>>
  BY DEF Probes!Finish, Probes!ProbesInv
<1>2. /\ Probes!Unwatermarked \subseteq {"null_watermark"}
      /\ Probes!NotAdvanced \subseteq {"watermark_not_advanced"}
  BY DEF Probes!Unwatermarked, Probes!NotAdvanced
<1>3. Probes!NewWatermark \in {NoCursor} \cup 1..(Top + 1)
  <2>1. Top \in Nat /\ run.from \in {"query", "table", "stream"}
    BY <1>1, ProbesRunIs
  <2>2. Probes!Seen # 0 => Probes!Seen \in 1..(Top + 1)
    BY <1>1, <2>1, ProbesSeenIs
  <2>3. step # 0 => step \in 1..(Top + 1)
    BY <1>1, <2>1, ProbesLastIs
  <2>4. Probes!AdvanceFrom \in {NoCursor} \cup 1..(Top + 1)
    BY <1>1, <2>2, ProbesLastIs DEF Probes!AdvanceFrom
  <2>5. Probes!Ahead => step # 0
    BY DEF Probes!Ahead, Probes!Checked
  <2> QED BY <2>1, <2>2, <2>3, <2>4, <2>5 DEF Probes!NewWatermark
<1>4. Probes!TypeOK'
  <2>1. attempt' \subseteq Probes!Kinds
    BY <1>1, <1>2 DEF Probes!TypeOK, Probes!Kinds
  <2>2. \A i \in Ids : source'[i] \in Probes!RowsOf(run')
    BY <1>1 DEF Probes!TypeOK
  <2>3. cursor' \in {NoCursor} \cup 1..(Top + 1)
    BY <1>1, <1>3
  <2> QED BY <1>1, <2>1, <2>2, <2>3 DEF Probes!TypeOK
<1>5. Probes!WasProbed'
  BY <1>1, ProbesStillProbed
<1>6. Probes!WasJudged'
  BY <1>1, <1>2, ProbesSameCursor, ProbesSameSource, ProbesSameVerdict DEF Probes!WasJudged
<1>7. read' = {source[i].mark : i \in {j \in Probes!Within : Probes!InFilter(source[j].mark)}}'
  <2>1. {j \in Probes!Within : Probes!InFilter(source[j].mark)}'
          = {j \in Probes!Within : Probes!InFilter(source[j].mark)}
    BY <1>1, ProbesSameCursor, ProbesSameSource
  <2> QED BY <1>1, <2>1
<1>8. Probes!Unwatermarked' = Probes!Unwatermarked /\ Probes!NotAdvanced' = Probes!NotAdvanced
      /\ Probes!NewWatermark' = Probes!NewWatermark
  BY <1>1, ProbesSameCursor DEF Probes!Unwatermarked, Probes!WatermarkRead, Probes!Seen,
                                Probes!NotAdvanced, Probes!NewWatermark, Probes!AdvanceFrom
<1>9. "watermark_not_advanced" \in attempt' => Probes!NotAdvanced # {}
  BY <1>1, <1>2
<1>10. /\ Probes!Unwatermarked' \subseteq attempt' /\ Probes!NotAdvanced' \subseteq attempt'
       /\ cursor' = IF Probes!NewWatermark' = NoCursor THEN dest' ELSE Probes!NewWatermark'
  BY <1>1, <1>8
<1> QED BY <1>1, <1>4, <1>5, <1>6, <1>7, <1>8, <1>9, <1>10 DEF Probes!ProbesInv

LEMMA ProbesChangeKeeps ==
  ASSUME Probes!ProbesConstants, Probes!ProbesInv, NEW i \in Ids, Probes!Change(i)
  PROVE  Probes!ProbesInv'
<1>1. /\ pc \in {"judge", "read"} /\ Probes!Untouched /\ Probes!TypeOK /\ Probes!WasProbed
         /\ cursor = dest
      /\ dest \in {NoCursor} \cup 1..(Top + 1)
      /\ "watermark_not_advanced" \notin attempt
      /\ pc = "judge" => "watermark_ahead_of_source" \notin attempt
      /\ pc = "read" => Probes!WasJudged
      /\ batch' = {i} /\ UNCHANGED <<run, pc, cursor, dest, window, step, read, attempt>>
  BY DEF Probes!Change, Probes!ProbesInv, Probes!Untouched
<1>2. PICK new \in Probes!RowsOf(run) : source' = [source EXCEPT ![i] = new]
  BY DEF Probes!Change
<1>3. \A j \in Ids \ {i} : source'[j] = source[j]
  BY <1>2
<1>4. \A j \in Ids : source'[j] \in Probes!RowsOf(run)
  <2>1. ASSUME NEW j \in Ids PROVE source'[j] = new \/ source'[j] = source[j]
    BY <1>2
  <2> QED BY <1>1, <1>2, <2>1 DEF Probes!TypeOK
<1>5. Probes!TypeOK'
  BY <1>1, <1>4 DEF Probes!TypeOK
<1>6. ~Probes!Untouched' /\ Probes!Steady = Probes!Within
  BY <1>1 DEF Probes!Untouched, Probes!Steady
<1>7. /\ \A j \in Probes!Steady' : j \in Probes!Steady /\ j \in Ids \ {i} /\ source'[j] = source[j]
      /\ \A j \in Probes!Within' \ batch' : j \in Probes!Within \ batch /\ source'[j] = source[j]
      /\ \A j \in Ids \ batch' : j \in Ids \ batch /\ source'[j] = source[j]
  BY <1>1, <1>3 DEF Probes!Steady, Probes!Within, Probes!Untouched
<1>8. Probes!WasProbed'
  BY <1>1, <1>6, <1>7 DEF Probes!WasProbed, Probes!MaxIsOf
<1>9. pc = "read" => Probes!WasJudged'
  BY <1>1, <1>6, <1>7, ProbesSameCursor DEF Probes!WasJudged
<1> QED BY <1>1, <1>5, <1>8, <1>9 DEF Probes!ProbesInv

LEMMA ProbesNextKeeps ==
  ASSUME Probes!ProbesConstants, Probes!ProbesInv, [Probes!Next]_Probes!vars
  PROVE  Probes!ProbesInv'
<1>1. CASE UNCHANGED Probes!vars
  <2>1. UNCHANGED <<run, pc, source, cursor, dest, window, step, read, attempt, batch>>
    BY <1>1 DEF Probes!vars
  <2>2. Probes!TypeOK' <=> Probes!TypeOK
    BY <2>1 DEF Probes!TypeOK
  <2>3. Probes!WasProbed => Probes!WasProbed'
    BY <2>1, ProbesStillProbed
  <2>4. Probes!WasJudged => Probes!WasJudged'
    BY <2>1, ProbesSameCursor, ProbesSameSource, ProbesSameVerdict DEF Probes!WasJudged
  <2>5. {j \in Probes!Within : Probes!InFilter(source[j].mark)}'
          = {j \in Probes!Within : Probes!InFilter(source[j].mark)}
    BY <2>1, ProbesSameCursor, ProbesSameSource
  <2>6. Probes!Unwatermarked' = Probes!Unwatermarked /\ Probes!NotAdvanced' = Probes!NotAdvanced
        /\ Probes!NewWatermark' = Probes!NewWatermark
    BY <2>1, ProbesSameCursor DEF Probes!Unwatermarked, Probes!WatermarkRead, Probes!Seen,
                                  Probes!NotAdvanced, Probes!NewWatermark, Probes!AdvanceFrom
  <2>7. Probes!Untouched' = Probes!Untouched
    BY <2>1 DEF Probes!Untouched
  <2> QED BY <2>1, <2>2, <2>3, <2>4, <2>5, <2>6, <2>7 DEF Probes!ProbesInv
<1> QED BY <1>1, ProbesProbeKeeps, ProbesJudgeKeeps, ProbesReadKeeps, ProbesFinishKeeps,
    ProbesChangeKeeps
        DEF Probes!Next, Probes!Returned

LEMMA ProbesInitInv ==
  ASSUME Probes!ProbesConstants, Probes!Init
  PROVE  Probes!ProbesInv
<1>1. /\ run \in CursorRuns /\ source \in [Ids -> Probes!RowsOf(run)]
         /\ cursor \in {NoCursor} \cup 1..(Top + 1)
      /\ dest = cursor /\ step = 0 /\ read = {} /\ attempt = {} /\ batch = {} /\ pc = "probe"
  BY DEF Probes!Init
<1>2. step \in 0..Top
  BY <1>1 DEF Probes!ProbesConstants
<1> QED BY <1>1, <1>2 DEF Probes!ProbesInv, Probes!TypeOK, Probes!Untouched

LEMMA ProbesInvHolds ==
  ASSUME Probes!ProbesConstants, Probes!ProbesInv
  PROVE  Probes!TypeOK /\ Probes!CursorTroubleTold
<1>1. Probes!TypeOK /\ dest \in {NoCursor} \cup 1..(Top + 1)
  BY DEF Probes!ProbesInv
<1> SUFFICES ASSUME pc = "ok" PROVE Probes!CursorTroubleTold
  BY <1>1 DEF Probes!CursorTroubleTold
<1>2. /\ Probes!WasProbed /\ Probes!WasJudged
      /\ read = {source[i].mark : i \in {j \in Probes!Within : Probes!InFilter(source[j].mark)}}
      /\ Probes!Unwatermarked \subseteq attempt /\ Probes!NotAdvanced \subseteq attempt
      /\ "watermark_not_advanced" \in attempt => Probes!NotAdvanced # {}
      /\ cursor = IF Probes!NewWatermark = NoCursor THEN dest ELSE Probes!NewWatermark
  BY DEF Probes!ProbesInv
<1>3. /\ run.flow \in {"sql", "session"} /\ run.from \in {"query", "table", "stream"}
      /\ run.lookback \in Nat /\ Probes!Within \subseteq Ids
  BY <1>1, ProbesRunIs
<1>4. \A i \in Ids : source[i].mark \in Int /\ source[i].mark >= 0
  BY <1>1, ProbesRowIs
<1>5. /\ Probes!Checked => Probes!Last \in Int /\ Probes!Last # NoCursor /\ step # 0
      /\ Probes!Ahead <=> Probes!Checked /\ Probes!Last > step
      /\ step \in Int /\ step >= 0 /\ step # NoCursor /\ (step = 0 => Probes!Last = dest)
      /\ Probes!Last = NoCursor => dest = NoCursor
  BY <1>1, ProbesLastIs DEF Probes!Checked, Probes!Ahead
<1>6. Probes!NewestOf(Probes!Within) \in Int /\ Probes!NewestOf(Ids) \in Int
  BY <1>1, <1>3, ProbesNewestIs
\* A row past the cursor, and nothing read.
<1>7. ASSUME run.from = "query", Probes!Checked, read = {}, NEW i \in Probes!Steady,
             source[i].mark > Probes!Last
      PROVE  "watermark_not_advanced" \in attempt
  <2>1. i \in Ids /\ source[i].mark <= step
    BY <1>2, <1>3, <1>7 DEF Probes!WasProbed, Probes!MaxIsOf, Probes!Steady
  <2>2. step > Probes!Last - run.lookback
    BY <1>3, <1>4, <1>5, <1>7, <2>1
  <2>3. Probes!NotAdvanced = {"watermark_not_advanced"}
    BY <1>7, <2>2 DEF Probes!NotAdvanced
  <2> QED BY <1>2, <2>3
\* Told, though the row with the MAX was there to be read.
<1>8. ASSUME "watermark_not_advanced" \in attempt, window = 0, batch = {}
      PROVE  FALSE
  <2>1. run.from # "table" /\ Probes!Checked /\ step > Probes!Last - run.lookback /\ read = {}
    BY <1>2, <1>8 DEF Probes!NotAdvanced
  <2>2. run.from = "query"
    BY <1>2, <1>3, <1>5, <2>1 DEF Probes!WasProbed
  <2>3. step = Probes!NewestOf(Probes!Within)
    BY <1>2, <1>8, <2>2 DEF Probes!WasProbed, Probes!MaxIsOf, Probes!Untouched
  <2>4. PICK i \in Probes!Within : source[i].mark = step
    BY <1>1, <1>3, <1>5, <2>1, <2>3, ProbesNewestIs
  <2>5. Probes!Lower = Probes!Last - run.lookback
    BY <1>3, <1>5, <1>8, <2>1 DEF Probes!Lower
  <2>6. Probes!InFilter(step)
    BY <1>5, <2>1, <2>5 DEF Probes!InFilter
  <2>7. step \in read
    BY <1>2, <2>4, <2>6
  <2> QED BY <2>1, <2>7
\* A cursor past the whole table.
<1>9. ASSUME Probes!Checked, batch = {}, \A i \in Ids : source[i].mark < Probes!Last
      PROVE  "watermark_ahead_of_source" \in attempt /\ \E i \in Ids : source[i].mark = cursor
  <2>1. run.from # "stream"
    BY <1>2, <1>5, <1>9 DEF Probes!WasProbed
  <2>2. step = Probes!NewestOf(IF run.from = "query" THEN Probes!Within ELSE Ids)
    BY <1>2, <1>3, <1>9, <2>1 DEF Probes!WasProbed, Probes!MaxIsOf, Probes!Untouched
  <2>3. PICK i \in Ids : source[i].mark = step
    BY <1>1, <1>3, <1>5, <1>9, <2>2, ProbesNewestIs
  <2>4. Probes!Ahead
    BY <1>5, <1>9, <2>3
  <2>5. Probes!NewestOf(Ids) = 0 \/ Probes!Last > Probes!NewestOf(Ids)
    BY <1>1, <1>9, ProbesNewestIs
  <2>6. Probes!Verdict # "within"
    BY <1>3, <2>5 DEF Probes!Verdict
  <2>7. "watermark_ahead_of_source" \in attempt
    BY <1>2, <1>9, <2>4, <2>6 DEF Probes!WasJudged, Probes!Untouched
  <2>8. cursor = step
    BY <1>2, <1>3, <1>5, <1>9, <2>1, <2>4 DEF Probes!NewWatermark
  <2> QED BY <2>3, <2>7, <2>8
\* Told only of what is so.
<1>10. ASSUME "watermark_ahead_of_source" \in attempt, batch = {},
              NEW i \in (IF run.flow = "sql" /\ run.table /\ run.judges THEN Ids ELSE Probes!Within)
       PROVE  source[i].mark < Probes!Last
  <2>1. Probes!Ahead /\ Probes!Verdict # "within" /\ Probes!Checked /\ Probes!Last > step
        /\ Probes!Last \in Int
    BY <1>2, <1>5, <1>10 DEF Probes!WasJudged, Probes!Untouched
  <2>2. i \in Ids /\ source[i].mark \in Int
    BY <1>3, <1>4
  <2>3. CASE run.from = "table"
    <3>1. step = Probes!NewestOf(Ids)
      BY <1>2, <1>10, <2>3 DEF Probes!WasProbed, Probes!MaxIsOf, Probes!Untouched
    <3> QED BY <1>1, <1>5, <2>1, <2>2, <3>1, ProbesNewestIs
  <2>4. CASE run.from = "query"
    <3>1. step = Probes!NewestOf(Probes!Within)
      BY <1>2, <1>10, <2>4 DEF Probes!WasProbed, Probes!MaxIsOf, Probes!Untouched
    <3>2. CASE i \in Probes!Within
      BY <1>1, <1>3, <1>5, <2>1, <2>2, <3>1, <3>2, ProbesNewestIs
    <3>3. CASE i \notin Probes!Within
      <4>1. run.flow = "sql" /\ run.table /\ run.judges
        BY <1>10, <3>3
      <4>2. CASE ~run.query
        <5>1. source[i].mark = 0
          BY <1>1, <2>2, <3>3, <4>2, ProbesRowIs DEF Probes!Within
        <5> QED BY <1>5, <2>1, <5>1
      <4>3. CASE run.query
        <5>1. Probes!NewestOf(Ids) = 0 \/ Probes!Last > Probes!NewestOf(Ids)
          BY <2>1, <2>4, <4>1, <4>3 DEF Probes!Verdict
        <5>2. source[i].mark <= Probes!NewestOf(Ids)
          BY <1>1, <2>2, ProbesNewestIs
        <5> QED BY <1>5, <1>6, <2>1, <2>2, <5>1, <5>2
      <4> QED BY <4>2, <4>3
    <3> QED BY <3>2, <3>3
  <2>5. CASE run.from = "stream"
    BY <1>2, <1>5, <2>1, <2>5 DEF Probes!WasProbed
  <2> QED BY <1>3, <2>3, <2>4, <2>5
\* Rows read past for having no watermark.
<1>11. ASSUME run.flow = "sql" \/ Probes!Unbounded, 0 \notin read, NEW i \in Probes!Steady,
              source[i].mark = 0
       PROVE  attempt \cap {"null_watermark", "null_check_skipped"} # {}
  <2>1. CASE run.flow = "sql"
    BY <1>2, <1>11, <2>1 DEF Probes!WasProbed
  <2>2. CASE run.flow = "session" /\ Probes!Unbounded /\ Probes!Excludes
    BY <1>2, <1>11, <2>2 DEF Probes!WasJudged
  <2>3. CASE Probes!Unbounded /\ ~Probes!Excludes
    <3>1. i \in Probes!Within /\ Probes!InFilter(0)
      BY <1>11, <2>3 DEF Probes!Steady, Probes!InFilter
    <3>2. i \in {j \in Probes!Within : Probes!InFilter(source[j].mark)}
      BY <1>11, <3>1
    <3>3. source[i].mark \in read
      BY <1>2, <3>2
    <3> QED BY <1>11, <3>3
  <2> QED BY <1>3, <1>11, <2>1, <2>2, <2>3
\* Rows read, and still no cursor.
<1>12. ASSUME read # {}, cursor = NoCursor
       PROVE  "null_watermark" \in attempt
  <2>1. Probes!NewWatermark = NoCursor /\ dest = NoCursor
    BY <1>2, <1>12
  <2>2. Probes!Seen # NoCursor
    BY <1>1, ProbesSeenIs, ProbesRunIs
  <2>3. Probes!Last = NoCursor /\ ~Probes!WatermarkRead
    <3>1. CASE run.from = "query"
      BY <1>5, <2>1, <3>1 DEF Probes!NewWatermark, Probes!WatermarkRead
    <3>2. CASE run.from = "table"
      BY <1>5, <2>1, <2>2, <3>2 DEF Probes!NewWatermark, Probes!AdvanceFrom, Probes!WatermarkRead
    <3>3. CASE run.from = "stream"
      BY <1>2, <1>5, <2>1, <2>2, <3>3
      DEF Probes!NewWatermark, Probes!WatermarkRead, Probes!WasProbed
    <3> QED BY <1>3, <3>1, <3>2, <3>3
  <2>4. "null_watermark" \in Probes!Unwatermarked
    BY <1>12, <2>3 DEF Probes!Unwatermarked
  <2> QED BY <1>2, <2>4
<1> QED BY <1>7, <1>8, <1>9, <1>10, <1>11, <1>12 DEF Probes!CursorTroubleTold

\* The inductive invariant of a run's probes and checks holds in every
\* state.
THEOREM ProbesInvariant == Spec => [](which = "cursor" => Probes!ProbesInv)
<1>1. Init => (which = "cursor" => Probes!ProbesInv)
  BY Begins, ProbesInstance, ProbesInitInv
<1>2. (which = "cursor" => Probes!ProbesInv) /\ [Next]_readsVars =>
        (which = "cursor" => Probes!ProbesInv)'
  BY Goes, ProbesInstance, ProbesNextKeeps
<1> QED BY <1>1, <1>2, PTL DEF Spec

\* Each way the cursor of a run can be of no use is in a warning when the run ends
\* well: rows past it that were not read, a cursor past all of the table, rows with no
\* watermark, a read that leaves no cursor; and the first two are told of no run that
\* did not meet them, whatever changes in the source between the probe and the read.
THEOREM CursorTroublesAreTold == Spec => []CursorTroubleTold
<1>1. (which = "cursor" => Probes!ProbesInv) => CursorTroubleTold
  BY ProbesInstance, ProbesInvHolds DEF CursorTroubleTold
<1> QED BY <1>1, ProbesInvariant, PTL

-----------------------------------------------------------------------------
(* A run's columns and its destination's.                                 *)

\* Two names that are the same, where a destination compares them.
LEMMA ColumnsSameIs ==
  ASSUME NEW n, NEW m
  PROVE  /\ Columns!Same(n, n)
         /\ n = m => Columns!Same(n, m)
         /\ Columns!Same(n, m) => Columns!Same(m, n)
         /\ \A k : Columns!Same(n, m) /\ Columns!Same(m, k) => Columns!Same(n, k)
  BY DEF Columns!Same

\* The columns a run writes have different names.
LEMMA ColumnsWritesDiffer ==
  ASSUME Columns!ColumnsConstants, run \in ColumnRuns, NEW v \in run.writes, NEW w \in run.writes
  PROVE  /\ Columns!Same(v.name, w.name) => v = w
         /\ v.name = w.name => v = w
<1>1. Columns!Same(v.name, w.name) => v = w
  BY DEF Columns!ColumnsConstants, Columns!Same
<1> QED BY <1>1, ColumnsSameIs

\* A column of a that b lacks.
LEMMA ColumnsLackingIs ==
  ASSUME NEW a, NEW b, NEW c
  PROVE  c \in Columns!Lacking(a, b) <=> c \in a /\ \A d \in b : ~Columns!Same(c.name, d.name)
  BY DEF Columns!Lacking

\* The columns added to a table are those the run writes and it lacks.
LEMMA ColumnsEvolvedIs ==
  ASSUME NEW t, t = [engine |-> t.engine, columns |-> t.columns]
  PROVE  /\ Columns!Evolved(t) = [engine |-> Columns!Evolved(t).engine,
            columns |-> Columns!Evolved(t).columns]
         /\ Columns!Evolved(t).engine = t.engine
         /\ t.columns \subseteq Columns!Evolved(t).columns
         /\ \A c \in Columns!Evolved(t).columns \ t.columns :
              \E w \in Columns!Lacking(run.writes, t.columns) : c.name = w.name /\ c.type = w.type
         /\ Columns!Lacking(run.writes, Columns!Evolved(t).columns) = {}
         /\ Columns!Lacking(run.writes, t.columns) = {} => Columns!Evolved(t) = t
<1> DEFINE made(c) == [name |-> c.name, type |-> c.type, fills |-> FALSE]
           more    == {made(c) : c \in Columns!Lacking(run.writes, t.columns)}
<1>1. Columns!Evolved(t) = [engine |-> t.engine, columns |-> t.columns \cup more]
  <2>1. Columns!Evolved(t) = [t EXCEPT !.columns = t.columns \cup more]
    BY DEF Columns!Evolved
  <2> HIDE DEF more
  <2>2. DOMAIN t = {"engine", "columns"}
    <3>1. DOMAIN [engine |-> t.engine, columns |-> t.columns] = {"engine", "columns"}
      OBVIOUS
    <3> QED BY <3>1
  <2>3. [t EXCEPT !.columns = t.columns \cup more]
          = [[engine |-> t.engine, columns |-> t.columns] EXCEPT !.columns = t.columns \cup more]
    OBVIOUS
  <2> QED BY <2>1, <2>3
<1>2. \A c \in more : \E w \in Columns!Lacking(run.writes, t.columns) : c.name = w.name
      /\ c.type = w.type
  OBVIOUS
<1>3. Columns!Lacking(run.writes, Columns!Evolved(t).columns) = {}
  <2>1. SUFFICES ASSUME NEW w \in run.writes,
                        \A d \in Columns!Evolved(t).columns : ~Columns!Same(w.name, d.name)
                 PROVE  FALSE
    BY ColumnsLackingIs
  <2>2. w \in Columns!Lacking(run.writes, t.columns)
    BY <1>1, <2>1, ColumnsLackingIs
  <2>3. made(w) \in Columns!Evolved(t).columns /\ made(w).name = w.name
    <3>1. made(w) \in more /\ made(w).name = w.name
      BY <2>2
    <3> HIDE DEF more, made
    <3>2. Columns!Evolved(t).columns = t.columns \cup more
      BY <1>1
    <3> QED BY <3>1, <3>2
  <2> QED BY <2>1, <2>3, ColumnsSameIs
<1>4. Columns!Lacking(run.writes, t.columns) = {} => more = {}
  OBVIOUS
<1> HIDE DEF more
<1>5. /\ Columns!Evolved(t).engine = t.engine
      /\ Columns!Evolved(t).columns = t.columns \cup more
      /\ Columns!Evolved(t) = [engine |-> Columns!Evolved(t).engine,
         columns |-> Columns!Evolved(t).columns]
  BY <1>1
<1>6. more = {} => Columns!Evolved(t) = t
  BY <1>1
<1> QED BY <1>2, <1>3, <1>4, <1>5, <1>6

\* A table made of the run's columns lacks none of them.
LEMMA ColumnsFreshIs ==
  Columns!Fresh = [engine |-> Columns!Fresh.engine, columns |-> Columns!Fresh.columns]
  /\ Columns!Lacking(run.writes, Columns!Fresh.columns) = {}
<1>1. Columns!Fresh = [engine |-> Columns!Fresh.engine, columns |-> Columns!Fresh.columns]
  BY DEF Columns!Fresh
<1>2. Columns!Fresh.columns = {[name |-> c.name, type |-> c.type,
      fills |-> FALSE] : c \in run.writes}
  BY DEF Columns!Fresh
<1>3. SUFFICES ASSUME NEW w \in run.writes,
                      \A d \in Columns!Fresh.columns : ~Columns!Same(w.name, d.name)
               PROVE  FALSE
  BY <1>1, ColumnsLackingIs
<1>4. [name |-> w.name, type |-> w.type, fills |-> FALSE] \in Columns!Fresh.columns
  BY <1>2
<1> QED BY <1>3, <1>4, ColumnsSameIs

-----------------------------------------------------------------------------
(* The steps.                                                              *)

\* Nothing of a run that is not done is stored.
LEMMA ColumnsNotDone ==
  ASSUME Columns!TypeOK, pc # "ok"
  PROVE  cursor = <<>> /\ batch \in 0..2
  BY DEF Columns!TypeOK

\* What is said of what was found does not change while it and the run do not.
LEMMA ColumnsSteady ==
  ASSUME UNCHANGED <<run, source>>
  PROVE  /\ Columns!WasFound => Columns!WasFound'
         /\ UNCHANGED step /\ Columns!WasTold => Columns!WasTold'
         /\ \A n, m : Columns!Same(n, m)' <=> Columns!Same(n, m)
         /\ \A a, b : Columns!Lacking(a, b)' = Columns!Lacking(a, b)
<1>1. \A n, m : Columns!Same(n, m)' <=> Columns!Same(n, m)
  BY DEF Columns!Same
<1>2. \A a, b : Columns!Lacking(a, b)' = Columns!Lacking(a, b)
  BY DEF Columns!Lacking, Columns!Same
<1>3. Columns!WasFound => Columns!WasFound'
  BY DEF Columns!WasFound, Columns!Was, Columns!Same, Columns!Nothing
<1>4. UNCHANGED step /\ Columns!WasTold => Columns!WasTold'
  <2>1. Columns!Was' = Columns!Was /\ (Columns!LeavesOut' <=> Columns!LeavesOut)
        /\ Columns!Nothing' = Columns!Nothing
    BY DEF Columns!Was, Columns!LeavesOut, Columns!NamesEveryColumn, Columns!Nothing
  <2>2. \A w : Columns!Asked(w)' <=> Columns!Asked(w)
    BY DEF Columns!Asked
  <2>3. \A e : Columns!KeepsDuplicates(e)' <=> Columns!KeepsDuplicates(e)
    BY DEF Columns!KeepsDuplicates
  <2>4. Columns!Lacking(run.writes, Columns!Was)' = Columns!Lacking(run.writes, Columns!Was)
    BY <2>1, <1>2
  <2>5. Columns!Lacking(Columns!Was, run.writes)' = Columns!Lacking(Columns!Was, run.writes)
    BY <2>1, <1>2
  <2> QED BY <1>1, <2>1, <2>2, <2>3, <2>4, <2>5 DEF Columns!WasTold
<1> QED BY <1>1, <1>2, <1>3, <1>4

\* What is said of the tables made for the run neither.
LEMMA ColumnsPreparedStays ==
  ASSUME Columns!WasPrepared, UNCHANGED <<run, source, dest, window>>
  PROVE  Columns!WasPrepared'
<1>1. /\ Columns!Fresh' = Columns!Fresh /\ Columns!Nothing' = Columns!Nothing
      /\ (Columns!EvolvesTable' <=> Columns!EvolvesTable) /\ (Columns!Staged' <=> Columns!Staged)
  BY DEF Columns!Fresh, Columns!Nothing, Columns!EvolvesTable, Columns!Staged
<1>2. Columns!Evolved(source)' = Columns!Evolved(source)
      /\ Columns!Evolved(dest)' = Columns!Evolved(dest)
  BY DEF Columns!Evolved, Columns!Lacking, Columns!Same
<1> QED BY <1>1, <1>2 DEF Columns!WasPrepared

\* The checks raise what they find of the table that is there.
LEMMA ColumnsCheckedIs ==
  ASSUME Columns!ColumnsConstants, Columns!TypeOK, Columns!WasFound, NEW answers \in BOOLEAN,
         source = dest, ~Columns!Unwritable,
         NEW r,
         r = Columns!Unsourced \cup Columns!Dropped \cup Columns!Ignored(answers) \cup Columns!Copying
  PROVE  /\ \A w \in run.writes :
              <<"dropped", w.name>> \in r
                <=> Columns!LeavesOut /\ source # Columns!Nothing
                /\ w \in Columns!Lacking(run.writes, Columns!Was)
         /\ run.dest # "csv" =>
              /\ \A c \in Columns!Was :
                   <<"unsourced", c.name>> \in r <=>
                   ~c.fills /\ c \in Columns!Lacking(Columns!Was, run.writes)
              /\ \A w \in run.writes, c \in Columns!Was :
                   Columns!Same(w.name, c.name) /\ Columns!Asked(w) /\ c.type # w.type =>
                   <<"ignored", w.name>> \in r
              /\ \A w \in run.writes : <<"ignored", w.name>> \in r =>
                   \E c \in Columns!Was : Columns!Same(w.name, c.name)
                   /\ (c.type # w.type \/ w.alias)
         /\ <<"copies", "table">> \in r <=>
              /\ run.mode = "incremental" /\ run.keyed /\ run.dest = "clickhouse"
              /\ Columns!KeepsDuplicates(source.engine) /\ ~Columns!KeepsDuplicates(run.engine)
         /\ \A w \in r : w[1] \in Columns!Kinds
<1>1. Columns!Was = dest.columns /\ run \in ColumnRuns
  BY DEF Columns!Was, Columns!TypeOK
<1>2. /\ \A n : <<"dropped", n>> \in r <=> <<"dropped", n>> \in Columns!Dropped
      /\ \A n : <<"unsourced", n>> \in r <=> <<"unsourced", n>> \in Columns!Unsourced
      /\ \A n : <<"ignored", n>> \in r <=> <<"ignored", n>> \in Columns!Ignored(answers)
      /\ \A n : <<"copies", n>> \in r <=> <<"copies", n>> \in Columns!Copying
      /\ \A w \in r : w[1] \in Columns!Kinds
  <2>1. \A w \in Columns!Unsourced : w[1] = "unsourced"
    BY DEF Columns!Unsourced
  <2>2. \A w \in Columns!Dropped : w[1] = "dropped"
    BY DEF Columns!Dropped
  <2>3. \A w \in Columns!Ignored(answers) : w[1] = "ignored"
    BY DEF Columns!Ignored
  <2>4. \A w \in Columns!Copying : w[1] = "copies"
    BY DEF Columns!Copying
  <2>5. \A w \in r : w \in Columns!Unsourced \/ w \in Columns!Dropped
        \/ w \in Columns!Ignored(answers) \/ w \in Columns!Copying
    OBVIOUS
  <2>6. \A n : /\ <<"dropped", n>>[1] = "dropped" /\ <<"unsourced", n>>[1] = "unsourced"
               /\ <<"ignored", n>>[1] = "ignored" /\ <<"copies", n>>[1] = "copies"
    OBVIOUS
  <2> QED BY <2>1, <2>2, <2>3, <2>4, <2>5, <2>6 DEF Columns!Kinds
<1>3. ASSUME NEW w \in run.writes
      PROVE  <<"dropped", w.name>> \in r
               <=> Columns!LeavesOut /\ source # Columns!Nothing
               /\ w \in Columns!Lacking(run.writes, Columns!Was)
  <2>1. (Columns!LeavesOut /\ source # Columns!Nothing)
          <=> ~(run.dest # "clickhouse" \/ run.evolve \/ Columns!NamesEveryColumn
          \/ dest = Columns!Nothing)
    BY DEF Columns!LeavesOut
  <2>2. CASE Columns!LeavesOut /\ source # Columns!Nothing
    <3>1. Columns!Dropped = {<<"dropped", c.name>> : c \in Columns!Lacking(run.writes, Columns!Was)}
      BY <1>1, <2>1, <2>2 DEF Columns!Dropped
    <3>2. ASSUME <<"dropped",
                 w.name>> \in Columns!Dropped PROVE w \in Columns!Lacking(run.writes, Columns!Was)
      <4>1. PICK c \in Columns!Lacking(run.writes, Columns!Was) : <<"dropped",
                 w.name>> = <<"dropped", c.name>>
        BY <3>1, <3>2
      <4>2. c \in run.writes /\ c.name = w.name
        BY <4>1, ColumnsLackingIs
      <4>3. c = w
        BY <1>1, <4>2, ColumnsWritesDiffer
      <4> QED BY <4>1, <4>3
    <3> QED BY <1>2, <2>2, <3>1, <3>2
  <2>3. CASE ~(Columns!LeavesOut /\ source # Columns!Nothing)
    <3>1. Columns!Dropped = {}
      BY <2>1, <2>3 DEF Columns!Dropped
    <3> QED BY <1>2, <2>3, <3>1
  <2> QED BY <2>2, <2>3
<1>4. ASSUME run.dest # "csv", NEW c \in Columns!Was
      PROVE  <<"unsourced", c.name>> \in r <=>
             ~c.fills /\ c \in Columns!Lacking(Columns!Was, run.writes)
  <2>1. Columns!Unsourced = {<<"unsourced",
        d.name>> : d \in {e \in Columns!Lacking(Columns!Was, run.writes) : ~e.fills}}
    BY <1>1, <1>4 DEF Columns!Unsourced
  <2>2. ASSUME <<"unsourced", c.name>> \in Columns!Unsourced
        PROVE  ~c.fills /\ c \in Columns!Lacking(Columns!Was, run.writes)
    <3>1. PICK d \in Columns!Lacking(Columns!Was, run.writes) :
            ~d.fills /\ <<"unsourced", c.name>> = <<"unsourced", d.name>>
      BY <2>1, <2>2
    <3>2. d \in Columns!Was /\ d.name = c.name
      BY <3>1, ColumnsLackingIs
    <3>3. d = c
      BY <3>2, ColumnsSameIs DEF Columns!WasFound
    <3> QED BY <3>1, <3>3
  <2> QED BY <1>2, <2>1, <2>2
<1>5. ASSUME run.dest # "csv", NEW w \in run.writes
      PROVE  /\ \A c \in Columns!Was :
                  Columns!Same(w.name, c.name) /\ Columns!Asked(w) /\ c.type # w.type =>
                  <<"ignored", w.name>> \in r
             /\ <<"ignored", w.name>> \in r =>
                  \E c \in Columns!Was : Columns!Same(w.name, c.name)
                  /\ (c.type # w.type \/ w.alias)
  <2> DEFINE told(v) ==
        /\ Columns!Asked(v)
        /\ \E d \in Columns!Was : /\ Columns!Same(v.name, d.name)
                                  /\ d.type # v.type
                                     \/ (v.alias /\ ~(run.dest = "clickhouse" /\ answers))
  <2>1. Columns!Ignored(answers) = {<<"ignored", v.name>> : v \in {u \in run.writes : told(u)}}
    BY <1>1, <1>5 DEF Columns!Ignored
  <2>2. ASSUME <<"ignored", w.name>> \in Columns!Ignored(answers) PROVE told(w)
    <3> HIDE DEF told
    <3>1. PICK v \in run.writes : told(v) /\ <<"ignored", w.name>> = <<"ignored", v.name>>
      BY <2>1, <2>2
    <3>2. v = w
      BY <1>1, <3>1, ColumnsWritesDiffer
    <3> QED BY <3>1, <3>2
  <2>3. told(w) => <<"ignored", w.name>> \in Columns!Ignored(answers)
    <3> HIDE DEF told
    <3> QED BY <2>1
  <2>4. \A c \in Columns!Was : Columns!Same(w.name, c.name) /\ Columns!Asked(w)
        /\ c.type # w.type => told(w)
    OBVIOUS
  <2>5. told(w) => \E c \in Columns!Was : Columns!Same(w.name, c.name)
        /\ (c.type # w.type \/ w.alias)
    OBVIOUS
  <2> QED BY <1>2, <2>2, <2>3, <2>4, <2>5
<1>6. <<"copies", "table">> \in r <=>
        /\ run.mode = "incremental" /\ run.keyed /\ run.dest = "clickhouse"
        /\ Columns!KeepsDuplicates(source.engine) /\ ~Columns!KeepsDuplicates(run.engine)
  BY <1>2 DEF Columns!Copying
<1> QED BY <1>2, <1>3, <1>4, <1>5, <1>6

LEMMA ColumnsCheckDestinationKeeps ==
  ASSUME Columns!ColumnsConstants, Columns!ColumnsInv, Columns!CheckDestination
  PROVE  Columns!ColumnsInv'
<1>1. /\ pc = "check" /\ UNCHANGED <<run, dest, source, window, cursor, batch>>
      /\ Columns!TypeOK /\ Columns!WasFound /\ dest = source
      /\ batch = IF source = Columns!Nothing THEN 0 ELSE 1
  BY DEF Columns!CheckDestination, Columns!ColumnsInv, Columns!TypeOK
<1>2. Columns!WasFound' /\ Columns!Nothing' = Columns!Nothing
  BY <1>1, ColumnsSteady DEF Columns!Nothing
<1>3. CASE Columns!Unwritable
  <2>1. pc' = "refused" /\ UNCHANGED step
    BY <1>3 DEF Columns!CheckDestination
  <2>2. Columns!TypeOK'
    BY <1>1, <2>1 DEF Columns!TypeOK, Columns!Kinds
  <2> QED BY <1>1, <1>2, <2>1, <2>2 DEF Columns!ColumnsInv
<1>4. CASE ~Columns!Unwritable
  <2>1. pc' = "prepare"
    BY <1>4 DEF Columns!CheckDestination
  <2>2. PICK answers \in BOOLEAN :
          step' = Columns!Unsourced \cup Columns!Dropped \cup Columns!Ignored(answers) \cup Columns!Copying
    BY <1>4 DEF Columns!CheckDestination
  <2> DEFINE r == step'
  <2>3. r = Columns!Unsourced \cup Columns!Dropped \cup Columns!Ignored(answers)
              \cup Columns!Copying
    BY <2>2
  <2> HIDE DEF r
  <2>4. /\ \A w \in run.writes :
             <<"dropped", w.name>> \in r
               <=> Columns!LeavesOut /\ source # Columns!Nothing
               /\ w \in Columns!Lacking(run.writes, Columns!Was)
        /\ run.dest # "csv" =>
             /\ \A c \in Columns!Was :
                  <<"unsourced", c.name>> \in r <=>
                  ~c.fills /\ c \in Columns!Lacking(Columns!Was, run.writes)
             /\ \A w \in run.writes, c \in Columns!Was :
                  Columns!Same(w.name, c.name) /\ Columns!Asked(w) /\ c.type # w.type =>
                  <<"ignored", w.name>> \in r
             /\ \A w \in run.writes : <<"ignored", w.name>> \in r =>
                  \E c \in Columns!Was : Columns!Same(w.name, c.name)
                  /\ (c.type # w.type \/ w.alias)
        /\ <<"copies", "table">> \in r <=>
             /\ run.mode = "incremental" /\ run.keyed /\ run.dest = "clickhouse"
             /\ Columns!KeepsDuplicates(source.engine) /\ ~Columns!KeepsDuplicates(run.engine)
        /\ \A w \in r : w[1] \in Columns!Kinds
    BY <1>1, <1>4, <2>3, ColumnsCheckedIs
  <2>5. Columns!TypeOK'
    BY <1>1, <2>1, <2>4 DEF Columns!TypeOK, Columns!Kinds, r
  <2>6. /\ Columns!Was' = Columns!Was /\ (Columns!LeavesOut' <=> Columns!LeavesOut) /\ run' = run
           /\ source' = source
        /\ Columns!Lacking(run.writes, Columns!Was)' = Columns!Lacking(run.writes, Columns!Was)
        /\ Columns!Lacking(Columns!Was, run.writes)' = Columns!Lacking(Columns!Was, run.writes)
        /\ \A w : Columns!Asked(w)' <=> Columns!Asked(w)
        /\ \A n, m : Columns!Same(n, m)' <=> Columns!Same(n, m)
    BY <1>1 DEF Columns!Was, Columns!LeavesOut, Columns!NamesEveryColumn, Columns!Lacking,
                Columns!Same, Columns!Asked
  <2>7. run.dest = "csv" /\ run.mode # "full" /\ source # Columns!Nothing /\ Columns!Was # {} =>
          {c.name : c \in Columns!Was} = {w.name : w \in run.writes}
    BY <1>1, <1>4 DEF Columns!Unwritable, Columns!Was
  <2>8. Columns!WasTold'
    <3>1. (\A w \in run.writes :
             <<"dropped", w.name>> \in step
               <=> Columns!LeavesOut /\ source # Columns!Nothing
               /\ w \in Columns!Lacking(run.writes, Columns!Was))'
      BY <1>2, <2>4, <2>6 DEF r
    <3>2. (run.dest # "csv" =>
            /\ \A c \in Columns!Was :
                 <<"unsourced", c.name>> \in step <=>
                 ~c.fills /\ c \in Columns!Lacking(Columns!Was, run.writes)
            /\ \A w \in run.writes, c \in Columns!Was :
                 Columns!Same(w.name, c.name) /\ Columns!Asked(w) /\ c.type # w.type =>
                 <<"ignored", w.name>> \in step
            /\ \A w \in run.writes : <<"ignored", w.name>> \in step =>
                 \E c \in Columns!Was : Columns!Same(w.name, c.name)
                 /\ (c.type # w.type \/ w.alias))'
      BY <2>4, <2>6 DEF r
    <3>3. (<<"copies", "table">> \in step <=>
             /\ run.mode = "incremental" /\ run.keyed /\ run.dest = "clickhouse"
             /\ Columns!KeepsDuplicates(source.engine) /\ ~Columns!KeepsDuplicates(run.engine))'
      BY <2>4, <2>6 DEF r, Columns!KeepsDuplicates
    <3>4. (run.dest = "csv" /\ run.mode # "full" /\ source # Columns!Nothing /\ Columns!Was # {} =>
             {c.name : c \in Columns!Was} = {w.name : w \in run.writes})'
      BY <1>2, <2>6, <2>7
    <3> QED BY <3>1, <3>2, <3>3, <3>4 DEF Columns!WasTold
  <2> QED BY <1>1, <1>2, <2>1, <2>5, <2>8 DEF Columns!ColumnsInv
<1> QED BY <1>3, <1>4

LEMMA ColumnsPrepareTargetKeeps ==
  ASSUME Columns!ColumnsInv, Columns!PrepareTarget
  PROVE  Columns!ColumnsInv'
<1>1. /\ pc = "prepare" /\ UNCHANGED <<run, source, step, cursor, batch>>
      /\ Columns!TypeOK /\ Columns!WasFound /\ dest = source /\ Columns!WasTold
      /\ batch = IF source = Columns!Nothing THEN 0 ELSE 1
  BY DEF Columns!PrepareTarget, Columns!ColumnsInv
<1>2. Columns!WasFound' /\ Columns!WasTold' /\ Columns!Nothing' = Columns!Nothing
  BY <1>1, ColumnsSteady DEF Columns!Nothing
<1>3. CASE dest = Columns!Nothing /\ ~run.create
  <2>1. pc' = "failed" /\ UNCHANGED <<dest, window>>
    BY <1>3 DEF Columns!PrepareTarget
  <2>2. Columns!TypeOK'
    BY <1>1, <2>1 DEF Columns!TypeOK, Columns!Kinds
  <2> QED BY <1>1, <1>2, <2>1, <2>2 DEF Columns!ColumnsInv
<1>4. CASE ~(dest = Columns!Nothing /\ ~run.create)
  <2>1. /\ pc' = "write"
        /\ dest' = IF dest = Columns!Nothing THEN Columns!Fresh
                   ELSE IF Columns!EvolvesTable THEN Columns!Evolved(dest) ELSE dest
        /\ window' = IF Columns!Staged THEN Columns!Staging(dest') ELSE dest'
    BY <1>4 DEF Columns!PrepareTarget
  <2>2. Columns!TypeOK'
    BY <1>1, <2>1 DEF Columns!TypeOK, Columns!Kinds
  <2>3. Columns!Staging(dest') = IF source = Columns!Nothing \/ run.dest = "csv" THEN Columns!Fresh
                          ELSE IF run.mode = "full"
                          /\ run.evolve THEN Columns!Evolved(dest') ELSE dest'
    BY <1>1 DEF Columns!Staging
  <2>4. /\ Columns!Fresh' = Columns!Fresh /\ (Columns!EvolvesTable' <=> Columns!EvolvesTable)
           /\ (Columns!Staged' <=> Columns!Staged)
        /\ run' = run /\ source' = source
    BY <1>1 DEF Columns!Fresh, Columns!EvolvesTable, Columns!Staged
  <2>5. Columns!Evolved(source)' = Columns!Evolved(source)
    BY <1>1 DEF Columns!Evolved, Columns!Lacking, Columns!Same
  <2>6. Columns!Evolved(dest') = Columns!Evolved(dest)'
    BY <1>1 DEF Columns!Evolved, Columns!Lacking, Columns!Same
  <2>7. Columns!WasPrepared'
    BY <1>1, <1>2, <2>1, <2>3, <2>4, <2>5, <2>6 DEF Columns!WasPrepared
  <2> QED BY <1>1, <1>2, <2>1, <2>2, <2>7 DEF Columns!ColumnsInv
<1> QED BY <1>3, <1>4

LEMMA ColumnsWriteKeeps ==
  ASSUME Columns!ColumnsInv, Columns!Write
  PROVE  Columns!ColumnsInv'
<1>1. /\ pc = "write" /\ UNCHANGED <<run, dest, source, window, step, cursor, batch>>
      /\ Columns!TypeOK /\ Columns!WasFound /\ Columns!WasTold /\ Columns!WasPrepared
      /\ batch = IF source = Columns!Nothing THEN 0 ELSE 1
  BY DEF Columns!Write, Columns!ColumnsInv
<1>2. Columns!WasFound' /\ Columns!WasTold' /\ Columns!Nothing' = Columns!Nothing
      /\ Columns!WasPrepared'
  BY <1>1, ColumnsSteady, ColumnsPreparedStays DEF Columns!Nothing
<1>3. /\ pc' \in {"failed", "promote"}
      /\ pc' = "promote" /\ run.dest = "bigquery" =>
         Columns!Lacking(run.writes, window.columns) = {}
  BY DEF Columns!Write
<1>4. Columns!TypeOK'
  BY <1>1, <1>3 DEF Columns!TypeOK, Columns!Kinds
<1>5. Columns!Lacking(run.writes, window.columns)' = Columns!Lacking(run.writes, window.columns)
  BY <1>1, ColumnsSteady
<1> QED BY <1>1, <1>2, <1>3, <1>4, <1>5 DEF Columns!ColumnsInv

\* The table a run leaves, of one that was there: what it was, or that with the
\* run's columns added.
LEMMA ColumnsLeavesTable ==
  ASSUME Columns!ColumnsConstants, Columns!ColumnsInv, pc = "promote", ~Columns!Misfits,
         source # Columns!Nothing, NEW t,
         t = IF run.mode = "full" /\ run.dest # "bigquery" THEN window
             ELSE IF run.dest = "csv" /\ dest.columns = {}
             THEN [dest EXCEPT !.columns = window.columns]
             ELSE dest
  PROVE  /\ Columns!Lacking(run.writes,
            t.columns) = IF Columns!LeavesOut THEN Columns!Lacking(run.writes, Columns!Was) ELSE {}
         /\ run.dest # "csv" =>
              /\ Columns!Was \subseteq t.columns
              /\ \A c \in t.columns \ Columns!Was :
                   \E w \in Columns!Lacking(run.writes, Columns!Was) : c.name = w.name
                   /\ c.type = w.type
         /\ dest.engine = source.engine
<1>1. /\ Columns!WasFound /\ Columns!WasTold /\ Columns!WasPrepared /\ run \in ColumnRuns
      /\ run.dest = "bigquery" => Columns!Lacking(run.writes, window.columns) = {}
  BY DEF Columns!ColumnsInv, Columns!TypeOK
<1>2. /\ run.mode \in Columns!Modes /\ run.dest \in Columns!Dests
      /\ run.dest = "csv" => run.mode = "full" \/ run.forced
  BY <1>1 DEF Columns!ColumnsConstants
<1>3. /\ dest = IF Columns!EvolvesTable THEN Columns!Evolved(source) ELSE source
      /\ window = IF ~Columns!Staged THEN dest
                  ELSE IF run.dest = "csv" THEN Columns!Fresh
                  ELSE IF run.mode = "full" /\ run.evolve THEN Columns!Evolved(dest) ELSE dest
  BY <1>1 DEF Columns!WasPrepared
<1>4. /\ source = [engine |-> source.engine, columns |-> source.columns]
      /\ Columns!Evolved(source).engine = source.engine
      /\ source.columns \subseteq Columns!Evolved(source).columns
      /\ \A c \in Columns!Evolved(source).columns \ source.columns :
           \E w \in Columns!Lacking(run.writes, source.columns) : c.name = w.name /\ c.type = w.type
      /\ Columns!Lacking(run.writes, Columns!Evolved(source).columns) = {}
      /\ Columns!Lacking(run.writes, source.columns) = {} => Columns!Evolved(source) = source
  <2>1. source = [engine |-> source.engine, columns |-> source.columns]
    BY <1>1 DEF Columns!WasFound
  <2> QED BY <2>1, ColumnsEvolvedIs
<1>5. dest.engine = source.engine
  BY <1>3, <1>4
<1>6. CASE run.dest = "csv" /\ run.mode = "full"
  <2>1. t = Columns!Fresh /\ ~Columns!LeavesOut
    BY <1>3, <1>6 DEF Columns!Staged, Columns!LeavesOut
  <2> QED BY <1>5, <1>6, <2>1, ColumnsFreshIs
<1>7. CASE run.dest = "csv" /\ run.mode # "full"
  <2>1. Columns!Was # {}
    <3>1. source.engine = "none"
      BY <1>1, <1>7 DEF Columns!WasFound
    <3> QED BY <1>4, <3>1 DEF Columns!Was, Columns!Nothing
  <2>2. {c.name : c \in Columns!Was} = {w.name : w \in run.writes}
    BY <1>1, <1>7, <2>1 DEF Columns!WasTold
  <2>3. Columns!Lacking(run.writes, Columns!Was) = {}
    <3>1. SUFFICES ASSUME NEW w \in run.writes, \A d \in Columns!Was : ~Columns!Same(w.name, d.name)
                   PROVE  FALSE
      BY ColumnsLackingIs
    <3>2. w.name \in {c.name : c \in Columns!Was}
      BY <2>2
    <3>3. PICK d \in Columns!Was : d.name = w.name
      BY <3>2
    <3> QED BY <3>1, <3>3, ColumnsSameIs
  <2>4. dest = source
    BY <1>3, <1>4, <2>3 DEF Columns!Was
  <2>5. t = source
    BY <1>7, <2>1, <2>4 DEF Columns!Was
  <2>6. ~Columns!LeavesOut
    BY <1>7 DEF Columns!LeavesOut
  <2> QED BY <1>5, <1>7, <2>3, <2>5, <2>6 DEF Columns!Was
<1>8. CASE run.dest = "bigquery"
  <2>1. t = dest /\ ~Columns!LeavesOut
    BY <1>8 DEF Columns!LeavesOut
  <2>2. Columns!Lacking(run.writes, t.columns) = {}
    <3>1. CASE run.evolve
      <4>1. Columns!EvolvesTable
        BY <1>8, <3>1 DEF Columns!EvolvesTable
      <4> QED BY <1>3, <1>4, <2>1, <4>1
    <3>2. CASE ~run.evolve
      <4>1. window = dest
        BY <1>3, <1>8, <3>2
      <4> QED BY <1>1, <1>8, <2>1, <4>1
    <3> QED BY <3>1, <3>2
  <2>3. t \in {source, Columns!Evolved(source)}
    BY <1>3, <2>1
  <2> QED BY <1>4, <1>5, <2>1, <2>2, <2>3 DEF Columns!Was
<1>9. CASE run.dest = "clickhouse"
  <2>1. t \in {source, Columns!Evolved(source)}
    BY <1>3, <1>9 DEF Columns!Staged, Columns!EvolvesTable
  <2>2. Columns!Lacking(run.writes,
        t.columns) = IF Columns!LeavesOut THEN Columns!Lacking(run.writes, Columns!Was) ELSE {}
    <3>1. CASE run.evolve
      <4>1. t = Columns!Evolved(source) /\ ~Columns!LeavesOut
        BY <1>3, <1>9, <3>1 DEF Columns!Staged, Columns!EvolvesTable, Columns!LeavesOut
      <4> QED BY <1>4, <4>1
    <3>2. CASE ~run.evolve /\ ~Columns!NamesEveryColumn
      <4>1. t = source /\ Columns!LeavesOut
        BY <1>3, <1>9, <3>2 DEF Columns!Staged, Columns!EvolvesTable, Columns!LeavesOut
      <4> QED BY <4>1 DEF Columns!Was
    <3>3. CASE ~run.evolve /\ Columns!NamesEveryColumn
      <4>1. t = dest /\ ~Columns!LeavesOut /\ Columns!Staged /\ run.mode # "full"
        BY <1>3, <1>9, <3>3 DEF Columns!Staged, Columns!LeavesOut, Columns!NamesEveryColumn
      <4> QED BY <1>9, <4>1 DEF Columns!Misfits
    <3> QED BY <3>1, <3>2, <3>3
  <2> QED BY <1>4, <1>5, <1>9, <2>1, <2>2 DEF Columns!Was
<1> QED BY <1>2, <1>6, <1>7, <1>8, <1>9 DEF Columns!Dests

LEMMA ColumnsPromoteKeeps ==
  ASSUME Columns!ColumnsConstants, Columns!ColumnsInv, Columns!Promote
  PROVE  Columns!ColumnsInv'
<1>1. /\ pc = "promote" /\ UNCHANGED <<run, source, window, step>>
      /\ Columns!TypeOK /\ Columns!WasFound /\ Columns!WasTold /\ Columns!WasPrepared
      /\ batch = IF source = Columns!Nothing THEN 0 ELSE 1
  BY DEF Columns!Promote, Columns!ColumnsInv
<1>2. Columns!WasFound' /\ Columns!WasTold' /\ Columns!Nothing' = Columns!Nothing
  BY <1>1, ColumnsSteady DEF Columns!Nothing
<1>3. CASE Columns!Misfits
  <2>1. pc' = "failed" /\ UNCHANGED <<dest, cursor, batch>>
    BY <1>3 DEF Columns!Promote
  <2>2. Columns!TypeOK'
    BY <1>1, <2>1 DEF Columns!TypeOK, Columns!Kinds
  <2> QED BY <1>1, <1>2, <2>1, <2>2 DEF Columns!ColumnsInv
<1>4. CASE ~Columns!Misfits
  <2> DEFINE t == IF run.mode = "full" /\ run.dest # "bigquery" THEN window
                  ELSE IF run.dest = "csv" /\ dest.columns = {}
                  THEN [dest EXCEPT !.columns = window.columns]
                  ELSE dest
  <2>1. /\ pc' = "ok" /\ dest' = t
        /\ cursor' = [c \in dest'.columns |-> Columns!Left(c, dest')]
        /\ batch' = IF run.mode = "append"
           \/ (run.mode = "incremental" /\ Columns!KeepsDuplicates(dest.engine))
                     THEN batch + 1 ELSE batch
    BY <1>4 DEF Columns!Promote
  <2>2. source # Columns!Nothing =>
          /\ Columns!Lacking(run.writes,
             t.columns) = IF Columns!LeavesOut THEN Columns!Lacking(run.writes, Columns!Was) ELSE {}
          /\ run.dest # "csv" =>
               /\ Columns!Was \subseteq t.columns
               /\ \A c \in t.columns \ Columns!Was :
                    \E w \in Columns!Lacking(run.writes, Columns!Was) : c.name = w.name
                    /\ c.type = w.type
          /\ dest.engine = source.engine
    BY <1>1, <1>4, ColumnsLeavesTable
  <2> HIDE DEF t
  <2>3. /\ DOMAIN cursor' = dest'.columns
           /\ \A c \in DOMAIN cursor' : cursor'[c] = Columns!Left(c, dest')
    BY <2>1
  <2>4. \A c : Columns!Left(c, dest') = Columns!Left(c, dest)'
    BY <1>1 DEF Columns!Left, Columns!Same
  <2>5. \A c : Columns!Left(c, dest').updated \in {"run", "old", "own", "none"}
    BY DEF Columns!Left
  <2>6. batch' \in 0..2 /\ (source # Columns!Nothing => (batch' > 1 <=>
          run.mode = "append"
          \/ (run.mode = "incremental" /\ Columns!KeepsDuplicates(source.engine))))
    <3>1. batch \in {0, 1} /\ (source # Columns!Nothing => batch = 1 /\ dest.engine = source.engine)
      BY <1>1, <2>2
    <3> QED BY <2>1, <3>1
  <2>7. Columns!TypeOK'
    <3>1. \A c \in DOMAIN cursor' : cursor'[c].updated \in {"run", "old", "own", "none"}
      BY <2>3, <2>5
    <3> QED BY <1>1, <2>1, <2>6, <3>1 DEF Columns!TypeOK, Columns!Kinds
  <2>8. /\ Columns!Was' = Columns!Was /\ (Columns!LeavesOut' <=> Columns!LeavesOut) /\ run' = run
           /\ source' = source
        /\ Columns!Lacking(run.writes, Columns!Was)' = Columns!Lacking(run.writes, Columns!Was)
        /\ Columns!Lacking(run.writes, dest.columns)' = Columns!Lacking(run.writes, dest'.columns)
        /\ Columns!KeepsDuplicates(source.engine)' = Columns!KeepsDuplicates(source.engine)
    BY <1>1 DEF Columns!Was, Columns!LeavesOut, Columns!NamesEveryColumn, Columns!Lacking,
                Columns!Same, Columns!KeepsDuplicates
  <2>9. Columns!WasLeft'
    BY <1>2, <2>1, <2>2, <2>3, <2>4, <2>6, <2>8 DEF Columns!WasLeft
  <2> QED BY <1>1, <1>2, <2>1, <2>7, <2>9 DEF Columns!ColumnsInv
<1> QED BY <1>3, <1>4

LEMMA ColumnsNextKeeps ==
  ASSUME Columns!ColumnsConstants, Columns!ColumnsInv, [Columns!Next]_Columns!vars
  PROVE  Columns!ColumnsInv'
<1>1. CASE UNCHANGED Columns!vars
  <2>1. UNCHANGED <<run, pc, dest, source, window, step, cursor, batch>>
    BY <1>1 DEF Columns!vars
  <2>2. Columns!TypeOK' /\ Columns!WasFound' /\ Columns!Nothing' = Columns!Nothing
        /\ (Columns!WasTold => Columns!WasTold') /\ (Columns!WasPrepared => Columns!WasPrepared')
    BY <2>1, ColumnsSteady, ColumnsPreparedStays
    DEF Columns!ColumnsInv, Columns!TypeOK, Columns!Kinds, Columns!Nothing
  <2>3. Columns!Lacking(run.writes, window.columns)' = Columns!Lacking(run.writes, window.columns)
    BY <2>1, ColumnsSteady
  <2>4. Columns!WasLeft => Columns!WasLeft'
    BY <2>1 DEF Columns!WasLeft, Columns!Left, Columns!Lacking, Columns!Same, Columns!Was,
                Columns!LeavesOut, Columns!NamesEveryColumn, Columns!KeepsDuplicates,
                Columns!Nothing
  <2> QED BY <2>1, <2>2, <2>3, <2>4 DEF Columns!ColumnsInv
<1> QED BY <1>1, ColumnsCheckDestinationKeeps, ColumnsPrepareTargetKeeps, ColumnsWriteKeeps,
    ColumnsPromoteKeeps
        DEF Columns!Next, Columns!Returned

LEMMA ColumnsInitInv ==
  ASSUME Columns!ColumnsConstants, Columns!Init
  PROVE  Columns!ColumnsInv
<1>1. /\ run \in ColumnRuns /\ dest \in TablesFound /\ source = dest /\ pc = "check"
      /\ dest # Columns!Nothing => (dest.engine = "none") = (run.dest # "clickhouse")
      /\ \A c, d \in dest.columns : Columns!Same(c.name, d.name) => c = d
      /\ step = {} /\ cursor = <<>> /\ batch = IF source = Columns!Nothing THEN 0 ELSE 1
  BY DEF Columns!Init
<1>2. Columns!WasFound
  BY <1>1 DEF Columns!WasFound, Columns!Was, Columns!ColumnsConstants
<1>3. DOMAIN cursor = {}
  BY <1>1
<1>4. Columns!TypeOK
  BY <1>1, <1>3 DEF Columns!TypeOK
<1> QED BY <1>1, <1>2, <1>4 DEF Columns!ColumnsInv

-----------------------------------------------------------------------------
LEMMA ColumnsInvHolds ==
  ASSUME Columns!ColumnsConstants, Columns!ColumnsInv
  PROVE  Columns!TypeOK /\ Columns!HarmIsTold
<1> SUFFICES ASSUME pc = "ok", source # Columns!Nothing PROVE Columns!HarmIsTold
  BY DEF Columns!ColumnsInv, Columns!HarmIsTold
<1>1. Columns!TypeOK /\ Columns!WasFound /\ Columns!WasTold /\ Columns!WasLeft /\ run \in ColumnRuns
  BY DEF Columns!ColumnsInv, Columns!TypeOK
<1>2. /\ DOMAIN cursor = dest.columns
      /\ \A c \in DOMAIN cursor : cursor[c] = Columns!Left(c, dest)
      /\ Columns!Lacking(run.writes,
         dest.columns) = IF Columns!LeavesOut THEN Columns!Lacking(run.writes, Columns!Was) ELSE {}
      /\ run.dest # "csv" =>
           /\ Columns!Was \subseteq dest.columns
           /\ \A c \in dest.columns \ Columns!Was :
                \E w \in Columns!Lacking(run.writes, Columns!Was) : c.name = w.name
                /\ c.type = w.type
      /\ batch > 1 <=>
           run.mode = "append"
           \/ (run.mode = "incremental" /\ Columns!KeepsDuplicates(source.engine))
  BY <1>1 DEF Columns!WasLeft
<1>3. ASSUME NEW w \in run.writes
      PROVE  (\A c \in DOMAIN cursor : ~Columns!Same(w.name, c.name)) <=>
             <<"dropped", w.name>> \in step
  <2>1. (\A c \in DOMAIN cursor : ~Columns!Same(w.name, c.name)) <=>
        w \in Columns!Lacking(run.writes, dest.columns)
    <3>1. DOMAIN cursor = dest.columns
      BY <1>2
    <3> QED BY <3>1, ColumnsLackingIs
  <2>2. <<"dropped", w.name>> \in step <=>
        Columns!LeavesOut /\ w \in Columns!Lacking(run.writes, Columns!Was)
    BY <1>1 DEF Columns!WasTold
  <2> QED BY <1>2, <2>1, <2>2
<1>4. ASSUME run.dest # "csv", NEW c \in Columns!Was
      PROVE  (\E d \in DOMAIN cursor : d.name = c.name /\ cursor[d].added = "none")
               <=> <<"unsourced", c.name>> \in step
  <2>1. ASSUME NEW d \in DOMAIN cursor, d.name = c.name PROVE d = c
    <3>1. CASE d \in Columns!Was
      BY <1>1, <2>1, <3>1, ColumnsSameIs DEF Columns!WasFound
    <3>2. CASE d \notin Columns!Was
      <4>1. PICK w \in Columns!Lacking(run.writes, Columns!Was) : d.name = w.name
        BY <1>2, <1>4, <3>2
      <4>2. ~Columns!Same(w.name, c.name)
        BY <4>1, ColumnsLackingIs
      <4> QED BY <2>1, <4>1, <4>2, ColumnsSameIs
    <3> QED BY <3>1, <3>2
  <2>2. c \in DOMAIN cursor
    BY <1>2, <1>4
  <2>3. cursor[c].added = "none" <=> ~c.fills /\ \A w \in run.writes : ~Columns!Same(w.name, c.name)
    <3>1. cursor[c] = Columns!Left(c, dest)
      BY <1>2, <2>2
    <3> QED BY <3>1 DEF Columns!Left
  <2>4. (\A w \in run.writes : ~Columns!Same(w.name, c.name)) <=>
        c \in Columns!Lacking(Columns!Was, run.writes)
    BY ColumnsLackingIs, ColumnsSameIs
  <2>5. <<"unsourced", c.name>> \in step <=>
        ~c.fills /\ c \in Columns!Lacking(Columns!Was, run.writes)
    BY <1>1, <1>4 DEF Columns!WasTold
  <2> QED BY <2>1, <2>2, <2>3, <2>4, <2>5
<1>5. ASSUME run.dest # "csv", NEW w \in run.writes, NEW c \in DOMAIN cursor,
             Columns!Same(w.name, c.name)
      PROVE  /\ Columns!Asked(w) /\ c.type # w.type => <<"ignored", w.name>> \in step
             /\ <<"ignored", w.name>> \in step => c.type # w.type \/ w.alias
  <2>1. /\ \A d \in Columns!Was :
             Columns!Same(w.name, d.name) /\ Columns!Asked(w) /\ d.type # w.type =>
             <<"ignored", w.name>> \in step
        /\ <<"ignored", w.name>> \in step =>
             \E d \in Columns!Was : Columns!Same(w.name, d.name) /\ (d.type # w.type \/ w.alias)
    BY <1>1, <1>5 DEF Columns!WasTold
  <2>2. CASE c \in Columns!Was
    <3>1. \A d \in Columns!Was : Columns!Same(w.name, d.name) => d = c
      BY <1>1, <1>5, <2>2, ColumnsSameIs DEF Columns!WasFound
    <3> QED BY <1>5, <2>1, <2>2, <3>1
  <2>3. CASE c \notin Columns!Was
    <3>1. PICK v \in Columns!Lacking(run.writes, Columns!Was) : c.name = v.name /\ c.type = v.type
      BY <1>2, <1>5, <2>3
    <3>2. v \in run.writes /\ \A d \in Columns!Was : ~Columns!Same(v.name, d.name)
      BY <3>1, ColumnsLackingIs
    <3>3. v = w
      BY <1>1, <1>5, <3>1, <3>2, ColumnsWritesDiffer
    <3> QED BY <2>1, <3>1, <3>2, <3>3
  <2> QED BY <2>2, <2>3
<1>6. (batch > 1 /\ run.mode = "incremental" /\ run.keyed /\ ~Columns!KeepsDuplicates(run.engine))
        <=> <<"copies", "table">> \in step
  <2>1. <<"copies", "table">> \in step <=>
          /\ run.mode = "incremental" /\ run.keyed /\ run.dest = "clickhouse"
          /\ Columns!KeepsDuplicates(source.engine) /\ ~Columns!KeepsDuplicates(run.engine)
    BY <1>1 DEF Columns!WasTold
  <2>2. Columns!KeepsDuplicates(source.engine) => run.dest = "clickhouse"
    BY <1>1 DEF Columns!WasFound, Columns!KeepsDuplicates
  <2> QED BY <1>2, <2>1, <2>2
<1> QED BY <1>3, <1>4, <1>5, <1>6 DEF Columns!HarmIsTold

\* The inductive invariant of a run's columns holds in every
\* state.
THEOREM ColumnsInvariant == Spec => [](which = "columns" => Columns!ColumnsInv)
<1>1. Init => (which = "columns" => Columns!ColumnsInv)
  BY Begins, ColumnsInstance, ColumnsInitInv
<1>2. (which = "columns" => Columns!ColumnsInv) /\ [Next]_readsVars =>
        (which = "columns" => Columns!ColumnsInv)'
  BY Goes, ColumnsInstance, ColumnsNextKeeps
<1> QED BY <1>1, <1>2, PTL DEF Spec

\* What a run's columns do to a table that was there is in a warning raised before
\* anything was written: values with no column to land in, columns left without a
\* value, types an option does not get, upserts that append; and no warning is of a
\* harm that the run did not do.
THEOREM HarmsAreTold == Spec => []HarmIsTold
<1>1. (which = "columns" => Columns!ColumnsInv) => HarmIsTold
  BY ColumnsInstance, ColumnsInvHolds DEF HarmIsTold
<1> QED BY <1>1, ColumnsInvariant, PTL

-----------------------------------------------------------------------------
(* Reads of an API.                                                       *)

\* The instance's operators of the library are the library's.
LEMMA ApiLibrary ==
  /\ \A S : IsFiniteSet(S) => Api!Cardinality(S) \in Nat
  /\ Api!Cardinality({}) = 0
  /\ \A S : (\E x \in S : \A y \in S : x >= y) => Api!Max(S) \in S /\ \A y \in S : Api!Max(S) >= y
<1>1. \A S : Api!Cardinality(S) = Cardinality(S)
  BY DEF Api!Cardinality, Cardinality
<1>2. /\ \A S : IsFiniteSet(S) => Api!Cardinality(S) \in Nat
      /\ Api!Cardinality({}) = 0
  BY <1>1, FS_CardinalityType, FS_EmptySet
<1>3. \A S : (\E x \in S : \A y \in S : x >= y) => Api!Max(S) \in S /\ \A y \in S : Api!Max(S) >= y
  BY DEF Api!Max
<1> QED BY <1>2, <1>3

\* And so is its finiteness.
LEMMA ApiFinite ==
  ASSUME NEW S
  PROVE  Api!IsFiniteSet(S) <=> IsFiniteSet(S)
BY DEF Api!IsFiniteSet, IsFiniteSet

\* A finite set of integers that is not empty has a least member, too.
LEMMA ApiLeastThere ==
  ASSUME NEW S, \A z \in S : z \in Int, IsFiniteSet(S), S # {}
  PROVE  \E x \in S : \A y \in S : x <= y
<1> DEFINE below(x) == {y \in S : y < x}
           T == {below(x) : x \in S}
<1>1. T \subseteq SUBSET S /\ T # {}
  OBVIOUS
<1>2. PICK s \in T : \A u \in T : u \subseteq s => u = s
  <2> HIDE DEF T
  <2> QED BY <1>1, SmallestSubset
<1>3. PICK x \in S : s = below(x)
  BY <1>2
<1>4. ASSUME NEW y \in S, y < x
      PROVE  FALSE
  <2>1. x \in Int /\ y \in Int /\ \A z \in S : z \in Int
    OBVIOUS
  <2>2. below(y) \subseteq below(x)
    <3>1. \A z \in S : z < y => z < x
      BY <1>4, <2>1
    <3> QED BY <3>1
  <2>3. y \in below(x) /\ y \notin below(y)
    BY <1>4, <2>1
  <2> QED BY <1>2, <1>3, <2>2, <2>3
<1> QED BY <1>4

-----------------------------------------------------------------------------
(* Days, windows and pages.                                                *)

\* The day an hour is of.
LEMMA ApiDayOfIs ==
  ASSUME NEW h \in Int
  PROVE  /\ Api!DayOf(h) \in Int /\ (h >= 1 => Api!DayOf(h) >= 1)
         /\ \A k \in Int : h <= k => Api!DayOf(h) <= Api!DayOf(k)
  BY DEF Api!DayOf

\* What the transfer is.
LEMMA ApiCfgIs ==
  ASSUME Api!ApiConstants, cfg \in ApiTransfers
  PROVE  /\ cfg.kind \in {"clevertap", "appsflyer", "http"}
         /\ cfg.lookback \in Nat /\ cfg.from \in Int /\ cfg.to \in Nat
         /\ cfg.mode # "full" => cfg.from <= 1 /\ cfg.to <= 1
         /\ \A i \in Api!Records : i \in Int /\ Api!Day(i) \in Int /\ Api!Day(i) >= 1
            /\ Api!At(i) \in Int
         /\ \A t \in cfg.turns :
              /\ t.at \in Nat /\ t.next \in Nat /\ t.next <= t.at + 1
              /\ cfg.kind = "clevertap" /\ t.next = 0 => t.at <= 1 \/ t.partial
  BY DEF Api!ApiConstants, Api!Records, Api!Day, Api!At

\* And its records are finitely many.
LEMMA ApiRecordsAreFinite ==
  ASSUME Api!ApiConstants, cfg \in ApiTransfers
  PROVE  IsFiniteSet(Api!Records)
  BY ApiFinite DEF Api!ApiConstants, Api!Records

\* derive_api_window: it ends today or earlier, and starts no later than the
\* cursor's lookback has it, or than from_date.
LEMMA ApiWindowIs ==
  ASSUME Api!ApiConstants, cfg \in ApiTransfers, cfg.mode # "full",
         NEW day \in Int, day >= 1, NEW c \in Int, c >= 0
  PROVE  /\ Api!WindowOf(day, c).to \in Int /\ Api!WindowOf(day, c).from \in Int
         /\ 1 <= Api!WindowOf(day, c).to /\ Api!WindowOf(day, c).to <= day
         /\ c = 0 => cfg.from <= Api!WindowOf(day, c).from
         /\ c > 0 => \/ Api!WindowOf(day, c).from <= c - cfg.lookback
                     \/ Api!WindowOf(day, c).from <= cfg.from
<1>1. cfg.lookback \in Nat /\ cfg.from \in Int /\ cfg.to \in Nat /\ cfg.from <= 1 /\ cfg.to <= 1
  BY ApiCfgIs
<1> DEFINE to     == IF cfg.to = 0 THEN day ELSE cfg.to
           start  == IF cfg.skip THEN to ELSE cfg.from
           resume == IF cfg.lookback > 0 THEN Api!Larger(Api!ResumeFrom(c),
           cfg.from) ELSE Api!ResumeFrom(c)
           from   == IF c > 0 THEN resume ELSE start
           first  == IF from > to THEN to ELSE from
<1>2. Api!WindowOf(day, c) = [from |-> first, to |-> to]
  BY DEF Api!WindowOf
<1>3. to \in Int /\ 1 <= to /\ to <= day
  BY <1>1
<1>4. resume \in {c - cfg.lookback, cfg.from}
  BY <1>1 DEF Api!Larger, Api!ResumeFrom
<1>5. start \in Int /\ cfg.from <= start
  BY <1>1, <1>3
<1>6. resume \in Int
  BY <1>1, <1>4
<1> HIDE DEF to, start, resume
<1>7. /\ first \in Int
      /\ c = 0 => cfg.from <= first
      /\ c > 0 => first <= resume
  BY <1>1, <1>3, <1>5, <1>6
<1>8. c > 0 => first <= c - cfg.lookback \/ first <= cfg.from
  BY <1>4, <1>7
<1> HIDE DEF first
<1>9. Api!WindowOf(day, c).to = to /\ Api!WindowOf(day, c).from = first
  BY <1>2
<1> QED BY <1>3, <1>7, <1>8, <1>9

\* The records of the window are finitely many.
LEMMA ApiExportedIs ==
  ASSUME Api!ApiConstants, cfg \in ApiTransfers
  PROVE  /\ Api!Exported \subseteq Api!Records /\ \A i \in Api!Exported : i \in Int
         /\ \A S : S \subseteq Api!Exported => IsFiniteSet(S)
<1>1. Api!Exported \subseteq Api!Records
  BY DEF Api!Exported
<1> QED BY <1>1, ApiCfgIs, ApiRecordsAreFinite, FS_Subset

\* Each is on one of its pages.
LEMMA ApiPagesAre ==
  ASSUME Api!ApiConstants, cfg \in ApiTransfers
  PROVE  /\ Api!Pages \in Int /\ Api!Pages >= 1
         /\ \A i \in Api!Exported : Api!PageOf(i) \in Int /\ 1 <= Api!PageOf(i)
            /\ Api!PageOf(i) <= Api!Pages
<1> DEFINE before(i) == {j \in Api!Exported : j < i}
           pages     == {0} \cup {Api!PageOf(i) : i \in Api!Exported}
<1>1. ASSUME NEW i \in Api!Exported PROVE Api!PageOf(i) \in Int /\ 1 <= Api!PageOf(i)
  <2> DEFINE n == Api!Cardinality(before(i))
  <2>1. IsFiniteSet(before(i))
    BY ApiExportedIs
  <2>2. n \in Nat
    BY <2>1, ApiLibrary
  <2>3. Api!PageOf(i) = (n \div PageSize) + 1
    BY DEF Api!PageOf
  <2> HIDE DEF n
  <2>4. PageSize \in Nat /\ PageSize >= 1
    BY DEF Api!ApiConstants
  <2>5. n \div PageSize \in Nat
    BY <2>2, <2>4
  <2> QED BY <2>3, <2>5
<1>2. IsFiniteSet({Api!PageOf(i) : i \in Api!Exported})
  <2>1. IsFiniteSet(Api!Exported)
    BY ApiExportedIs
  <2> DEFINE f == [i \in Api!Exported |-> Api!PageOf(i)]
             T == {Api!PageOf(i) : i \in Api!Exported}
  <2>2. f \in Surjection(Api!Exported, T)
    <3>1. f \in [Api!Exported -> T] /\ \A n \in T : \E i \in Api!Exported : f[i] = n
      OBVIOUS
    <3> QED BY <3>1 DEF Surjection
  <2>3. IsFiniteSet(T)
    <3> HIDE DEF f, T
    <3> QED BY <2>1, <2>2, FS_Surjection
  <2> QED BY <2>3
<1>3. IsFiniteSet(pages)
  BY <1>2, FS_Singleton, FS_Union
<1>4. pages # {} /\ \A z \in pages : z \in Int
  BY <1>1
<1>5. \E x \in pages : \A y \in pages : y <= x
  <2> HIDE DEF pages
  <2> QED BY <1>3, <1>4, ProbesLargestThere
<1>6. \E x \in pages : \A y \in pages : x >= y
  <2> HIDE DEF pages
  <2> QED BY <1>4, <1>5
<1>7. Api!Max(pages) \in pages /\ \A y \in pages : Api!Max(pages) >= y
  <2> HIDE DEF pages
  <2> QED BY <1>6, ApiLibrary
<1>8. Api!Pages = Api!Larger(1, Api!Max(pages))
  BY DEF Api!Pages
<1>9. \A i \in Api!Exported : Api!PageOf(i) \in pages
  OBVIOUS
<1> HIDE DEF pages
<1>10. /\ Api!Pages \in Int /\ Api!Pages >= 1 /\ Api!Pages >= Api!Max(pages)
          /\ Api!Max(pages) \in Int
  BY <1>4, <1>7, <1>8 DEF Api!Larger
<1> QED BY <1>1, <1>7, <1>9, <1>10

\* The first page has a record, where the window does.
LEMMA ApiFirstPage ==
  ASSUME Api!ApiConstants, cfg \in ApiTransfers, Api!Exported # {}
  PROVE  Api!EventsPage(1) # {}
<1>1. PICK i \in Api!Exported : \A j \in Api!Exported : i <= j
  BY ApiExportedIs, ApiLeastThere
<1>2. {j \in Api!Exported : j < i} = {}
  BY <1>1, ApiExportedIs
<1>3. Api!PageOf(i) = (0 \div PageSize) + 1
  BY <1>2, ApiLibrary DEF Api!PageOf
<1>4. PageSize \in Nat /\ PageSize >= 1
  BY DEF Api!ApiConstants
<1>5. Api!PageOf(i) = 1
  <2>1. 0 \div PageSize = 0
    BY <1>4
  <2> QED BY <1>3, <2>1
<1> QED BY <1>5 DEF Api!EventsPage

-----------------------------------------------------------------------------
(* What a step leaves alone.                                               *)

\* The window's records and pages are the same while it is.
LEMMA ApiSameWindow ==
  ASSUME UNCHANGED <<cfg, now, window>>
  PROVE  /\ Api!Records' = Api!Records /\ Api!Exported' = Api!Exported /\ Api!Pages' = Api!Pages
         /\ \A i : Api!Day(i)' = Api!Day(i) /\ Api!At(i)' = Api!At(i)
            /\ Api!PageOf(i)' = Api!PageOf(i)
         /\ \A p : Api!EventsPage(p)' = Api!EventsPage(p) /\ Api!Content(p)' = Api!Content(p)
         /\ (Api!Staged' <=> Api!Staged)
<1>1. Api!Records' = Api!Records /\ (\A i : Api!Day(i)' = Api!Day(i) /\ Api!At(i)' = Api!At(i))
      /\ (Api!Staged' <=> Api!Staged)
  BY DEF Api!Records, Api!Day, Api!At, Api!Staged
<1>2. Api!Exported' = Api!Exported
  BY <1>1 DEF Api!Exported
<1>3. \A i : Api!PageOf(i)' = Api!PageOf(i)
  BY <1>2 DEF Api!PageOf
<1>4. \A p : Api!EventsPage(p)' = Api!EventsPage(p)
  BY <1>2, <1>3 DEF Api!EventsPage
<1>5. \A p : Api!Content(p)' = Api!Content(p)
  BY <1>2, <1>4 DEF Api!Content, Api!Report
<1>6. {Api!PageOf(i) : i \in Api!Exported}' = {Api!PageOf(i) : i \in Api!Exported}
  BY <1>2, <1>3
<1>7. Api!Pages' = Api!Pages
  BY <1>6 DEF Api!Pages, Api!Larger
<1> QED BY <1>1, <1>2, <1>3, <1>4, <1>5, <1>7

\* And the vendor answers as it did.
LEMMA ApiSameAnswers ==
  ASSUME UNCHANGED <<cfg, now, window, turn>>
  PROVE  /\ \A p : Api!NextCursor(p)' = Api!NextCursor(p)
         /\ UNCHANGED page => (Api!Honest' <=> Api!Honest)
<1>1. \A p : Api!NextCursor(p)' = Api!NextCursor(p)
  BY ApiSameWindow DEF Api!NextCursor
<1>2. UNCHANGED page => (Api!Honest' <=> Api!Honest)
  BY <1>1, ApiSameWindow DEF Api!Honest
<1> QED BY <1>1, <1>2

\* What a cursor vouches for.
ApiVouched(i) ==
  /\ since <= Api!Day(i) /\ Api!Day(i) <= cursor
  /\ Api!At(i) <= savedAt /\ Api!DayOf(Api!At(i)) - Api!Day(i) <= cfg.lookback

LEMMA ApiCoveredIs ==
  Api!DaysCovered <=>
    /\ cfg.mode # "full" /\ exists => \A i \in Api!Records \ excused : ApiVouched(i) => i \in dest
    /\ cfg.mode = "full" /\ pc = "ok" /\ run > 0 /\ exists => dest = Api!Exported \/ Api!Told
  BY DEF Api!DaysCovered, ApiVouched, Api!Told

LEMMA ApiTypeIs ==
  Api!TypeOK <=>
    /\ cfg \in ApiTransfers /\ run \in 0..ApiRuns /\ now \in 1..ApiHours
    /\ turn \in cfg.turns
    /\ held \subseteq Api!Records /\ staging \subseteq Api!Records /\ dest \subseteq Api!Records
    /\ excused \subseteq Api!Records
    /\ attempt \in 1..HttpAttempts /\ again \in 1..PageAttempts
    /\ cursor \in 0..Api!DayOf(ApiHours) /\ faults \in 0..ApiFaults
    /\ repeats \in BOOLEAN /\ exists \in BOOLEAN /\ incomplete \in BOOLEAN
<1>1. UNION {held, staging, dest, excused} = held \cup staging \cup dest \cup excused
  OBVIOUS
<1>2. {repeats, exists, incomplete} \subseteq BOOLEAN
        <=> repeats \in BOOLEAN /\ exists \in BOOLEAN /\ incomplete \in BOOLEAN
  OBVIOUS
<1> QED BY <1>1, <1>2 DEF Api!TypeOK

\* A step that only goes on, tries again or ends the run.
LEMMA ApiOthersKeep ==
  ASSUME Api!ApiInv,
         UNCHANGED <<cfg, run, now, window, turn, page, answered, repeats, held, incomplete,
                     staging, dest, exists, cursor, since, savedAt, excused>>,
         attempt' \in 1..HttpAttempts, again' \in 1..PageAttempts, faults' \in 0..ApiFaults,
         pc' \in {pc, "failed", "dead"} \/ (pc = "create" /\ pc' = "fetch")
  PROVE  Api!ApiInv'
<1>1. /\ Api!Records' = Api!Records /\ Api!Exported' = Api!Exported
      /\ \A i : Api!Day(i)' = Api!Day(i) /\ Api!At(i)' = Api!At(i) /\ Api!PageOf(i)' = Api!PageOf(i)
      /\ \A p : Api!Content(p)' = Api!Content(p)
      /\ (Api!Staged' <=> Api!Staged) /\ (Api!Honest' <=> Api!Honest)
  BY ApiSameWindow, ApiSameAnswers
<1>2. /\ Api!Written' = Api!Written /\ (Api!Told' <=> Api!Told) /\ (Api!Single' <=> Api!Single)
  BY <1>1 DEF Api!Written, Api!Told, Api!Single
<1>3. Api!TypeOK /\ Api!RunsKnown /\ Api!CursorKnown /\ Api!PagesOnce /\ Api!DaysCovered
      /\ (~Api!Over => Api!PagesKnown /\ Api!RecordsKept)
  BY DEF Api!ApiInv
<1>4. Api!TypeOK'
  <2>1. Api!DayOf(ApiHours)' = Api!DayOf(ApiHours)
    BY DEF Api!DayOf
  <2>2. UNION {held, staging, dest, excused}' = UNION {held, staging, dest, excused}
    OBVIOUS
  <2> QED BY <1>1, <1>3, <2>1, <2>2 DEF Api!TypeOK
<1>5. ~Api!Over' => ~Api!Over
  BY <1>3 DEF Api!Over, Api!RunsKnown
<1>6. Api!RunsKnown'
  <2>1. Api!WindowOf(Api!DayOf(now), cursor)' = Api!WindowOf(Api!DayOf(now), cursor)
    BY DEF Api!WindowOf, Api!DayOf, Api!Larger, Api!ResumeFrom
  <2> QED BY <1>1, <1>3, <1>5, <2>1 DEF Api!RunsKnown
<1>7. Api!CursorKnown'
  BY <1>3 DEF Api!CursorKnown, Api!DayOf
<1>8. Api!PagesOnce'
  BY <1>3 DEF Api!PagesOnce
<1>9. Api!DaysCovered'
  <2>1. \A i : ApiVouched(i)' <=> ApiVouched(i)
    BY <1>1 DEF ApiVouched, Api!DayOf
  <2>2. pc' = "ok" => pc = "ok"
    OBVIOUS
  <2>3. (cfg.mode # "full" /\ exists => \A i \in Api!Records \ excused : ApiVouched(i) =>
        i \in dest)'
    BY <1>1, <1>3, <2>1, ApiCoveredIs
  <2>4. (cfg.mode = "full" /\ pc = "ok" /\ run > 0 /\ exists => dest = Api!Exported \/ Api!Told)'
    BY <1>1, <1>2, <1>3, <2>2, ApiCoveredIs
  <2>5. Api!DaysCovered' <=>
          /\ (cfg.mode # "full" /\ exists => \A i \in Api!Records \ excused : ApiVouched(i) =>
             i \in dest)'
          /\ (cfg.mode = "full" /\ pc = "ok" /\ run > 0 /\ exists =>
             dest = Api!Exported \/ Api!Told)'
    BY DEF Api!DaysCovered, ApiVouched, Api!Told
  <2> QED BY <2>3, <2>4, <2>5
<1>10. ~Api!Over' => Api!PagesKnown'
  BY <1>3, <1>5 DEF Api!PagesKnown
<1>11. ~Api!Over' => Api!RecordsKept'
  <2>1. /\ pc' \in {"create", "fetch"} => pc \in {"create", "fetch"}
        /\ \A s \in {"read", "promote", "save"} : pc' = s => pc = s
    BY <1>5 DEF Api!Over
  <2>2. {i \in Api!Exported : Api!PageOf(i) \in answered \ {page}}'
          = {i \in Api!Exported : Api!PageOf(i) \in answered \ {page}}
    BY <1>1
  <2> QED BY <1>1, <1>2, <1>3, <1>5, <2>1, <2>2 DEF Api!RecordsKept
<1> QED BY <1>4, <1>6, <1>7, <1>8, <1>9, <1>10, <1>11 DEF Api!ApiInv

-----------------------------------------------------------------------------
(* The steps.                                                              *)

LEMMA ApiStartRunKeeps ==
  ASSUME Api!ApiConstants, Api!ApiInv, Api!StartRun
  PROVE  Api!ApiInv'
<1>1. /\ run' = run + 1 /\ run < ApiRuns /\ now' \in now..ApiHours /\ Api!Over
      /\ window' = Api!WindowOf(Api!DayOf(now'), Api!Committed) /\ turn' \in cfg.turns
      /\ page' = 1 /\ answered' = {1} /\ repeats' = FALSE
      /\ held' = {} /\ incomplete' = FALSE /\ staging' = {}
      /\ attempt' = 1 /\ again' = 1
      /\ cursor' = Api!Committed /\ exists' = TRUE
      /\ since' = IF Api!Committed = 0 THEN window'.from ELSE since
      /\ dest' = IF exists THEN dest ELSE {}
      /\ pc' = IF cfg.kind = "clevertap" THEN "create" ELSE "fetch"
      /\ UNCHANGED <<cfg, savedAt, excused, faults>>
  BY DEF Api!StartRun, Api!Goto
<1>2. Api!TypeOK /\ Api!RunsKnown /\ Api!CursorKnown /\ Api!DaysCovered
  BY DEF Api!ApiInv
<1>3. /\ cfg \in ApiTransfers /\ run \in 0..ApiRuns /\ now \in 1..ApiHours
         /\ cursor \in 0..Api!DayOf(ApiHours)
      /\ dest \subseteq Api!Records /\ excused \subseteq Api!Records /\ faults \in 0..ApiFaults
      /\ exists \in BOOLEAN
  BY <1>2, ApiTypeIs
<1>4. /\ ApiRuns \in Nat /\ ApiHours \in Nat /\ ApiFaults \in Nat
      /\ HttpAttempts \in Nat /\ HttpAttempts >= 1 /\ PageAttempts \in Nat /\ PageAttempts >= 1
  BY DEF Api!ApiConstants
<1>5. Api!Committed \in {0, cursor} /\ (exists => Api!Committed = cursor)
      /\ (Api!Committed # 0 => exists)
  BY DEF Api!Committed
<1>6. Api!Records' = Api!Records /\ Api!DayOf(ApiHours)' = Api!DayOf(ApiHours)
      /\ (Api!Staged' <=> Api!Staged)
      /\ \A i : Api!Day(i)' = Api!Day(i) /\ Api!At(i)' = Api!At(i)
  BY <1>1 DEF Api!Records, Api!DayOf, Api!Staged, Api!Day, Api!At
<1>7. now' \in 1..ApiHours /\ run' \in 0..ApiRuns /\ now <= now'
  BY <1>1, <1>3, <1>4
<1>8. Api!DayOf(ApiHours) \in Int /\ Api!DayOf(ApiHours) >= 0 /\ Api!DayOf(now') \in Int
      /\ Api!DayOf(now') >= 1
  <2>1. ApiHours \in Int /\ ApiHours >= 1 /\ now' \in Int /\ now' >= 1
    BY <1>4, <1>7 DEF Api!ApiConstants
  <2> QED BY <2>1, ApiDayOfIs
<1>9. Api!TypeOK'
  <2>1. /\ cfg' \in ApiTransfers /\ turn' \in cfg'.turns
        /\ held' \subseteq Api!Records' /\ staging' \subseteq Api!Records'
           /\ dest' \subseteq Api!Records'
        /\ excused' \subseteq Api!Records'
        /\ faults' \in 0..ApiFaults /\ repeats' \in BOOLEAN /\ exists' \in BOOLEAN
        /\ incomplete' \in BOOLEAN
    BY <1>1, <1>3, <1>6
  <2>2. attempt' \in 1..HttpAttempts /\ again' \in 1..PageAttempts
    BY <1>1, <1>4
  <2>3. cursor' \in 0..Api!DayOf(ApiHours)'
    BY <1>1, <1>3, <1>5, <1>6, <1>8
  <2>4. UNION {held', staging', dest', excused'} = held' \cup staging' \cup dest' \cup excused'
    OBVIOUS
  <2> QED BY <1>7, <2>1, <2>2, <2>3, <2>4 DEF Api!TypeOK
<1>10. ~Api!Over' /\ pc' \in {"create", "fetch"}
  BY <1>1 DEF Api!Over
<1>11. Api!RunsKnown'
  <2>1. window' = Api!WindowOf(Api!DayOf(now'), cursor')
    BY <1>1
  <2>2. Api!WindowOf(Api!DayOf(now), cursor)' = Api!WindowOf(Api!DayOf(now'), cursor')
    BY <1>1 DEF Api!WindowOf, Api!DayOf, Api!Larger, Api!ResumeFrom
  <2>3. cursor' = 0 => since' = window'.from
    BY <1>1
  <2> QED BY <1>1, <1>10, <2>1, <2>2, <2>3 DEF Api!RunsKnown
<1>12. Api!CursorKnown'
  <2>1. savedAt \in 0..ApiHours /\ (cfg.mode = "full" => cursor = 0)
    BY <1>2 DEF Api!CursorKnown
  <2>2. ASSUME cursor' > 0
        PROVE  since' \in Int /\ cfg.from <= since' /\ cursor' <= Api!DayOf(savedAt)
               /\ savedAt <= now'
    <3>1. cursor > 0 /\ cursor' = cursor /\ since' = since
      BY <1>1, <1>3, <1>5, <1>8, <2>2
    <3>2. since \in Int /\ cfg.from <= since /\ cursor <= Api!DayOf(savedAt) /\ savedAt <= now
      BY <1>2, <3>1 DEF Api!CursorKnown
    <3>3. savedAt <= now'
      BY <1>3, <1>4, <1>7, <2>1, <3>2
    <3> QED BY <3>1, <3>2, <3>3
  <2>3. cfg.mode = "full" => cursor' = 0
    BY <1>1, <1>5, <2>1
  <2> QED BY <1>1, <2>1, <2>2, <2>3 DEF Api!CursorKnown, Api!DayOf
<1>13. Api!PagesOnce'
  BY <1>1 DEF Api!PagesOnce
<1>14. Api!DaysCovered'
  <2>1. pc' # "ok"
    BY <1>10
  <2>2. ASSUME cfg.mode # "full", NEW i \in Api!Records \ excused,
               since' <= Api!Day(i), Api!Day(i) <= cursor', Api!At(i) <= savedAt,
               Api!DayOf(Api!At(i)) - Api!Day(i) <= cfg.lookback
        PROVE  i \in dest'
    <3>1. Api!Day(i) \in Int /\ Api!Day(i) >= 1
      BY <1>3, <2>2, ApiCfgIs
    <3>2. cursor' # 0
      BY <2>2, <3>1
    <3>3. exists /\ cursor' = cursor /\ since' = since /\ dest' = dest
      BY <1>1, <1>5, <3>2
    <3>4. ApiVouched(i)
      BY <2>2, <3>3 DEF ApiVouched
    <3> QED BY <1>2, <2>2, <3>3, <3>4, ApiCoveredIs
  <2> QED BY <1>1, <1>6, <2>1, <2>2 DEF Api!DaysCovered, Api!DayOf
<1>15. Api!PagesKnown'
  BY <1>1 DEF Api!PagesKnown
<1>16. Api!RecordsKept'
  BY <1>1, <1>10 DEF Api!RecordsKept
<1> QED BY <1>9, <1>11, <1>12, <1>13, <1>14, <1>15, <1>16 DEF Api!ApiInv

LEMMA ApiDropDestKeeps ==
  ASSUME Api!ApiConstants, Api!ApiInv, Api!DropDest
  PROVE  Api!ApiInv'
<1>1. /\ Api!Over /\ exists' = FALSE /\ faults < ApiFaults /\ faults' = faults + 1
      /\ UNCHANGED <<cfg, run, now, pc, window, turn, page, answered, repeats, held, incomplete,
                     attempt, again, staging, dest, cursor, since, savedAt, excused>>
  BY DEF Api!DropDest, Api!Fault, Api!reading, Api!request, Api!saved
<1>2. Api!TypeOK /\ Api!RunsKnown /\ Api!CursorKnown /\ Api!PagesOnce
  BY DEF Api!ApiInv
<1>3. faults' \in 0..ApiFaults
  BY <1>1, <1>2, ApiTypeIs DEF Api!ApiConstants
<1>4. Api!TypeOK'
  <2>1. UNION {held, staging, dest, excused}' = UNION {held, staging, dest, excused}
    BY <1>1
  <2>2. Api!Records' = Api!Records /\ Api!DayOf(ApiHours)' = Api!DayOf(ApiHours)
    BY <1>1 DEF Api!Records, Api!DayOf
  <2> QED BY <1>1, <1>2, <1>3, <2>1, <2>2 DEF Api!TypeOK
<1>5. Api!Over'
  BY <1>1 DEF Api!Over
<1>6. Api!RunsKnown'
  BY <1>1, <1>2, <1>5 DEF Api!RunsKnown, Api!Over
<1>7. Api!CursorKnown' /\ Api!PagesOnce'
  BY <1>1, <1>2 DEF Api!CursorKnown, Api!PagesOnce, Api!DayOf
<1>8. Api!DaysCovered'
  BY <1>1 DEF Api!DaysCovered
<1> QED BY <1>4, <1>5, <1>6, <1>7, <1>8 DEF Api!ApiInv

\* What the records handed on make of what is written.
LEMMA ApiHandIs ==
  ASSUME NEW given, Api!Hand(given), UNCHANGED <<cfg>>
  PROVE  /\ Api!Written' = Api!Written \cup given
         /\ staging \subseteq staging' /\ staging' \subseteq staging \cup given
         /\ dest \subseteq dest' /\ dest' \subseteq dest \cup given
         /\ Api!Staged => dest' = dest
         /\ Api!Staged' <=> Api!Staged
<1>1. Api!Staged' <=> Api!Staged
  BY DEF Api!Staged
<1> QED BY <1>1 DEF Api!Hand, Api!Written

\* The page that follows comes after those that were asked for, or is one.
LEMMA ApiNextIs ==
  ASSUME Api!ApiConstants, Api!TypeOK, NEW p \in Int, p >= 1
  PROVE  Api!NextCursor(p) \in Int /\ 0 <= Api!NextCursor(p) /\ Api!NextCursor(p) <= p + 1
<1>1. turn.at \in Nat /\ turn.next \in Nat /\ turn.next <= turn.at + 1
  BY ApiCfgIs, ApiTypeIs
<1> QED BY <1>1 DEF Api!NextCursor

\* Pages up to the last have all the records.
LEMMA ApiAllTaken ==
  ASSUME Api!ApiConstants, Api!TypeOK, Api!PagesKnown, page >= Api!Pages, NEW S,
         Api!EventsPage(page) \subseteq S,
         \A i \in Api!Exported : Api!PageOf(i) \in answered \ {page} => i \in S
  PROVE  Api!Exported \subseteq S
<1>1. cfg \in ApiTransfers /\ page \in Nat /\ \A q \in 1..page : q \in answered
  BY ApiTypeIs DEF Api!PagesKnown
<1>2. SUFFICES ASSUME NEW i \in Api!Exported PROVE i \in S
  OBVIOUS
<1>3. Api!PageOf(i) \in Int /\ 1 <= Api!PageOf(i) /\ Api!PageOf(i) <= Api!Pages /\ Api!Pages \in Int
  BY <1>1, ApiPagesAre
<1>4. Api!PageOf(i) \in answered
  BY <1>1, <1>3
<1>5. CASE Api!PageOf(i) = page
  BY <1>2, <1>5 DEF Api!EventsPage
<1>6. CASE Api!PageOf(i) # page
  BY <1>2, <1>4, <1>6
<1> QED BY <1>5, <1>6

LEMMA ApiTakePageKeeps ==
  ASSUME Api!ApiConstants, Api!ApiInv, Api!TakePage
  PROVE  Api!ApiInv'
<1> DEFINE all == held \cup Api!Content(page)
           next == Api!NextCursor(page)
           odd  == cfg.kind = "clevertap" /\ (turn.partial \/ (next # 0 /\ Api!Seen(next)))
<1>1. PICK b \in Api!Batched(all) : Api!Hand(b) /\ held' = all \ b
  BY DEF Api!TakePage
<1>2. /\ pc = "fetch" /\ attempt' = 1 /\ again' = 1
      /\ incomplete' = (incomplete \/ odd)
      /\ IF Api!Stops(next)
         THEN pc' = "read" /\ UNCHANGED <<page, answered, repeats>>
         ELSE /\ page' = next /\ answered' = answered \cup {next}
              /\ repeats' = (repeats \/ next \in answered)
              /\ UNCHANGED pc
      /\ UNCHANGED <<cfg, run, now, window, turn, exists, cursor, since, savedAt, excused, faults>>
  BY DEF Api!TakePage, Api!Goto, Api!saved
<1>3. /\ Api!TypeOK /\ Api!RunsKnown /\ Api!CursorKnown /\ Api!PagesOnce /\ Api!DaysCovered
         /\ Api!PagesKnown /\ Api!RecordsKept
      /\ ~Api!Over /\ ~Api!Over'
  BY <1>2 DEF Api!ApiInv, Api!Over
<1>4. /\ cfg \in ApiTransfers /\ cfg.kind \in {"clevertap", "appsflyer", "http"}
      /\ held \subseteq Api!Records /\ staging \subseteq Api!Records /\ dest \subseteq Api!Records
      /\ repeats \in BOOLEAN /\ incomplete \in BOOLEAN
  BY <1>3, ApiTypeIs, ApiCfgIs
<1>5. /\ Api!Records' = Api!Records /\ Api!Exported' = Api!Exported /\ Api!Pages' = Api!Pages
      /\ \A i : Api!Day(i)' = Api!Day(i) /\ Api!At(i)' = Api!At(i) /\ Api!PageOf(i)' = Api!PageOf(i)
      /\ \A p : Api!EventsPage(p)' = Api!EventsPage(p) /\ Api!Content(p)' = Api!Content(p)
      /\ (Api!Staged' <=> Api!Staged)
  BY <1>2, ApiSameWindow
<1>6. /\ \A p : Api!NextCursor(p)' = Api!NextCursor(p)
      /\ UNCHANGED page => (Api!Honest' <=> Api!Honest)
  BY <1>2, ApiSameAnswers
\* Where the records are afterwards.
<1>7. b \subseteq all /\ Api!Content(page) \subseteq Api!Exported
      /\ Api!Exported \subseteq Api!Records
  <2>1. b \subseteq all
    BY <1>1 DEF Api!Batched
  <2>2. Api!Content(page) \subseteq Api!Exported
    BY DEF Api!Content, Api!Report, Api!EventsPage
  <2> QED BY <1>4, <2>1, <2>2, ApiExportedIs
<1>8. /\ Api!Written' = Api!Written \cup b
      /\ staging \subseteq staging' /\ staging' \subseteq staging \cup b
      /\ dest \subseteq dest' /\ dest' \subseteq dest \cup b
  BY <1>1, <1>2, ApiHandIs
<1>9. held \cup Api!Written \cup Api!Content(page) \subseteq held' \cup Api!Written'
      /\ held' \subseteq all
  BY <1>1, <1>8
<1>10. all \subseteq Api!Records
  BY <1>4, <1>7
<1> DEFINE S == held' \cup Api!Written'
<1>11. \A i \in Api!Exported : Api!PageOf(i) \in answered \ {page} => i \in S
  BY <1>2, <1>3, <1>9 DEF Api!RecordsKept
<1>12. Api!Content(page) \subseteq S
  BY <1>9
\* The pages.
<1>13. /\ page \in answered /\ page \in Int /\ page >= 1
       /\ \A p \in answered : p \in Nat /\ p >= 1 /\ \A q \in 1..p : q \in answered
       /\ cfg.kind = "clevertap" => ~repeats /\ \A p \in answered : p <= page
  BY <1>3 DEF Api!PagesKnown
<1>14. next \in Int /\ 0 <= next /\ next <= page + 1
  BY <1>3, <1>13, ApiNextIs
<1> HIDE DEF S, odd, next, all
<1>15. Api!TypeOK'
  <2>1. held' \subseteq Api!Records' /\ staging' \subseteq Api!Records'
        /\ dest' \subseteq Api!Records'
    BY <1>4, <1>5, <1>7, <1>8, <1>9, <1>10
  <2>2. repeats' \in BOOLEAN /\ incomplete' \in BOOLEAN
    BY <1>2, <1>4
  <2>3. attempt' \in 1..HttpAttempts /\ again' \in 1..PageAttempts
    BY <1>2 DEF Api!ApiConstants
  <2>4. UNION {held', staging', dest', excused'} = held' \cup staging' \cup dest' \cup excused'
    OBVIOUS
  <2>5. {repeats', exists', incomplete'} \subseteq BOOLEAN
    BY <1>2, <1>3, <2>2, ApiTypeIs
  <2> QED BY <1>2, <1>3, <1>5, <2>1, <2>3, <2>4, <2>5, ApiTypeIs DEF Api!TypeOK, Api!DayOf
<1>16. Api!RunsKnown'
  <2>1. Api!WindowOf(Api!DayOf(now), cursor)' = Api!WindowOf(Api!DayOf(now), cursor)
    BY <1>2 DEF Api!WindowOf, Api!DayOf, Api!Larger, Api!ResumeFrom
  <2>2. pc' \in {"fetch", "read"}
    BY <1>2
  <2> QED BY <1>2, <1>3, <2>1, <2>2 DEF Api!RunsKnown
<1>17. Api!CursorKnown'
  BY <1>2, <1>3 DEF Api!CursorKnown, Api!DayOf
<1>18. Api!DaysCovered'
  <2>1. \A i : ApiVouched(i)' <=> ApiVouched(i)
    BY <1>2, <1>5 DEF ApiVouched, Api!DayOf
  <2>2. pc' # "ok"
    BY <1>2
  <2>3. (cfg.mode # "full" /\ exists => \A i \in Api!Records \ excused : ApiVouched(i) =>
        i \in dest)'
    BY <1>2, <1>3, <1>5, <1>8, <2>1, ApiCoveredIs
  <2> QED BY <2>2, <2>3 DEF Api!DaysCovered, ApiVouched
<1>19. cfg.mode = "full" => held' \cup staging' \subseteq Api!Exported
  <2>1. cfg.mode = "full" => held \cup staging \subseteq Api!Exported
    BY <1>3 DEF Api!RecordsKept
  <2> QED BY <1>7, <1>8, <1>9, <2>1 DEF all
<1>20. CASE ~Api!Stops(next)
  <2>1. page' = next /\ answered' = answered \cup {next} /\ pc' = "fetch"
        /\ repeats' = (repeats \/ next \in answered)
    BY <1>2, <1>20
  <2>2. next # 0 /\ (cfg.kind = "clevertap" => next \notin answered)
    BY <1>20 DEF Api!Stops, Api!Seen
  <2>3. \A q \in 1..next : q \in answered \cup {next}
    <3>1. SUFFICES ASSUME NEW q \in 1..next, q # next PROVE q \in 1..page
      BY <1>13
    <3> QED BY <1>13, <1>14, <3>1
  <2>4. cfg.kind = "clevertap" => ~repeats' /\ \A p \in answered' : p <= next
    <3>1. SUFFICES ASSUME cfg.kind = "clevertap" PROVE ~repeats' /\ \A p \in answered' : p <= next
      OBVIOUS
    <3>2. next \notin 1..page
      BY <1>13, <2>2, <3>1
    <3>3. next > page
      BY <1>13, <1>14, <2>2, <3>2
    <3>4. \A p \in answered : p \in Nat /\ p <= page
      BY <1>13, <3>1
    <3>5. ~repeats'
      BY <1>13, <2>1, <2>2, <3>1
    <3> QED BY <1>13, <1>14, <2>1, <3>3, <3>4, <3>5
  <2>5. Api!PagesKnown'
    BY <1>2, <1>13, <1>14, <2>1, <2>2, <2>3, <2>4 DEF Api!PagesKnown
  <2>6. Api!PagesOnce'
    BY <1>2, <2>4 DEF Api!PagesOnce
  <2>7. ASSUME NEW i \in Api!Exported, Api!PageOf(i) \in answered' \ {page'} PROVE i \in S
    <3>1. Api!PageOf(i) \in answered
      BY <2>1, <2>7
    <3>2. CASE Api!PageOf(i) = page
      BY <1>12, <3>2 DEF Api!Content, Api!Report, Api!EventsPage
    <3> QED BY <1>11, <3>1, <3>2
  <2>8. Api!RecordsKept'
    BY <1>2, <1>5, <1>19, <2>1, <2>7 DEF Api!RecordsKept, S
  <2> QED BY <1>15, <1>16, <1>17, <1>18, <2>5, <2>6, <2>8 DEF Api!ApiInv
<1>21. CASE Api!Stops(next)
  <2>1. pc' = "read" /\ UNCHANGED <<page, answered, repeats>>
    BY <1>2, <1>21
  <2>2. Api!PagesKnown' /\ Api!PagesOnce'
    BY <1>2, <1>3, <2>1 DEF Api!PagesKnown, Api!PagesOnce
  <2>3. (Api!Single' <=> Api!Single) /\ (Api!Honest' <=> Api!Honest)
    BY <1>2, <1>5, <1>6, <2>1 DEF Api!Single
  <2>4. page >= Api!Pages => Api!Exported \subseteq S
    <3>1. Api!EventsPage(page) \subseteq S
      BY <1>7, <1>12, <1>4 DEF Api!Content, Api!Report, Api!EventsPage
    <3> QED BY <1>3, <1>11, <3>1, ApiAllTaken
  <2>5. Api!Exported \subseteq S \/ Api!Told' \/ Api!Single
    <3>1. CASE cfg.kind = "appsflyer"
      <4>1. Api!Content(page) = Api!Exported
        BY <3>1 DEF Api!Content, Api!Report
      <4> QED BY <1>12, <4>1
    <3>2. CASE cfg.kind = "http"
      <4>1. Api!Honest => page >= Api!Pages
        BY <1>13 DEF Api!Honest
      <4>2. ~Api!Honest => Api!Told'
        BY <1>2, <2>3, <3>2 DEF Api!Told
      <4> QED BY <2>4, <4>1, <4>2
    <3>3. CASE cfg.kind = "clevertap" /\ next # 0
      <4>1. Api!Seen(next)
        BY <1>21, <3>3 DEF Api!Stops
      <4>2. incomplete'
        BY <1>2, <3>3, <4>1 DEF odd
      <4> QED BY <4>2 DEF Api!Told
    <3>4. CASE cfg.kind = "clevertap" /\ next = 0 /\ page = turn.at
      <4>1. turn.next = 0 /\ turn.at \in Nat /\ (turn.at <= 1 \/ turn.partial)
        <5>1. turn \in cfg.turns
          BY <1>3, ApiTypeIs
        <5>2. turn.next = 0
          BY <3>4 DEF next, Api!NextCursor
        <5> QED BY <1>4, <3>4, <5>1, <5>2, ApiCfgIs
      <4>2. CASE turn.partial
        <5>1. incomplete'
          BY <1>2, <3>4, <4>2 DEF odd
        <5> QED BY <5>1 DEF Api!Told
      <4>3. CASE turn.at <= 1
        <5>1. page = 1
          BY <1>13, <3>4, <4>1, <4>3
        <5>2. answered = {1}
          <6>1. \A p \in answered : p = 1
            BY <1>13, <3>4, <5>1
          <6> QED BY <1>13, <5>1, <6>1
        <5>3. CASE Api!Content(1) # {}
          BY <3>4, <5>2, <5>3 DEF Api!Single
        <5>4. CASE Api!Content(1) = {}
          <6>1. Api!EventsPage(1) = {}
            BY <3>4, <5>4 DEF Api!Content
          <6>2. Api!Exported = {}
            BY <1>4, <6>1, ApiFirstPage
          <6> QED BY <6>2
        <5> QED BY <5>3, <5>4
      <4> QED BY <4>1, <4>2, <4>3
    <3>5. CASE cfg.kind = "clevertap" /\ next = 0 /\ page # turn.at
      <4>1. ~(page < Api!Pages)
        BY <1>13, <3>5 DEF next, Api!NextCursor
      <4>2. Api!Pages \in Int
        BY <1>4, ApiPagesAre
      <4> QED BY <1>13, <2>4, <4>1, <4>2
    <3> QED BY <1>4, <3>1, <3>2, <3>3, <3>4, <3>5
  <2>6. Api!RecordsKept'
    BY <1>2, <1>5, <1>19, <2>1, <2>3, <2>5 DEF Api!RecordsKept, S
  <2> QED BY <1>15, <1>16, <1>17, <1>18, <2>2, <2>6 DEF Api!ApiInv
<1> QED BY <1>20, <1>21

LEMMA ApiEndReadKeeps ==
  ASSUME Api!ApiConstants, Api!ApiInv, Api!EndRead
  PROVE  Api!ApiInv'
<1>1. /\ pc = "read" /\ Api!Hand(held) /\ held' = {}
      /\ incomplete' = (incomplete \/ Api!Single)
      /\ pc' = IF cfg.fatal /\ incomplete' /\ ~(cfg.mode = "append" /\ ~Api!Staged) THEN "failed"
               ELSE IF Api!Staged THEN "promote" ELSE "save"
      /\ UNCHANGED <<cfg, run, now, window, turn, page, answered, repeats, attempt, again, exists,
                     cursor, since, savedAt, excused, faults>>
  BY DEF Api!EndRead, Api!Goto, Api!request, Api!saved
<1>2. /\ Api!TypeOK /\ Api!RunsKnown /\ Api!CursorKnown /\ Api!PagesOnce /\ Api!DaysCovered
         /\ Api!PagesKnown /\ Api!RecordsKept
      /\ ~Api!Over
  BY <1>1 DEF Api!ApiInv, Api!Over
<1>3. /\ cfg \in ApiTransfers
      /\ held \subseteq Api!Records /\ staging \subseteq Api!Records /\ dest \subseteq Api!Records
      /\ incomplete \in BOOLEAN
  BY <1>2, ApiTypeIs
<1>4. /\ Api!Records' = Api!Records /\ Api!Exported' = Api!Exported
      /\ \A i : Api!Day(i)' = Api!Day(i) /\ Api!At(i)' = Api!At(i)
      /\ (Api!Staged' <=> Api!Staged) /\ (Api!Honest' <=> Api!Honest)
  BY <1>1, ApiSameWindow, ApiSameAnswers
<1>5. /\ Api!Written' = Api!Written \cup held
      /\ staging \subseteq staging' /\ staging' \subseteq staging \cup held
      /\ dest \subseteq dest' /\ dest' \subseteq dest \cup held
  BY <1>1, ApiHandIs
<1>6. pc' \in {"failed", "promote", "save"} /\ (pc' = "promote" => Api!Staged)
      /\ (pc' = "save" => ~Api!Staged)
  BY <1>1
<1>7. Api!TypeOK'
  <2>1. held' \subseteq Api!Records' /\ staging' \subseteq Api!Records'
        /\ dest' \subseteq Api!Records'
    BY <1>1, <1>3, <1>4, <1>5
  <2>2. {repeats', exists', incomplete'} \subseteq BOOLEAN
    BY <1>1, <1>2, ApiTypeIs
  <2>3. UNION {held', staging', dest', excused'} = held' \cup staging' \cup dest' \cup excused'
    OBVIOUS
  <2> QED BY <1>1, <1>2, <1>4, <2>1, <2>2, <2>3, ApiTypeIs DEF Api!TypeOK, Api!DayOf
<1>8. Api!RunsKnown'
  <2>1. Api!WindowOf(Api!DayOf(now), cursor)' = Api!WindowOf(Api!DayOf(now), cursor)
    BY <1>1 DEF Api!WindowOf, Api!DayOf, Api!Larger, Api!ResumeFrom
  <2>2. pc' = "save" => cfg.mode # "full"
    BY <1>6 DEF Api!Staged
  <2> QED BY <1>1, <1>2, <1>4, <1>6, <2>1, <2>2 DEF Api!RunsKnown
<1>9. Api!CursorKnown' /\ Api!PagesOnce' /\ Api!PagesKnown'
  BY <1>1, <1>2 DEF Api!CursorKnown, Api!DayOf, Api!PagesOnce, Api!PagesKnown
<1>10. Api!DaysCovered'
  <2>1. \A i : ApiVouched(i)' <=> ApiVouched(i)
    BY <1>1, <1>4 DEF ApiVouched, Api!DayOf
  <2>2. pc' # "ok"
    BY <1>6
  <2>3. (cfg.mode # "full" /\ exists => \A i \in Api!Records \ excused : ApiVouched(i) =>
        i \in dest)'
    BY <1>1, <1>2, <1>4, <1>5, <2>1, ApiCoveredIs
  <2> QED BY <2>2, <2>3 DEF Api!DaysCovered, ApiVouched
<1>11. Api!RecordsKept'
  <2>1. Api!Exported \subseteq Api!Written' \/ Api!Told'
    <3>1. Api!Told \/ Api!Single => Api!Told'
      BY <1>1, <1>4 DEF Api!Told
    <3> QED BY <1>1, <1>2, <1>5, <3>1 DEF Api!RecordsKept
  <2>2. cfg.mode = "full" => held' \cup staging' \subseteq Api!Exported
    BY <1>1, <1>2, <1>5 DEF Api!RecordsKept
  <2>3. pc' = "promote" => Api!Exported \subseteq staging' \/ Api!Told'
    BY <1>4, <1>6, <2>1 DEF Api!Written
  <2>4. pc' = "save" => Api!Exported \subseteq dest' \/ Api!Told'
    BY <1>4, <1>6, <2>1 DEF Api!Written
  <2> QED BY <1>1, <1>4, <1>6, <2>2, <2>3, <2>4 DEF Api!RecordsKept
<1> QED BY <1>7, <1>8, <1>9, <1>10, <1>11 DEF Api!ApiInv

LEMMA ApiPromoteKeeps ==
  ASSUME Api!ApiConstants, Api!ApiInv, Api!Promote
  PROVE  Api!ApiInv'
<1>1. /\ pc = "promote"
      /\ dest' = IF cfg.mode = "full" THEN staging ELSE dest \cup staging
      /\ pc' = IF cfg.mode = "full" THEN "ok" ELSE "save"
      /\ UNCHANGED <<cfg, run, now, window, turn, page, answered, repeats, held, incomplete,
         attempt,
                     again, staging, exists, cursor, since, savedAt, excused, faults>>
  BY DEF Api!Promote, Api!Goto, Api!reading, Api!request, Api!saved
<1>2. /\ Api!TypeOK /\ Api!RunsKnown /\ Api!CursorKnown /\ Api!PagesOnce /\ Api!DaysCovered
         /\ Api!PagesKnown /\ Api!RecordsKept
      /\ ~Api!Over
  BY <1>1 DEF Api!ApiInv, Api!Over
<1>3. cfg \in ApiTransfers /\ staging \subseteq Api!Records /\ dest \subseteq Api!Records
  BY <1>2, ApiTypeIs
<1>4. /\ Api!Records' = Api!Records /\ Api!Exported' = Api!Exported
      /\ \A i : Api!Day(i)' = Api!Day(i) /\ Api!At(i)' = Api!At(i)
      /\ (Api!Staged' <=> Api!Staged) /\ (Api!Honest' <=> Api!Honest)
  BY <1>1, ApiSameWindow, ApiSameAnswers
<1>5. Api!Told' <=> Api!Told
  BY <1>1, <1>4 DEF Api!Told
<1>6. Api!TypeOK'
  <2>1. UNION {held', staging', dest', excused'} = held' \cup staging' \cup dest' \cup excused'
    OBVIOUS
  <2>2. {repeats', exists', incomplete'} \subseteq BOOLEAN /\ dest' \subseteq Api!Records'
    BY <1>1, <1>2, <1>3, <1>4, ApiTypeIs
  <2> QED BY <1>1, <1>2, <1>4, <2>1, <2>2, ApiTypeIs DEF Api!TypeOK, Api!DayOf
<1>7. Api!RunsKnown'
  <2>1. Api!WindowOf(Api!DayOf(now), cursor)' = Api!WindowOf(Api!DayOf(now), cursor)
    BY <1>1 DEF Api!WindowOf, Api!DayOf, Api!Larger, Api!ResumeFrom
  <2>2. pc' \in {"ok", "save"} /\ (pc' = "save" => cfg.mode # "full") /\ (pc' = "ok" => Api!Over')
    BY <1>1 DEF Api!Over
  <2> QED BY <1>1, <1>2, <2>1, <2>2 DEF Api!RunsKnown
<1>8. Api!CursorKnown' /\ Api!PagesOnce' /\ Api!PagesKnown'
  BY <1>1, <1>2 DEF Api!CursorKnown, Api!DayOf, Api!PagesOnce, Api!PagesKnown
<1>9. Api!Exported \subseteq staging \/ Api!Told
  BY <1>1, <1>2 DEF Api!RecordsKept
<1>10. Api!DaysCovered'
  <2>1. \A i : ApiVouched(i)' <=> ApiVouched(i)
    BY <1>1, <1>4 DEF ApiVouched, Api!DayOf
  <2>2. (cfg.mode # "full" /\ exists => \A i \in Api!Records \ excused : ApiVouched(i) =>
        i \in dest)'
    BY <1>1, <1>2, <1>4, <2>1, ApiCoveredIs
  <2>3. cfg.mode = "full" => dest' = Api!Exported' \/ Api!Told'
    <3>1. SUFFICES ASSUME cfg.mode = "full", ~Api!Told PROVE dest' = Api!Exported'
      BY <1>5
    <3>2. staging \subseteq Api!Exported /\ Api!Exported \subseteq staging
      BY <1>2, <1>9, <3>1 DEF Api!RecordsKept
    <3>3. dest' = staging /\ Api!Exported' = Api!Exported
      BY <1>1, <1>4, <3>1
    <3> QED BY <3>2, <3>3
  <2> QED BY <1>1, <2>2, <2>3 DEF Api!DaysCovered, ApiVouched, Api!Told
<1>11. ~Api!Over' => Api!RecordsKept'
  <2>1. SUFFICES ASSUME pc' = "save", cfg.mode # "full" PROVE Api!RecordsKept'
    BY <1>1 DEF Api!Over
  <2>2. Api!Exported' \subseteq dest' \/ Api!Told'
    BY <1>1, <1>4, <1>5, <1>9, <2>1
  <2> QED BY <1>1, <2>1, <2>2 DEF Api!RecordsKept
<1> QED BY <1>6, <1>7, <1>8, <1>10, <1>11 DEF Api!ApiInv

LEMMA ApiSaveCursorKeeps ==
  ASSUME Api!ApiConstants, Api!ApiInv, Api!SaveCursor
  PROVE  Api!ApiInv'
<1>1. /\ pc = "save"
      /\ IF cfg.advance
         THEN /\ cursor' = window.to /\ savedAt' = now
              /\ excused' = IF Api!Told THEN excused \cup Api!Exported ELSE excused
         ELSE UNCHANGED <<cursor, savedAt, excused>>
      /\ pc' = IF cfg.fatal /\ incomplete THEN "failed" ELSE "ok"
      /\ UNCHANGED <<cfg, run, now, window, turn, page, answered, repeats, held, incomplete,
         attempt,
                     again, staging, dest, exists, since, faults>>
  BY DEF Api!SaveCursor, Api!Goto, Api!reading, Api!request, Api!tables, Api!Told
<1>2. /\ Api!TypeOK /\ Api!RunsKnown /\ Api!CursorKnown /\ Api!PagesOnce /\ Api!DaysCovered
         /\ Api!RecordsKept /\ ~Api!Over
  BY <1>1 DEF Api!ApiInv, Api!Over
<1>3. /\ exists /\ window = Api!WindowOf(Api!DayOf(now), cursor) /\ cfg.mode # "full"
      /\ cursor = 0 => since = window.from
  BY <1>1, <1>2 DEF Api!RunsKnown
<1>4. /\ cfg \in ApiTransfers /\ now \in 1..ApiHours /\ cursor \in 0..Api!DayOf(ApiHours)
      /\ ApiHours \in Nat /\ excused \subseteq Api!Records
  BY <1>2, ApiTypeIs DEF Api!ApiConstants
<1>5. /\ now \in Int /\ now >= 1 /\ ApiHours \in Int /\ now <= ApiHours
      /\ Api!DayOf(now) \in Int /\ Api!DayOf(now) >= 1 /\ Api!DayOf(ApiHours) \in Int
         /\ Api!DayOf(now) <= Api!DayOf(ApiHours)
      /\ cursor \in Int /\ cursor >= 0
  <2>1. now \in Int /\ now >= 1 /\ ApiHours \in Int /\ now <= ApiHours
    BY <1>4
  <2>2. /\ Api!DayOf(now) \in Int /\ Api!DayOf(now) >= 1
        /\ Api!DayOf(ApiHours) \in Int /\ Api!DayOf(now) <= Api!DayOf(ApiHours)
    BY <2>1, ApiDayOfIs
  <2> QED BY <1>4, <2>1, <2>2
<1>6. /\ window.to \in Int /\ window.from \in Int /\ 1 <= window.to /\ window.to <= Api!DayOf(now)
      /\ cursor = 0 => cfg.from <= window.from
      /\ cursor > 0 => window.from <= cursor - cfg.lookback \/ window.from <= cfg.from
  BY <1>3, <1>4, <1>5, ApiWindowIs
<1>7. /\ Api!Records' = Api!Records /\ Api!Exported' = Api!Exported
      /\ \A i : Api!Day(i)' = Api!Day(i) /\ Api!At(i)' = Api!At(i)
  BY <1>1, ApiSameWindow
<1>8. Api!Over' /\ pc' \in {"failed", "ok"}
  BY <1>1 DEF Api!Over
<1>9. cfg.lookback \in Nat /\ cfg.from \in Int
  BY <1>4, ApiCfgIs
<1>10. Api!TypeOK'
  <2>1. excused' \subseteq Api!Records'
    BY <1>1, <1>4, <1>7, ApiExportedIs
  <2>2. cursor' \in 0..Api!DayOf(ApiHours)
    BY <1>1, <1>4, <1>5, <1>6
  <2>3. Api!DayOf(ApiHours)' = Api!DayOf(ApiHours)
    BY DEF Api!DayOf
  <2>4. UNION {held', staging', dest', excused'} = held' \cup staging' \cup dest' \cup excused'
    OBVIOUS
  <2> QED BY <1>1, <1>2, <1>7, <2>1, <2>2, <2>3, <2>4, ApiTypeIs DEF Api!TypeOK
<1>11. Api!RunsKnown' /\ Api!PagesOnce'
  BY <1>1, <1>2, <1>8 DEF Api!RunsKnown, Api!PagesOnce
<1>12. since \in Int /\ cfg.from <= since
  <2>1. CASE cursor = 0
    BY <1>3, <1>6, <2>1
  <2>2. CASE cursor > 0
    BY <1>2, <2>2 DEF Api!CursorKnown
  <2> QED BY <1>5, <2>1, <2>2
<1>13. Api!CursorKnown'
  <2>1. CASE cfg.advance
    <3>1. cursor' = window.to /\ savedAt' = now /\ UNCHANGED <<cfg, now, since>>
      BY <1>1, <2>1
    <3>2. savedAt' \in 0..ApiHours
      BY <1>4, <3>1
    <3> QED BY <1>3, <1>5, <1>6, <1>12, <3>1, <3>2 DEF Api!CursorKnown, Api!DayOf
  <2>2. CASE ~cfg.advance
    BY <1>1, <1>2, <2>2 DEF Api!CursorKnown, Api!DayOf
  <2> QED BY <2>1, <2>2
<1>14. Api!DaysCovered'
  <2>1. CASE ~cfg.advance
    <3>1. \A i : ApiVouched(i)' <=> ApiVouched(i)
      BY <1>1, <1>7, <2>1 DEF ApiVouched, Api!DayOf
    <3>2. (cfg.mode # "full" /\ exists => \A i \in Api!Records \ excused : ApiVouched(i) =>
          i \in dest)'
      BY <1>1, <1>2, <1>7, <2>1, <3>1, ApiCoveredIs
    <3> QED BY <1>1, <1>3, <3>2 DEF Api!DaysCovered, ApiVouched
  <2>2. CASE cfg.advance
    <3>1. ASSUME NEW i \in Api!Records \ excused', since <= Api!Day(i), Api!Day(i) <= window.to,
                 Api!At(i) <= now,
                 Api!DayOf(Api!At(i)) - Api!Day(i) <= cfg.lookback
          PROVE  i \in dest
      <4>1. i \notin excused /\ Api!Day(i) \in Int /\ Api!At(i) \in Int
            /\ Api!DayOf(Api!At(i)) \in Int
        <5>1. excused \subseteq excused'
          BY <1>1, <2>2
        <5>2. Api!Day(i) \in Int /\ Api!At(i) \in Int
          BY <1>4, <3>1, ApiCfgIs
        <5> QED BY <3>1, <5>1, <5>2, ApiDayOfIs
      <4>2. CASE window.from <= Api!Day(i)
        <5>1. i \in Api!Exported
          BY <3>1, <4>2 DEF Api!Exported
        <5>2. ~Api!Told
          BY <1>1, <2>2, <3>1, <5>1
        <5> QED BY <1>1, <1>2, <5>1, <5>2 DEF Api!RecordsKept
      \* Before the window: the cursor it started from vouches for it, for what
      \* came later than that was read is of the days it goes back.
      <4>3. CASE Api!Day(i) < window.from
        <5>1. cursor > 0
          BY <1>3, <1>5, <1>6, <3>1, <4>1, <4>3
        <5>2. Api!Day(i) >= cfg.from
          BY <1>9, <1>12, <3>1, <4>1
        <5>3. Api!Day(i) < cursor - cfg.lookback
          BY <1>5, <1>6, <1>9, <4>1, <4>3, <5>1, <5>2
        <5>4. cursor <= Api!DayOf(savedAt) /\ savedAt \in Int
          BY <1>2, <1>4, <5>1 DEF Api!CursorKnown
        <5>5. Api!DayOf(savedAt) \in Int
          BY <5>4, ApiDayOfIs
        <5>6. Api!DayOf(Api!At(i)) < Api!DayOf(savedAt)
          BY <1>5, <1>9, <3>1, <4>1, <5>3, <5>4, <5>5
        <5>7. Api!At(i) <= savedAt
          <6>1. SUFFICES ASSUME savedAt <= Api!At(i) PROVE FALSE
            BY <4>1, <5>4
          <6>2. Api!DayOf(savedAt) <= Api!DayOf(Api!At(i))
            BY <4>1, <5>4, <6>1, ApiDayOfIs
          <6> QED BY <4>1, <5>5, <5>6, <6>2
        <5>8. Api!Day(i) <= cursor
          BY <1>5, <1>9, <4>1, <5>3
        <5>9. ApiVouched(i)
          BY <3>1, <5>7, <5>8 DEF ApiVouched
        <5> QED BY <1>2, <1>3, <3>1, <4>1, <5>9, ApiCoveredIs
      <4> QED BY <1>6, <4>1, <4>2, <4>3
    <3>2. \A i : ApiVouched(i)' <=>
            /\ since <= Api!Day(i) /\ Api!Day(i) <= window.to
            /\ Api!At(i) <= now /\ Api!DayOf(Api!At(i)) - Api!Day(i) <= cfg.lookback
      BY <1>1, <1>7, <2>2 DEF ApiVouched, Api!DayOf
    <3>3. (\A i \in Api!Records \ excused : ApiVouched(i) => i \in dest)'
      BY <1>1, <1>7, <3>1, <3>2
    <3> QED BY <1>1, <1>3, <3>3 DEF Api!DaysCovered, ApiVouched
  <2> QED BY <2>1, <2>2
<1> QED BY <1>8, <1>10, <1>11, <1>13, <1>14 DEF Api!ApiInv

LEMMA ApiNextKeeps ==
  ASSUME Api!ApiConstants, Api!ApiInv, [Api!Next]_Api!vars
  PROVE  Api!ApiInv'
<1>1. /\ attempt \in 1..HttpAttempts /\ again \in 1..PageAttempts /\ faults \in 0..ApiFaults
      /\ ApiFaults \in Nat /\ HttpAttempts \in Nat /\ HttpAttempts >= 1 /\ PageAttempts \in Nat
  BY ApiTypeIs DEF Api!ApiInv, Api!ApiConstants
<1>2. Api!Fault => faults' \in 0..ApiFaults
  BY <1>1 DEF Api!Fault
<1>3. CASE Api!CreateExport
  <2>1. attempt' \in 1..HttpAttempts
    BY <1>1, <1>3 DEF Api!CreateExport
  <2> QED BY <1>1, <1>3, <2>1, ApiOthersKeep
          DEF Api!CreateExport, Api!Goto, Api!reading, Api!tables, Api!saved
<1>4. CASE Api!RequestFails
  <2>1. Api!Resend \/ Api!Refused
    BY <1>4 DEF Api!RequestFails, Api!CleverTapFails, Api!AppsFlyerFails, Api!HttpFails
  <2>2. attempt' \in 1..HttpAttempts /\ pc' \in {pc, "failed"}
    BY <1>1, <2>1 DEF Api!Resend, Api!Refused, Api!Goto
  <2> QED BY <1>1, <1>2, <1>4, <2>2, ApiOthersKeep
          DEF Api!RequestFails, Api!reading, Api!tables, Api!saved
<1>5. CASE Api!AskAgain
  <2>1. attempt' \in 1..HttpAttempts /\ again' \in 1..PageAttempts /\ pc' \in {pc, "failed"}
    BY <1>1, <1>5 DEF Api!AskAgain, Api!Goto
  <2> QED BY <1>2, <1>5, <2>1, ApiOthersKeep DEF Api!AskAgain, Api!reading, Api!tables, Api!saved
<1>6. CASE Api!WriteFails
  BY <1>1, <1>2, <1>6, ApiOthersKeep
  DEF Api!WriteFails, Api!Goto, Api!reading, Api!request, Api!tables, Api!saved
<1>7. CASE Api!Crash
  BY <1>1, <1>2, <1>7, ApiOthersKeep
  DEF Api!Crash, Api!Goto, Api!reading, Api!request, Api!tables, Api!saved
<1>8. CASE UNCHANGED Api!vars
  BY <1>1, <1>8, ApiOthersKeep DEF Api!vars, Api!reading, Api!request, Api!tables, Api!saved
<1> QED BY <1>3, <1>4, <1>5, <1>6, <1>7, <1>8, ApiStartRunKeeps, ApiDropDestKeeps, ApiTakePageKeeps,
           ApiEndReadKeeps, ApiPromoteKeeps, ApiSaveCursorKeeps
        DEF Api!Next

LEMMA ApiInitInv ==
  ASSUME Api!ApiConstants, Api!Init
  PROVE  Api!ApiInv
<1>1. /\ cfg \in ApiTransfers /\ run = 0 /\ now = 1 /\ pc = "ok" /\ turn \in cfg.turns
      /\ repeats = FALSE /\ attempt = 1 /\ again = 1
      /\ held = {} /\ staging = {} /\ dest = {} /\ exists = TRUE
      /\ incomplete = FALSE /\ cursor = 0 /\ since = 0 /\ savedAt = 0 /\ excused = {} /\ faults = 0
  BY DEF Api!Init
<1>2. Api!Over
  BY <1>1 DEF Api!Over
<1>3. Api!DayOf(ApiHours) \in Int /\ Api!DayOf(ApiHours) >= 1 /\ ApiHours \in Nat
  BY ApiDayOfIs DEF Api!ApiConstants
<1>4. Api!TypeOK
  <2>1. /\ run \in 0..ApiRuns /\ now \in 1..ApiHours /\ attempt \in 1..HttpAttempts
        /\ again \in 1..PageAttempts /\ faults \in 0..ApiFaults
    BY <1>1 DEF Api!ApiConstants
  <2>2. cursor \in 0..Api!DayOf(ApiHours)
    BY <1>1, <1>3
  <2> QED BY <1>1, <2>1, <2>2, ApiTypeIs
<1>5. Api!RunsKnown /\ Api!CursorKnown /\ Api!PagesOnce
  BY <1>1, <1>2, <1>3 DEF Api!RunsKnown, Api!CursorKnown, Api!PagesOnce
<1>6. Api!DaysCovered
  <2>1. \A i \in Api!Records : ~ApiVouched(i)
    <3>1. \A i \in Api!Records : Api!Day(i) \in Int /\ Api!Day(i) >= 1
      BY <1>1, ApiCfgIs
    <3> QED BY <1>1, <3>1 DEF ApiVouched
  <2>2. ~(run > 0)
    BY <1>1
  <2> QED BY <2>1, <2>2, ApiCoveredIs
<1> QED BY <1>2, <1>4, <1>5, <1>6 DEF Api!ApiInv

\* The inductive invariant of the read of an API holds in every state.
THEOREM ApiInvariant == Spec => [](which = "api" => Api!ApiInv)
<1>1. Init => (which = "api" => Api!ApiInv)
  BY Begins, ApiInstance, ApiInitInv
<1>2. (which = "api" => Api!ApiInv) /\ [Next]_readsVars => (which = "api" => Api!ApiInv)'
  BY Goes, ApiInstance, ApiNextKeeps
<1> QED BY <1>1, <1>2, PTL DEF Spec

\* CleverTap's chain of pages visits none twice, whatever cursors the vendor returns
\* and however often a request is made again: each one after the first is of a page
\* that was not asked for, so the chain ends and no record is appended twice.
THEOREM PagesAreReadOnce == Spec => []PagesOnce
<1>1. (which = "api" => Api!ApiInv) => PagesOnce
  BY DEF PagesOnce, Api!ApiInv
<1> QED BY <1>1, ApiInvariant, PTL

\* A saved API cursor vouches for the days before it, through runs that fail or crash
\* between the pages, the promotion and the save, vendors that end or turn a chain,
\* and a destination that is dropped; and a full refresh that ends well leaves what
\* its window has.
THEOREM ApiDaysAreCovered == Spec => []DaysCovered
<1>1. (which = "api" => Api!ApiInv) => DaysCovered
  BY DEF DaysCovered, Api!ApiInv
<1> QED BY <1>1, ApiInvariant, PTL
=============================================================================
