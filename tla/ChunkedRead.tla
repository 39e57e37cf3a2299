---------------------------- MODULE ChunkedRead ----------------------------
(***************************************************************************)
(* One chunked read from its statements to its markers: the rows a         *)
(* statement returns are decoded in batches, inserted by tasks of their    *)
(* own, and passed by a marker once the chunk is over.  The stream may end *)
(* early, an insert or a marker fail, and the key hold NULLs that          *)
(* keyset_not_null said it has not.  IncrementalSync has the changes of    *)
(* the source while this goes on; RunTransfer a chunk's staging table.     *)
(*                                                                         *)
(* A row is its key; those whose key is NULL are negative.                 *)
(***************************************************************************)
EXTENDS Integers, Sequences, Functions

CONSTANTS
  Reads,     \* the reads a behaviour may be of, each
             \*   [nulls_first: ORDER BY puts NULL first, as MySQL does, or
             \*      last, as PostgreSQL and ClickHouse do,
             \*    nulls: how many rows have a NULL key,
             \*    guarded: the destination takes none (NullGuard),
             \*    limit: chunk_rows]
  LastKeyed, \* bound: the keys are 1..LastKeyed
  BatchRows, \* batch_rows
  MaxStarts, \* bound: attempts, and runs that resume
  NoCursor   \* no key

\* What the constants are.
ChunkConstants ==
  /\ LastKeyed \in Nat /\ BatchRows \in Nat \ {0} /\ MaxStarts \in Nat \ {0}
  /\ NoCursor \notin 1..LastKeyed
  /\ \A r \in Reads :
       /\ r.nulls_first \in BOOLEAN /\ r.guarded \in BOOLEAN
       /\ r.nulls \in Nat /\ r.limit \in Nat \ {0}

VARIABLES
  read,      \* a member of Reads
  pc,        \* where the loop is, or how it ended
  cursor,    \* the key the statements start past
  rows,      \* what the statement returns, in order
  at,        \* how many of them are decoded (rows_total)
  candidate, \* cursor_candidate
  buffer,    \* insert_buf
  flying,    \* sends: the rows of each insert that has no answer yet
  dest,      \* the rows the destination holds
  leftOut,   \* the rows the guard left out, and warned of
  marker,    \* chunk_cursor
  starts     \* within MaxStarts

chunk == <<rows, at, candidate>>
sends == <<buffer, flying, dest, leftOut>>
vars  == <<read, pc, cursor, chunk, sends, marker, starts>>

-----------------------------------------------------------------------------
Keyed  == 1..LastKeyed
Nulls  == (-read.nulls)..(-1)
Source == Keyed \cup Nulls
HasKey(row) == row > 0

Over == {"ok", "refused", "failed"}

\* keyset_predicate: a NULL key is past no cursor.
Past(c) ==
  IF c = NoCursor THEN Source ELSE {row \in Source : HasKey(row) /\ row > c}

\* Rows without a key come in any order.
Precedes(a, b) ==
  \/ HasKey(a) /\ HasKey(b) /\ a < b
  \/ read.nulls_first /\ ~HasKey(a) /\ HasKey(b)
  \/ ~read.nulls_first /\ HasKey(a) /\ ~HasKey(b)

\* select_sql: ORDER BY key LIMIT chunk_rows, so that no row it leaves out
\* comes before one it has.
FirstRows(c) ==
  {s \in UNION {[1..n -> Past(c)] : n \in 0..read.limit} :
     /\ \A i, j \in DOMAIN s : i < j => s[i] # s[j] /\ ~Precedes(s[j], s[i])
     /\ \A row \in Past(c) \ Range(s) :
          Len(s) = read.limit /\ \A i \in DOMAIN s : ~Precedes(row, s[i])}

-----------------------------------------------------------------------------
(* One chunk.                                                              *)

Statement ==
  /\ pc = "statement" /\ pc' = "read"
  /\ rows' \in FirstRows(cursor) /\ at' = 0 /\ candidate' = NoCursor
  /\ UNCHANGED <<read, cursor, sends, marker, starts>>

\* last_int_key: of the batch's last row.
LastKey(row) == IF HasKey(row) THEN row ELSE NoCursor

Furthest(c, k) == IF c = NoCursor \/ (k # NoCursor /\ k > c) THEN k ELSE c

\* NullGuard.
Kept(batch) == {row \in batch : HasKey(row) \/ ~read.guarded}

\* A batch, which batch_bytes may end before batch_rows does, is buffered and
\* sent with what is buffered once that is worth an insert.
ReadBatch ==
  /\ pc = "read"
  /\ \E n \in 1..BatchRows :
       LET batch == {rows[i] : i \in (at + 1)..(at + n)}
           group == buffer \cup Kept(batch)
       IN /\ at + n <= Len(rows)
          /\ at' = at + n
          /\ candidate' = Furthest(candidate, LastKey(rows[at + n]))
          /\ leftOut' = leftOut \cup (batch \ Kept(batch))
          /\ \/ buffer' = group /\ UNCHANGED flying
             \/ buffer' = {} /\ flying' = flying \cup ({group} \ {{}})
  /\ UNCHANGED <<read, pc, cursor, rows, dest, marker, starts>>

\* The insert of one group is acknowledged.
InsertLands ==
  /\ pc \in {"read", "flush"}
  /\ \E group \in flying : flying' = flying \ {group} /\ dest' = dest \cup group
  /\ UNCHANGED <<read, pc, cursor, chunk, buffer, leftOut, marker, starts>>

\* A variant that takes the end of the bytes for the end of the rows.
WholeOrCut == TRUE

\* The rows' stream ended as one that is whole does: with COPY's trailer, the
\* result set's end, or on the border of an Arrow message, where it is assumed
\* that a ClickHouse body which is broken off ends on none.
Whole == at = Len(rows)

\* flush.
EndStatement ==
  /\ pc = "read" /\ Whole /\ pc' = "flush"
  /\ buffer' = {} /\ flying' = flying \cup ({buffer} \ {{}})
  /\ UNCHANGED <<read, cursor, chunk, dest, leftOut, marker, starts>>

\* reap, blocking: every insert has its answer.
AllAnswered == flying = {}

\* An empty chunk ends the read; one without a key to go on from fails it.
EndChunk ==
  /\ pc = "flush" /\ AllAnswered
  /\ pc' = CASE at = 0                             -> "ok"
             [] at # 0 /\ candidate = NoCursor     -> "refused"
             [] at # 0 /\ candidate # NoCursor     -> "mark"
  /\ UNCHANGED <<read, cursor, chunk, sends, marker, starts>>

\* persist_chunk_cursor.  A short chunk is the last.
Mark ==
  /\ pc = "mark"
  /\ marker' = candidate /\ cursor' = candidate
  /\ pc' = IF at < read.limit THEN "ok" ELSE "statement"
  /\ UNCHANGED <<read, chunk, sends, starts>>

-----------------------------------------------------------------------------
(* Failures.                                                               *)

\* The stream ends early or is idle too long, an insert, the archive or the
\* marker's write fails, a warning is fatal, or the process dies: inserts without an answer may have been
\* applied, and so may the marker.
Fails ==
  /\ pc \notin Over /\ pc' = "failed"
  /\ \E applied \in SUBSET flying : dest' = dest \cup UNION applied
  /\ buffer' = {} /\ flying' = {}
  /\ marker' \in IF pc = "mark" THEN {marker, candidate} ELSE {marker}
  /\ UNCHANGED <<read, cursor, chunk, leftOut, starts>>

\* The next attempt, or the next run, goes on from the marker.
Resume ==
  /\ pc = "failed" /\ starts < MaxStarts /\ pc' = "statement"
  /\ cursor' = marker /\ starts' = starts + 1
  /\ UNCHANGED <<read, chunk, sends, marker>>

Returned == pc \in Over /\ UNCHANGED vars

Init ==
  /\ read \in Reads
  /\ pc = "statement" /\ cursor = NoCursor /\ marker = NoCursor
  /\ rows = <<>> /\ at = 0 /\ candidate = NoCursor
  /\ buffer = {} /\ flying = {} /\ dest = {} /\ leftOut = {}
  /\ starts = 1

Loop == Statement \/ ReadBatch \/ EndStatement \/ InsertLands \/ EndChunk \/ Mark

Next == Loop \/ Fails \/ Resume \/ Returned

Spec == Init /\ [][Next]_vars

-----------------------------------------------------------------------------
\* Types, and what always goes together: nothing is buffered or sent outside a
\* chunk, and the marker is never past the loop's own cursor but when its last
\* write has no answer.
TypeOK ==
  /\ read \in Reads
  /\ pc \in {"statement", "read", "flush", "mark"} \cup Over
  /\ {cursor, candidate, marker} \subseteq Keyed \cup {NoCursor}
  /\ Range(rows) \subseteq Source /\ at \in 0..Len(rows)
  /\ dest \cup leftOut \cup buffer \cup UNION flying \subseteq Source
  /\ pc \notin {"read", "flush"} => buffer = {} /\ flying = {}
  /\ marker # cursor => pc = "failed"

\* A marker has nothing behind it that is not in the destination, and a read
\* that ends well has read it all, however its rows came in batches and
\* wherever it was broken off and resumed (transfer_keyset_mysql and its
\* analogues).  If a key that was to have no NULL has some, no row with a key
\* is passed over for it; the rows without are read, or left out and told,
\* where they come first; and a read is refused for nothing else.
ChunksWhole ==
  /\ marker # NoCursor => 1..marker \subseteq dest
  /\ pc = "ok" => Keyed \subseteq dest
  /\ pc = "ok" /\ read.nulls_first => Nulls \subseteq dest \cup leftOut
  /\ pc = "refused" => Nulls # {}
=============================================================================
