--------------------------- MODULE RunTransferInv ---------------------------
(***************************************************************************)
(* Why the promises of RunTransfer hold: the inductive invariant its       *)
(* theorems are proved from.                                               *)
(***************************************************************************)
EXTENDS RunTransfer

Early   == {"setup", "prepare"}
Block   == {"read", "chunk", "commit", "mark", "approve", "delete", "promote", "drop"}
Tail    == {"cursor", "done", "ok"}

\* The steps another attempt may still come after.
Retriable == pc \in {"setup", "prepare", "read", "chunk"} \/ (pc = "cleanup" /\ retry)

Old == {<<0, b>> : b \in cfg.old}

\* A row is of an attempt made, and none of this one's before it reads.
RowsMade ==
  /\ rows \in [Names -> SUBSET ((0..MaxAttempts) \X Nat)]
  /\ \A t \in Names : \A r \in rows[t] :
       /\ r[1] <= attempt
       /\ pc \in Early => r[1] < attempt
       /\ r[1] > 0 => r[2] \in Batches
  /\ \A r \in rows[Dest] : r[1] = 0 => r \in Old

\* The tables an attempt needs are there, and those it will create are not.
TablesThere ==
  /\ pc \in Block \cup Tail \cup {"cleanup"} \/ cfg.exists => Dest \in tables
  /\ pc \in Block /\ Staged => Staging \in tables
  /\ created => ~cfg.exists
  /\ \A t \in tables :
       /\ t[1] <= attempt
       /\ pc \in Early => t[1] < attempt
       /\ pc = "read" /\ t[1] = attempt => t[2] <= at
       /\ pc \in {"chunk", "commit", "mark"} /\ t[1] = attempt => t[2] <= at + 1
  /\ pc \in {"chunk", "commit"} => open = IF Staged THEN ChunkTable ELSE NoName
  /\ pc \notin {"chunk", "commit", "cleanup", "dead"} => open = NoName
  /\ open # Dest

\* An insert left in flight is of an attempt that failed, into a table of its
\* own or, where nothing is staged, into the destination: a row it has not
\* written.
AbortedApart ==
  /\ \A w \in aborted :
       /\ w[2][1] \in 1..attempt
       /\ IF Staged THEN w[1][1] = w[2][1] ELSE w[1] = Dest /\ w[2] \notin rows[Dest]
       /\ pc \notin {"cleanup", "failed", "dead"} => w[2][1] < attempt
  /\ late \subseteq rows[Dest]
  /\ Staged => late = {}
  /\ \A r \in late : pc \notin {"cleanup", "failed", "dead"} => r[1] < attempt

\* What this attempt's rows in a table are while it reads.
Partly(t) ==
  /\ \A b \in Batches : <<attempt, b>> \in rows[t] => b <= at /\ b \notin inflight
  /\ \A b \in 1..at : <<attempt, b>> \in rows[t] \/ b \in inflight \/ b \in short

\* How far an attempt has got, and what has landed where it writes.
ReadSoFar ==
  /\ carried \subseteq {"partial"}
  /\ "count" \in raised => cfg.counts
  /\ short # {} => "count" \in raised
  /\ marker # 0 => cfg.chunked
  /\ pc = "prepare" => at = marker
  /\ pc = "read" /\ ~cfg.chunked => inflight \subseteq 1..at /\ Partly(Target)
  /\ pc = "read" /\ cfg.chunked =>
       /\ inflight = {} /\ marker = at
       /\ \A b \in Batches : <<attempt, b>> \in rows[Dest] => b <= at
  /\ pc = "chunk" =>
       /\ cfg.chunked /\ marker = at
       /\ inflight \subseteq {at + 1}
       /\ \A b \in Batches : <<attempt, b>> \in rows[Dest] => b <= at + 1 /\ b \notin inflight
       /\ at < N => \/ at + 1 \in inflight \/ <<attempt, at + 1>> \in rows[WriteTable]
                    \/ "count" \in raised
  /\ pc = "commit" =>
       /\ cfg.chunked /\ marker = at
       /\ \A b \in Batches : <<attempt, b>> \in rows[Dest] => b <= at + 1
       /\ at < N => <<attempt, at + 1>> \in rows[WriteTable]
  /\ pc = "mark" =>
       /\ cfg.chunked /\ marker = at /\ at < N
       /\ \A b \in Batches : <<attempt, b>> \in rows[Dest] => b <= at + 1
       /\ <<attempt, at + 1>> \in rows[Dest]
  /\ pc \in {"chunk", "commit"} /\ Staged => rows[open] \subseteq {<<attempt, at + 1>>}
  /\ pc \in {"read", "approve"} /\ Staged /\ ~cfg.chunked => rows[Staging] \subseteq RowsOf(attempt)
  /\ pc \in {"approve", "delete", "promote", "drop"} \cup Tail => at = N
  /\ pc \in {"approve", "drop", "cursor"} /\ cfg.chunked => marker = N
  /\ pc = "approve" /\ ~cfg.chunked =>
       \A b \in Batches : <<attempt, b>> \in rows[Target] \/ b \in short
  /\ pc \in {"delete", "promote"} => Staged /\ ~cfg.chunked /\ rows[Staging] = RowsOf(attempt)
  /\ pc = "delete" => cfg.promote = "insert" /\ cfg.delete_stale
  /\ pc = "drop" => Staged
  /\ pc \in {"drop"} \cup Tail /\ ~cfg.chunked =>
       \A b \in Batches \ Missing : <<attempt, b>> \in rows[Dest]
  /\ pc = "ok" /\ Missing # {} => "count" \notin cfg.fail
  /\ saved => Flow.cursor /\ pc \notin Early \cup Block \cup {"cursor"} /\ ~Retriable
  /\ pc = "cursor" => Flow.cursor
  /\ pc = "done" => Flow.last /\ saved = Flow.cursor

\* Batch b is in the destination for good: no attempt writes it again after
\* the one that wrote it last.
Settled(b) ==
  \E s \in Ours \ late :
    /\ s[2] = b
    /\ \A r \in Ours : r[2] = b => r[1] <= s[1]
    /\ \A w \in aborted : w[2][2] = b => w[2][1] < s[1]

\* So is what the marker or the cursor vouches for, but for what a stream lost.
Vouched ==
  \A b \in Batches :
    b <= marker \/ ((saved \/ pc \in Tail) /\ b \notin Missing) => Settled(b)

\* The destination of a run that stages, until it promotes: as it was, or as
\* its chunks have made it.
DestinationKept ==
  /\ Staged /\ ~cfg.chunked /\ (Retriable \/ pc \in {"approve", "delete"}) => rows[Dest] = Old
  /\ pc = "promote" =>
       \/ rows[Dest] = Old
       \/ /\ cfg.promote = "insert" /\ cfg.delete_stale
          /\ rows[Dest] = {r \in Old : ~InWindow(r) \/ r[2] \in Batches}
  /\ Staged /\ cfg.chunked =>
       /\ Retriable \/ pc = "commit" => \A r \in Ours : r[2] <= marker
       /\ pc = "mark" => \A r \in Ours : r[2] <= at + 1
  /\ pc = "prepare" => (before.exists <=> Dest \in tables)
  /\ pc \in Block => (before.exists <=> ~created)
  /\ Staged /\ ~cfg.chunked /\ pc \in {"prepare", "read", "approve"} => before.rows = Old

\* What stopped a run is true of what it left from when it stops.
SaidSinceStopped ==
  stopped # "none" =>
    /\ pc \in {"cleanup", "failed", "dead"} /\ ~Retriable
    /\ CASE stopped \in {"Write", "Swap", "Merge", "Append"} -> Untouched /\ ~saved
         [] stopped \in {"SwapIntoNew", "MergeIntoNew", "AppendIntoNew"} ->
              Staged /\ Dest \in tables /\ rows[Dest] = {} /\ ~saved
         [] stopped = "Chunk" ->
              /\ ~saved /\ marker = at
              /\ Staged => \A r \in Ours : r[2] <= at
         [] stopped = "Cursor" -> ~saved /\ Batches \subseteq KeysOf(Dest)
         [] stopped = "CursorAfterChunks" -> ~saved /\ marker = N
         [] stopped = "Done" -> saved = Flow.cursor /\ Batches \ Missing \subseteq KeysOf(Dest)
         [] OTHER -> TRUE

\* The shrink guard has let the swap go on.
ShrinkSeen ==
  pc = "promote" /\ cfg.promote = "swap" /\ Cardinality(cfg.old) > N =>
    unchecked \/ (cfg.allow_shrink /\ "shrink" \in raised \ cfg.fail)

\* The rows this attempt wrote itself and may write again, and those that
\* failed attempts wrote.
Landed   == {r \in Ours \ late : r[1] = attempt /\ r[2] > marker}
Repeated == {r \in Ours \ late : r[1] < attempt /\ (r[2] > marker \/ r \in Rewritten)}

\* The counts are of these rows, where what attempts write is counted as it
\* lands; elsewhere nothing is to be counted by the time of another attempt.
CountsKept ==
  /\ ~Staged /\ Flow.counted =>
       /\ Retriable \/ pc \in {"commit", "mark"} => landed = Cardinality(Landed)
       /\ Retriable \/ pc \in Block \cup {"cursor"} => partial = Cardinality(Repeated)
       /\ pc \in {"done", "ok"} => partial = Cardinality(Rewritten \ late)
  /\ Staged \/ ~Flow.counted =>
       /\ partial = 0
       /\ Retriable \/ pc \in Block \ {"mark"} => landed = 0
  /\ ~Flow.counted => attempt = 1 /\ ~(pc = "cleanup" /\ retry)
  /\ partial > 0 /\ "partial" \in cfg.fail =>
       /\ pc \in {"setup", "failed", "dead"}
       /\ \A w \in aborted : w[2][1] < attempt

\* The inductive invariant.
IInv ==
  /\ StagingKnown /\ RowsMade /\ TablesThere /\ AbortedApart /\ ReadSoFar
  /\ Vouched /\ DestinationKept /\ SaidSinceStopped /\ ShrinkSeen /\ CountsKept
  /\ PromotedWhole /\ WrittenOnce /\ NoSilentShrink /\ PartialCounted
=============================================================================
