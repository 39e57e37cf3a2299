------------------------------ MODULE Reconcile ------------------------------
(***************************************************************************)
(* reconcile_keys: the keys of a window the destination holds and the      *)
(* source does not any more are counted and, if asked, deleted, while the  *)
(* source changes and incremental syncs go on.  The window is a predicate  *)
(* on the row, so a row may leave it; a key that was deleted or left is    *)
(* taken not to come back into it while a reconcile runs.                  *)
(***************************************************************************)
EXTENDS Integers, Sequences, FiniteSets

CONSTANTS
  Keys,       \* keys, positive naturals
  OldKeys,    \* those of rows that are there, and were synced, at first
  Requests,   \* what may be asked: each [delete: a Boolean,
              \*   ceiling: max_delete_keys or 0, alike: both sides render a
              \*   key as the same text, merges: the destination keeps one
              \*   version of a key, as BigQuery's MERGE does]
  ChunkKeys,  \* DELETE_KEY_CHUNK, 10000
  MaxChanges, \* bound: changes of source rows
  MaxFaults   \* bound: statements that fail

\* What the constants are.
ReconcileConstants ==
  /\ OldKeys \subseteq Keys /\ Keys \subseteq Nat \ {0}
  /\ ChunkKeys \in Nat \ {0} /\ MaxChanges \in Nat \ {0} /\ MaxFaults \in Nat

VARIABLES
  request, \* a member of Requests
  source,  \* the source: each key's row [w: version, in: it is in the window], or NoRow
  dest,    \* the destination's rows, each [k, w, in]
  cursor,  \* the sync's: the newest version it has written
  batch,   \* what a sync has read and not yet written, or NoBatch
  clock,   \* the newest version
  left,    \* keys that were in the window and are not any more
  pc,      \* where the reconcile is
  theirs,  \* dest_keys
  ours,    \* source_keys
  orphans, \* orphans that are left to delete, in order
  phantom, \* history: keys the source did not have when the reconcile began
           \*   and no sync was about to write
  faults   \* within MaxFaults

sides == <<source, clock, left>>
syncs == <<cursor, batch>>
found == <<theirs, ours, orphans>>
vars  == <<request, sides, dest, syncs, pc, found, phantom, faults>>

-----------------------------------------------------------------------------
NoRow   == [w |-> 0, in |-> FALSE]
NoBatch == [w |-> 0, rows |-> {}]
Live(k) == source[k].w > 0

\* A key as a side renders it.
SourceText(k) == k
DestText(k)   == IF request.alike THEN k ELSE -k

InWindow(rows) == {r.k : r \in {x \in rows : x.in}}
RowOf(k)       == [k |-> k, w |-> source[k].w, in |-> source[k].in]
FirstKeys(S)   == {k \in S : Cardinality({j \in S : j < k}) < ChunkKeys}

-----------------------------------------------------------------------------
(* The source, and syncs.                                                  *)

\* A row is written or changed, in the window or out of it, and stamped.
ChangeRow(k) ==
  /\ clock < MaxChanges
  /\ clock' = clock + 1
  /\ \E in \in BOOLEAN :
       /\ in => k \notin left
       /\ source' = [source EXCEPT ![k] = [w |-> clock + 1, in |-> in]]
       /\ left' = IF source[k].in /\ ~in THEN left \cup {k} ELSE left
  /\ UNCHANGED <<request, dest, syncs, pc, found, phantom, faults>>

DeleteRow(k) ==
  /\ Live(k)
  /\ source' = [source EXCEPT ![k] = NoRow]
  /\ left' = left \cup {k}
  /\ UNCHANGED <<request, dest, syncs, clock, pc, found, phantom, faults>>

\* An incremental run reads what is newer than its cursor, then writes it.
SyncReads ==
  /\ batch = NoBatch /\ clock > cursor
  /\ batch' = [w |-> clock, rows |-> {RowOf(k) : k \in {j \in Keys : source[j].w > cursor}}]
  /\ UNCHANGED <<request, sides, dest, cursor, pc, found, phantom, faults>>

SyncWrites ==
  /\ batch # NoBatch
  /\ LET newKeys == {r.k : r \in batch.rows}
     IN dest' = batch.rows \cup {r \in dest : request.merges => r.k \notin newKeys}
  /\ cursor' = batch.w
  /\ batch' = NoBatch
  /\ UNCHANGED <<request, sides, pc, found, phantom, faults>>

-----------------------------------------------------------------------------
(* reconcile_keys.                                                         *)

\* distinct_keys of the destination, which reads every version there is.
ReadDestKeys == theirs' = {DestText(k) : k \in InWindow(dest)}

\* distinct_keys of the source.
ReadSourceKeys == ours' = {SourceText(k) : k \in InWindow({RowOf(k) : k \in Keys})}

\* A variant that reads the source before the destination.
SourceFirst ==
  \/ pc = "start" /\ pc' = "source" /\ ReadSourceKeys /\ UNCHANGED theirs
  \/ pc = "source" /\ pc' = "diff" /\ ReadDestKeys /\ UNCHANGED ours

\* The destination's keys are read first, then the source's.
ReadSides ==
  \/ pc = "start" /\ pc' = "source" /\ ReadDestKeys /\ UNCHANGED ours
  \/ pc = "source" /\ pc' = "diff" /\ ReadSourceKeys /\ UNCHANGED theirs

Read ==
  /\ ReadSides
  /\ phantom' = IF pc = "start"
                THEN {k \in Keys : ~Live(k) /\ k \in left /\ k \notin {r.k : r \in batch.rows}}
                ELSE phantom
  /\ UNCHANGED <<request, sides, dest, syncs, orphans, faults>>

Orphaned == theirs \ ours
Missing  == ours \ theirs

\* No key in common is two renderings, or two windows, and not drift.
NothingInCommon == theirs # {} /\ ours # {} /\ Orphaned = theirs /\ Missing = ours
OverCeiling     == request.ceiling > 0 /\ Cardinality(Orphaned) > request.ceiling

Diff ==
  /\ pc = "diff"
  /\ orphans' = IF request.delete THEN Orphaned ELSE {}
  /\ pc' = IF NothingInCommon \/ (request.delete /\ OverCeiling) THEN "refused"
           ELSE IF request.delete /\ Orphaned # {} THEN "delete" ELSE "done"
  /\ UNCHANGED <<request, sides, dest, syncs, theirs, ours, phantom, faults>>

\* delete_keys: the rows of a chunk's keys that are in the window.
Doomed(chunk) == {r \in dest : r.in /\ DestText(r.k) \in chunk}

DeleteChunk ==
  /\ pc = "delete"
  /\ LET chunk == FirstKeys(orphans)
     IN /\ dest' = dest \ Doomed(chunk)
        /\ orphans' = orphans \ chunk
        /\ pc' = IF orphans = chunk THEN "done" ELSE "delete"
  /\ UNCHANGED <<request, sides, syncs, theirs, ours, phantom, faults>>

\* A query or a delete fails; a delete may have been done.
Fails ==
  /\ pc \in {"start", "source", "delete"} /\ faults < MaxFaults
  /\ faults' = faults + 1
  /\ pc' = "failed"
  /\ dest' \in {dest} \cup (IF pc = "delete" THEN {dest \ Doomed(FirstKeys(orphans))} ELSE {})
  /\ UNCHANGED <<request, sides, syncs, found, phantom>>

\* It is run again.
Again ==
  /\ pc = "failed"
  /\ pc' = "start"
  /\ theirs' = {} /\ ours' = {} /\ orphans' = {}
  /\ UNCHANGED <<request, sides, dest, syncs, phantom, faults>>

-----------------------------------------------------------------------------
Init ==
  /\ request \in Requests
  /\ source = [k \in Keys |-> IF k \in OldKeys THEN [w |-> 1, in |-> TRUE] ELSE NoRow]
  /\ dest = {[k |-> k, w |-> 1, in |-> TRUE] : k \in OldKeys}
  /\ cursor = 1 /\ batch = NoBatch /\ clock = 1 /\ left = {}
  /\ pc = "start"
  /\ theirs = {} /\ ours = {} /\ orphans = {}
  /\ phantom = {} /\ faults = 0

Ended == pc \in {"done", "refused"}

Next ==
  \/ \E k \in Keys : ChangeRow(k) \/ DeleteRow(k)
  \/ SyncReads \/ SyncWrites
  \/ Read \/ Diff \/ DeleteChunk \/ Fails \/ Again
  \/ Ended /\ UNCHANGED vars

Spec == Init /\ [][Next]_vars

-----------------------------------------------------------------------------
TypeOK ==
  /\ request \in Requests
  /\ clock \in 1..MaxChanges /\ cursor \in 1..clock
  /\ \A k \in Keys : source[k].w \in 0..clock /\ source[k].in \in BOOLEAN
  /\ \A r \in dest \cup batch.rows : r.k \in Keys /\ r.w \in 1..clock
  /\ orphans \subseteq theirs
  /\ faults \in 0..MaxFaults

\* Deletes take what the source lost and nothing else.  A row the source has,
\* and a sync has copied, stays in the destination, though syncs write
\* between the reads and the deletes and rows leave the window; and a
\* reconcile that deleted leaves in the window no key the source had lost
\* when it began.
OnlyDriftDeleted ==
  /\ \A k \in Keys : Live(k) /\ source[k].w <= cursor => RowOf(k) \in dest
  /\ pc = "done" /\ request.delete /\ request.alike => InWindow(dest) \cap phantom = {}
=============================================================================
