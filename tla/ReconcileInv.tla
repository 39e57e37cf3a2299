----------------------------- MODULE ReconcileInv -----------------------------
(***************************************************************************)
(* Why Reconcile deletes only what the source lost: the inductive invariant*)
(* its theorems are proved from.                                           *)
(***************************************************************************)
EXTENDS Reconcile

\* A key that left the window is out of it, and a row that is in the window
\* somewhere is of a key that is in it at the source or left.
LeftStaysOut ==
  /\ \A k \in left : k \in Keys /\ ~source[k].in
  /\ \A r \in dest \cup batch.rows : r.in => r.k \in left \/ source[r.k].in

\* A sync writes what is newer than the cursor, all of it up to the batch's
\* newest version: what it replaces is older than what it read.
BatchNewer ==
  batch # NoBatch =>
    /\ batch.w \in cursor..clock
    /\ \A r \in batch.rows : r.w > cursor /\ (Live(r.k) => source[r.k].w > cursor)
    /\ \A k \in Keys : source[k].w > cursor /\ source[k].w <= batch.w => RowOf(k) \in batch.rows

\* A row at the source that the cursor is past is in the destination.
CopiedStays == \A k \in Keys : Live(k) /\ source[k].w <= cursor => RowOf(k) \in dest

\* What was read of the destination left the window at the source or is read
\* there, so that what is left to delete has left for good.  Two renderings of
\* a key have nothing in common.
OrphansLeft ==
  /\ theirs \subseteq {DestText(k) : k \in Keys} /\ ours \subseteq Keys
  /\ pc = "source" =>
       \A k \in Keys : DestText(k) \in theirs => k \in left \/ source[k].in
  /\ pc = "diff" =>
       \A k \in Keys : DestText(k) \in theirs => k \in left \/ k \in ours
  /\ pc = "delete" => \A k \in Keys : DestText(k) \in orphans => k \in left

\* No sync brings a key back that the source had lost when the reconcile
\* began: those that are in the window still were read, and are left to delete.
PhantomsFound ==
  /\ phantom \subseteq left
  /\ \A r \in batch.rows : r.k \in phantom => ~r.in
  /\ request.alike =>
       /\ pc \in {"source", "diff"} => InWindow(dest) \cap phantom \subseteq theirs
       /\ pc = "diff" => phantom \cap ours = {}
       /\ pc = "delete" => InWindow(dest) \cap phantom \subseteq orphans
       /\ pc = "done" /\ request.delete => InWindow(dest) \cap phantom = {}

\* Nothing is left to delete before the two sides have been compared.
NothingToDelete ==
  /\ pc \in {"start", "source", "diff"} => orphans = {}
  /\ pc = "delete" => request.delete

\* The inductive invariant.
IInv ==
  /\ TypeOK
  /\ source \in [Keys -> [w : Nat, in : BOOLEAN]]
  /\ pc \in {"start", "source", "diff", "delete", "failed", "refused", "done"}
  /\ LeftStaysOut /\ BatchNewer /\ CopiedStays /\ OrphansLeft /\ PhantomsFound
  /\ NothingToDelete
=============================================================================
