-------------------------- MODULE InsertPipelineInv --------------------------
(***************************************************************************)
(* Why the promises of InsertPipeline hold: the inductive invariant its    *)
(* theorems are proved from.                                               *)
(***************************************************************************)
EXTENDS InsertPipeline

Send == [take : Nat, group : Seq(Nat), failed : BOOLEAN]
Mark == [takes : Nat, len : Nat, null_rows : Nat]

Distinct(seq) == \A j, k \in DOMAIN seq : seq[j] = seq[k] => j = k

\* How far a reader has decoded, and how far of that is buffered, sent or left
\* out: a batch that waits for memory is neither.
Decoded(r) ==
  CASE step[r] \in {"queued", "between"} -> lo[r]
    [] step[r] \in {"read", "waiting"}   -> at[r]
    [] OTHER                             -> Len(Batches[r])
Reached(r) == IF step[r] = "waiting" THEN Decoded(r) - 1 ELSE Decoded(r)

\* How far the tallies are counted: a sweep's wait for their window.
Counted(r) == IF ~Sweep \/ step[r] \in {"drain", "done"} THEN Decoded(r) ELSE lo[r]

Typed ==
  /\ plan \in Reads
  /\ lo \in [Readers -> Nat] /\ hi \in [Readers -> Nat] /\ at \in [Readers -> Nat]
  /\ buf \in [Readers -> Seq(Nat)] /\ null_rows \in [Readers -> Seq(Nat)]
  /\ takes \in [Readers -> Nat] /\ mark \in [Readers -> Mark]
  /\ sends \in [Readers -> SUBSET Send] /\ \A r \in Readers : IsFiniteSet(sends[r])
  /\ waiters \in Seq(Readers) /\ Distinct(waiters)

\* A statement is of the batches after lo and up to hi, and what a reader has
\* buffered or sent is of the batches it has reached.
InStatement(r) ==
  /\ step[r] \in {"read", "waiting"} => hi[r] = StatementEnd(r) /\ at[r] \in lo[r]..hi[r]
  /\ step[r] = "waiting" =>
       /\ lo[r] < at[r] /\ Batches[r][at[r]].kept
       /\ buf[r] = <<>>
  /\ \A i \in Range(buf[r]) : i \in 1..Reached(r)
  /\ \A s \in sends[r] : \A i \in Range(s.group) : i \in DOMAIN Batches[r]
  /\ step[r] \in {"drain", "done"} => buf[r] = <<>>
  /\ step[r] = "done" => sends[r] = {}

\* The mark tells the batches of this window from those before it, unless the
\* buffer was sent since: then it holds batches of this window only.
Marked(r) ==
  step[r] \in {"read", "waiting"} =>
    /\ mark[r].takes <= takes[r]
    /\ IF mark[r].takes = takes[r]
       THEN /\ mark[r].len <= Len(buf[r])
            /\ \A j \in DOMAIN buf[r] : j <= mark[r].len <=> buf[r][j] <= lo[r]
       ELSE \A j \in DOMAIN buf[r] : buf[r][j] > lo[r]

\* Every batch a reader has reached is buffered, in an insert or written.
Covered(r) ==
  \A i \in DOMAIN Batches[r] : i <= Reached(r) /\ Batches[r][i].kept =>
    i \in Range(buf[r]) \/ (\E s \in sends[r] : i \in Range(s.group)) \/ written[<<r, i>>] > 0

\* A batch no cancelled window has sent is in one place at most.
InOnePlace(r) ==
  /\ Distinct(buf[r]) /\ \A s \in sends[r] : Distinct(s.group)
  /\ \A i \in DOMAIN Batches[r] : <<r, i>> \notin spilled =>
       /\ i > Reached(r) \/ i \in Range(buf[r]) =>
            written[<<r, i>>] = 0 /\ \A s \in sends[r] : i \notin Range(s.group)
       /\ \A s \in sends[r] : i \in Range(s.group) =>
            /\ ~s.failed => written[<<r, i>>] = 0
            /\ \A t \in sends[r] : i \in Range(t.group) => t = s

\* A tally is counted once its batch is read for good, and waits till then.
Tallied(r) ==
  /\ Distinct(null_rows[r])
  /\ Range(null_rows[r]) = {i \in DOMAIN Batches[r] : /\ Counted(r) < i /\ i <= Decoded(r)
                                                     /\ Batches[r][i].nulls}
  /\ step[r] \in {"read", "waiting"} => mark[r].null_rows = 0
  /\ \A i \in DOMAIN Batches[r] :
       warned[<<r, i>>] = IF Batches[r][i].nulls /\ i <= Counted(r) THEN 1 ELSE 0

ReaderInv(r) == InStatement(r) /\ Marked(r) /\ Covered(r) /\ InOnePlace(r) /\ Tallied(r)

\* The inductive invariant: a run that has failed is past all but the count of
\* what was written.
PInv ==
  /\ TypeOK /\ Typed
  /\ run = "running" => \A r \in Readers : ReaderInv(r)
  /\ NothingLost /\ WrittenTwiceIfSpilled /\ NullsCountedOnce

\* Reservations keep to the ceiling, and a read that has ended holds nothing:
\* inductive next to PInv.
WithinCeiling == MaxMemory # 0 => Held <= MaxMemory
Empty   == \A r \in Readers : buf[r] = <<>> /\ sends[r] = {}
Emptied == run # "running" => Empty
MInv    == PInv /\ WithinCeiling /\ Emptied

\* At most parallelism readers run, and none waits when the run has ended.
FewRun ==
  /\ Cardinality({p \in Readers : Running(p)}) <= Parallelism
  /\ run # "running" => waiters = <<>>
=============================================================================
