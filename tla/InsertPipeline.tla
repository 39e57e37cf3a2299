---------------------------- MODULE InsertPipeline ----------------------------
(***************************************************************************)
(* The insert pipeline of one attempt: statements are decoded into batches,*)
(* each batch reserves memory from a ceiling all readers share and joins   *)
(* its reader's insert buffer, and a buffer is sent as one insert by a     *)
(* task of its own, which gives the memory back when it ends.              *)
(*                                                                         *)
(* The readers are the partitions of the read, run in one task, or the one *)
(* reader of a sweep, whose statements are key windows.  A batch is known  *)
(* by its reader and its position in what that reader reads; in a sweep    *)
(* that position is its key, 1 being the key's MIN.                        *)
(***************************************************************************)
EXTENDS Integers, FiniteSets, FiniteSetsExt, Sequences, Functions

CONSTANTS
  Reads,        \* the reads a behaviour may be of, each
                \*   [batches: what each reader decodes, a sequence of
                \*      [size: bytes, nulls: NullGuard tallies rows of it,
                \*       kept: rows of it are left],
                \*    sweep: it is a sweep of windows,
                \*    keyed: the MAX of a sweep's key; a batch past it is of
                \*      the IS NULL window]
  Parallelism,  \* parallelism: readers that run at once
  MaxMemory,    \* max_memory_bytes; 0 is no ceiling
  InsertBytes,  \* insert_bytes
  ReadWindow,   \* read_window_rows
  InitialWidth, \* INITIAL_READ_WINDOW_ROWS
  MinWidth,     \* MIN_READ_WINDOW_ROWS
  MaxFaults     \* bound: failed statements and inserts

ASSUME PipelineConstants ==
  /\ \A p \in Reads :
       /\ IsFiniteSet(DOMAIN p.batches)
       /\ \A r \in DOMAIN p.batches :
            p.batches[r] \in Seq([size : Nat, nulls : BOOLEAN, kept : BOOLEAN])
       /\ p.sweep \in BOOLEAN
       /\ p.sweep => DOMAIN p.batches = {1} /\ p.keyed \in 1..Len(p.batches[1])
  /\ {Parallelism, ReadWindow, InitialWidth, MinWidth} \subseteq Nat \ {0}
  /\ {MaxMemory, InsertBytes, MaxFaults} \subseteq Nat

VARIABLES
  plan,       \* the read, a member of Reads
  step,       \* where each reader is
  lo,         \* batches before its statement
  hi,         \* the last batch of its statement
  width,      \* of the next window: step of the sweep
  at,         \* the last batch it has decoded
  buf,        \* InsertBuffer.batches
  takes,      \* InsertBuffer.takes
  null_rows,  \* InsertBuffer.null_rows: batches whose tally waits
  mark,       \* BufferMark of its window
  sends,      \* inserts it has sent and not reaped
  waiters,    \* readers waiting in MemoryBudget::reserve, in order
  warned,     \* how often each batch's tally was counted
  written,    \* how often each batch was written
  spilled,    \* batches sent in a window that was then cancelled
  run,        \* "running", "ok" or "failed"
  faults      \* within MaxFaults

buffers == <<buf, takes, sends>>
tallies == <<null_rows, warned>>
window  == <<plan, width>>
place   == <<lo, hi, at>>
vars    == <<step, place, window, buffers, tallies, mark, waiters, written,
             spilled, run, faults>>

Batches == plan.batches
Sweep   == plan.sweep
Keyed   == plan.keyed
Readers == DOMAIN Batches
Batch   == UNION {{r} \X DOMAIN Batches[r] : r \in Readers}

NoBatch == [b \in Batch |-> 0]

LowerOf(a, b)  == IF a <= b THEN a ELSE b
HigherOf(a, b) == IF a <= b THEN b ELSE a

-----------------------------------------------------------------------------
(* MemoryBudget.                                                           *)

\* What a batch reserves: never more than the ceiling, never nothing.
Want(size) ==
  CASE size < 1 -> 1
    [] size > MaxMemory -> MaxMemory
    [] OTHER -> size

SizeOf(r, i) == Batches[r][i].size
Bytes(r, group) == SumFunction([j \in DOMAIN group |-> SizeOf(r, group[j])])
Reserved(r, group) == SumFunction([j \in DOMAIN group |-> Want(SizeOf(r, group[j]))])

InFlight(r) == {s \in sends[r] : ~s.failed}

\* A variant that releases a reservation when the buffer is sent.
HeldUntilSent == SumFunction([r \in Readers |-> Reserved(r, buf[r])])

\* Reservations are held by buffered batches and by inserts that have not
\* ended.
HeldBy(r) == Reserved(r, buf[r]) + SumFunction([s \in InFlight(r) |-> Reserved(r, s.group)])
Held == SumFunction([r \in Readers |-> HeldBy(r)])

Awaited(r) == Want(SizeOf(r, at[r]))
Queued == SumFunction([i \in DOMAIN waiters |-> Awaited(waiters[i])])

\* try_reserve: what is free is the waiters' first.
TryReserve(size) == MaxMemory = 0 \/ Held + Queued + Want(size) <= MaxMemory

-----------------------------------------------------------------------------
(* InsertBuffer.                                                           *)

KeepIn(r, group) ==
  /\ buf' = [buf EXCEPT ![r] = group]
  /\ UNCHANGED <<takes, sends>>

\* flush: nothing when empty, else one insert of everything.
Flush(r, group) ==
  IF group = <<>> THEN KeepIn(r, group)
  ELSE /\ buf' = [buf EXCEPT ![r] = <<>>]
       /\ takes' = [takes EXCEPT ![r] = @ + 1]
       /\ sends' = [sends EXCEPT ![r] =
                      @ \cup {[take |-> takes[r], group |-> group, failed |-> FALSE]}]

Full(r, group) == group # <<>> /\ Bytes(r, group) >= InsertBytes

\* push: a sweep's buffer is sent between its windows, not when full.
Push(r, i) ==
  LET group == Append(buf[r], i)
  IN IF ~Sweep /\ Full(r, group) THEN Flush(r, group) ELSE KeepIn(r, group)

\* A variant that waits for memory with its own batches still buffered.
KeepHolding(r) == KeepIn(r, buf[r])

\* Under memory pressure a reader sends what it holds before it waits.
MakeRoom(r) == Flush(r, buf[r])

\* Variants: one that forgets the buffer was sent since the mark, and one
\* that empties it.
KeptByLength(r) == IF mark[r].len <= Len(buf[r]) THEN mark[r].len ELSE Len(buf[r])
KeptNone(r) == 0

\* truncate: how many batches a cancelled window leaves in the buffer, and
\* how many tallies.
Kept(r) ==
  IF mark[r].takes # takes[r] THEN 0
  ELSE IF mark[r].len <= Len(buf[r]) THEN mark[r].len ELSE Len(buf[r])
AllTallies(r) == Len(null_rows[r])
KeptTallies(r) == mark[r].null_rows

CountIn(seq, i) == Cardinality({j \in DOMAIN seq : seq[j] = i})
WithBatches(count, r, seq) ==
  [b \in Batch |-> count[b] + IF b[1] = r THEN CountIn(seq, b[2]) ELSE 0]

\* report_null_rows.
Report(r) ==
  /\ warned' = WithBatches(warned, r, null_rows[r])
  /\ null_rows' = [null_rows EXCEPT ![r] = <<>>]

-----------------------------------------------------------------------------
(* A reader.                                                               *)

Running(r) == run = "running" /\ step[r] \notin {"queued", "done"}
Goto(r, s) == step' = [step EXCEPT ![r] = s]
FailedSends(r) == {s \in sends[r] : s.failed}

\* buffer_unordered: partitions start in order, parallelism at a time.
Start(r) ==
  /\ run = "running"
  /\ step[r] = "queued"
  /\ \A p \in Readers : p < r => step[p] # "queued"
  /\ Cardinality({p \in Readers : Running(p)}) < Parallelism
  /\ Goto(r, "between")
  /\ UNCHANGED <<window, place, buffers, tallies, mark, waiters, written, spilled, run, faults>>

\* plan_read_window: the first window's width, and the narrowest.
StartWidth == LowerOf(InitialWidth, ReadWindow)
Floor      == LowerOf(HigherOf(StartWidth \div 64, MinWidth), StartWidth)

\* window_hi, and the end of a partition or of the IS NULL window.
StatementEnd(r) ==
  IF Sweep /\ lo[r] < Keyed THEN LowerOf(lo[r] + width, Keyed) ELSE Len(Batches[r])

\* next_window: a quarter to five quarters of the width, by how long the
\* window took, within the floor and the ceiling.
NextWidths ==
  {HigherOf(Floor, LowerOf(ReadWindow, w)) : w \in ((width + 2) \div 4)..((5 * width + 2) \div 4)}

\* next_window of a cancelled one.
Narrower == HigherOf(width \div 2, Floor)

\* A statement is read from its start.
BeginStatement(r) ==
  /\ run = "running"
  /\ step[r] = "between"
  /\ Goto(r, "read")
  /\ hi' = [hi EXCEPT ![r] = StatementEnd(r)]
  /\ at' = [at EXCEPT ![r] = lo[r]]
  /\ mark' = [mark EXCEPT ![r] = [takes |-> takes[r], len |-> Len(buf[r]),
                                  null_rows |-> Len(null_rows[r])]]
  /\ UNCHANGED <<window, lo, buffers, tallies, waiters, written, spilled, run, faults>>

\* The tally of a batch waits for a window to succeed; elsewhere it counts at
\* once.
Tally(r, i) ==
  CASE ~Batches[r][i].nulls -> UNCHANGED tallies
    [] Batches[r][i].nulls /\ Sweep ->
         /\ null_rows' = [null_rows EXCEPT ![r] = Append(@, i)]
         /\ UNCHANGED warned
    [] Batches[r][i].nulls /\ ~Sweep ->
         /\ warned' = WithBatches(warned, r, <<i>>)
         /\ UNCHANGED null_rows

\* push_batch, up to the wait for memory: a batch NullGuard leaves nothing of
\* goes no further.
PushBatch(r) ==
  /\ run = "running"
  /\ step[r] = "read"
  /\ at[r] < hi[r]
  /\ at' = [at EXCEPT ![r] = @ + 1]
  /\ Tally(r, at'[r])
  /\ \/ /\ ~Batches[r][at'[r]].kept
        /\ UNCHANGED <<buffers, step, waiters>>
     \/ /\ Batches[r][at'[r]].kept
        /\ TryReserve(SizeOf(r, at'[r]))
        /\ Push(r, at'[r])
        /\ UNCHANGED <<step, waiters>>
     \/ /\ Batches[r][at'[r]].kept
        /\ ~TryReserve(SizeOf(r, at'[r]))
        /\ MakeRoom(r)
        /\ waiters' = Append(waiters, r)
        /\ Goto(r, "waiting")
  /\ UNCHANGED <<window, lo, hi, mark, written, spilled, run, faults>>

\* The first waiter has its memory.
Granted(r) ==
  /\ run = "running"
  /\ step[r] = "waiting"
  /\ Head(waiters) = r
  /\ Held + Awaited(r) <= MaxMemory
  /\ waiters' = Tail(waiters)
  /\ Push(r, at[r])
  /\ Goto(r, "read")
  /\ UNCHANGED <<window, place, tallies, mark, written, spilled, run, faults>>

\* A window ended and is one of several: between_windows.
EndWindow(r) ==
  /\ run = "running"
  /\ step[r] = "read"
  /\ at[r] = hi[r]
  /\ Sweep /\ lo[r] < Keyed
  /\ FailedSends(r) = {}
  /\ Report(r)
  /\ IF Full(r, buf[r]) THEN Flush(r, buf[r]) ELSE KeepIn(r, buf[r])
  /\ lo' = [lo EXCEPT ![r] = hi[r]]
  /\ width' \in NextWidths
  /\ Goto(r, IF hi[r] = Keyed /\ Keyed = Len(Batches[r]) THEN "finish" ELSE "between")
  /\ UNCHANGED <<plan, hi, at, mark, waiters, written, spilled, run, faults>>

\* The source cancels a window wider than the floor: what it buffered and
\* tallied is dropped, and its keys are read again in narrower windows.
CancelWindow(r) ==
  /\ run = "running"
  /\ step[r] = "read"
  /\ Sweep /\ lo[r] < Keyed
  /\ width > Floor
  /\ width' = Narrower
  /\ KeepIn(r, SubSeq(buf[r], 1, Kept(r)))
  /\ null_rows' = [null_rows EXCEPT ![r] = SubSeq(@, 1, KeptTallies(r))]
  /\ spilled' = spilled \cup ({r} \X (((lo[r] + 1)..at[r]) \ Range(buf[r])))
  /\ Goto(r, "between")
  /\ UNCHANGED <<plan, place, warned, mark, waiters, written, run, faults>>

\* A partition's statement, or a sweep's last, has ended.
EndStatement(r) ==
  /\ run = "running"
  /\ step[r] = "read"
  /\ at[r] = hi[r]
  /\ ~(Sweep /\ lo[r] < Keyed)
  /\ Goto(r, "finish")
  /\ UNCHANGED <<window, place, buffers, tallies, mark, waiters, written, spilled, run, faults>>

\* ReadOut::finish, up to its wait.
FinishRead(r) ==
  /\ run = "running"
  /\ step[r] = "finish"
  /\ Report(r)
  /\ Flush(r, buf[r])
  /\ Goto(r, "drain")
  /\ UNCHANGED <<window, place, mark, waiters, written, spilled, run, faults>>

\* Every insert has landed.
Drained(r) ==
  /\ run = "running"
  /\ step[r] = "drain"
  /\ sends[r] = {}
  /\ Goto(r, "done")
  /\ UNCHANGED <<window, place, buffers, tallies, mark, waiters, written, spilled, run, faults>>

-----------------------------------------------------------------------------
(* Inserts, and the end of the run.                                        *)

\* An insert is acknowledged.
SendLands(r, s) ==
  /\ run = "running"
  /\ s \in InFlight(r)
  /\ written' = WithBatches(written, r, s.group)
  /\ sends' = [sends EXCEPT ![r] = @ \ {s}]
  /\ UNCHANGED <<window, step, place, buf, takes, tallies, mark, waiters, spilled, run, faults>>

\* An insert fails for good; its rows may be there all the same.
SendFails(r, s) ==
  /\ run = "running"
  /\ s \in InFlight(r)
  /\ faults < MaxFaults
  /\ faults' = faults + 1
  /\ written' \in {written, WithBatches(written, r, s.group)}
  /\ sends' = [sends EXCEPT ![r] = (@ \ {s}) \cup {[s EXCEPT !.failed = TRUE]}]
  /\ UNCHANGED <<window, step, place, buf, takes, tallies, mark, waiters, spilled, run>>

\* The first error of a reader ends the run: every other reader and the
\* inserts in flight are dropped, any of which the destination may yet apply.
Abort ==
  /\ run' = "failed"
  /\ buf' = [r \in Readers |-> <<>>]
  /\ sends' = [r \in Readers |-> {}]
  /\ waiters' = <<>>
  /\ \E applied \in SUBSET UNION {{r} \X InFlight(r) : r \in Readers} :
       written' = [b \in Batch |-> written[b] +
         Cardinality({s \in applied : s[1] = b[1] /\ b[2] \in Range(s[2].group)})]
  /\ UNCHANGED <<window, step, place, takes, tallies, mark, spilled>>

\* reap finds an insert that failed.
ReapFails(r) ==
  /\ run = "running"
  /\ step[r] \in {"read", "drain"}
  /\ FailedSends(r) # {}
  /\ Abort
  /\ UNCHANGED faults

\* A statement fails, and not by a cancellation that is worth a retry.
StatementFails(r) ==
  /\ run = "running"
  /\ step[r] = "read"
  /\ faults < MaxFaults
  /\ faults' = faults + 1
  /\ Abort

\* Every reader has finished.
AllRead ==
  /\ run = "running"
  /\ \A r \in Readers : step[r] = "done"
  /\ run' = "ok"
  /\ UNCHANGED <<window, step, place, buffers, tallies, mark, waiters, written, spilled, faults>>

Init ==
  /\ plan \in Reads
  /\ width = StartWidth
  /\ step = [r \in Readers |-> "queued"]
  /\ lo = [r \in Readers |-> 0] /\ hi = lo /\ at = lo
  /\ buf = [r \in Readers |-> <<>>] /\ null_rows = buf
  /\ takes = [r \in Readers |-> 0]
  /\ mark = [r \in Readers |-> [takes |-> 0, len |-> 0, null_rows |-> 0]]
  /\ sends = [r \in Readers |-> {}]
  /\ waiters = <<>>
  /\ warned = NoBatch /\ written = NoBatch /\ spilled = {}
  /\ run = "running"
  /\ faults = 0

Read(r) ==
  \/ Start(r) \/ BeginStatement(r) \/ PushBatch(r) \/ Granted(r)
  \/ EndWindow(r) \/ EndStatement(r) \/ FinishRead(r) \/ Drained(r)
  \/ ReapFails(r)

Land(r) == \E s \in sends[r] : SendLands(r, s)

Trouble(r) ==
  \/ CancelWindow(r) \/ StatementFails(r)
  \/ \E s \in sends[r] : SendFails(r, s)

Ended == run # "running" /\ UNCHANGED vars

Next ==
  \/ \E r \in Readers : Read(r) \/ Land(r) \/ Trouble(r)
  \/ AllRead
  \/ Ended

\* The runtime polls a reader that can go on, the source sends what it has
\* (or the idle timeout ends the read) and the destination answers an insert;
\* a cancellation or a failure is owed by nobody.
Fairness ==
  /\ \A r \in UNION {DOMAIN p.batches : p \in Reads} :
       WF_vars(r \in Readers /\ Read(r)) /\ WF_vars(r \in Readers /\ Land(r))
  /\ WF_vars(AllRead)

Spec == Init /\ [][Next]_vars /\ Fairness

-----------------------------------------------------------------------------
\* Types, and what always goes together: a reader waits for memory exactly
\* when it is queued for it, once, and decodes within its statement.
ReaderTyped(r) ==
  /\ lo[r] \in 0..Len(Batches[r])
  /\ step[r] = "read" => at[r] \in lo[r]..hi[r] /\ hi[r] <= Len(Batches[r])
  /\ Range(buf[r]) \cup Range(null_rows[r]) \subseteq DOMAIN Batches[r]
  /\ \A s \in sends[r] : s.group # <<>> /\ s.take < takes[r]
  /\ run = "running" => (step[r] = "waiting" <=> r \in Range(waiters))

TypeOK ==
  /\ step \in [Readers -> {"queued", "between", "read", "waiting", "finish",
                           "drain", "done"}]
  /\ \A r \in Readers : ReaderTyped(r)
  /\ Len(waiters) = Cardinality(Range(waiters))
  /\ warned \in [Batch -> Nat] /\ written \in [Batch -> Nat]
  /\ spilled \subseteq Batch
  /\ run \in {"running", "ok", "failed"}
  /\ width \in Floor..ReadWindow /\ faults \in 0..MaxFaults

\* What memory is reserved for, in its real size: buffers and inserts.
BytesReserved ==
  SumFunction([r \in Readers |->
    Bytes(r, buf[r]) + SumFunction([s \in InFlight(r) |-> Bytes(r, s.group)])])
BatchesReserved ==
  SumFunction([r \in Readers |->
    Len(buf[r]) + SumFunction([s \in InFlight(r) |-> Len(s.group)])])

\* A reader that waits for memory has the batch it waits with decoded already.
BytesInHand == SumFunction([r \in Range(waiters) |-> SizeOf(r, at[r])])

\* What is decoded and not yet inserted.
BytesInMemory == BytesReserved + BytesInHand

Largest == Max({0} \cup {SizeOf(b[1], b[2]) : b \in Batch})

\* The ceiling of memory.rs holds over buffers and inserts of all readers
\* together, where a batch larger than it is alone.  What is decoded goes
\* beyond it by a batch per reader that waits, of which there are parallelism.
MemoryCeiling ==
  MaxMemory # 0 =>
    /\ BytesReserved <= MaxMemory \/ BatchesReserved = 1
    /\ BytesInMemory <= HigherOf(MaxMemory, Largest) + Parallelism * Largest

\* What the ceiling and the progress of readers rest on: reservations never
\* exceed the ceiling, and a reader that waits for memory holds none in its
\* buffer (push_batch sends before it waits, MemoryBudget::reserve), only the
\* batch it waits with.
MemoryInv ==
  /\ TypeOK
  /\ MaxMemory # 0 => Held <= MaxMemory
  /\ \A r \in Readers : step[r] = "waiting" => buf[r] = <<>>
  /\ MemoryCeiling

\* A run that succeeds has written every batch that NullGuard kept rows of,
\* through pressure flushes, deferred buffers, cancelled windows and inserts
\* reaped late: what run_transfer_impl promotes after the fan-out is whole.
NothingLost ==
  run = "ok" => \A b \in Batch : Batches[b[1]][b[2]].kept => written[b] > 0

\* Only a batch that memory pressure sent in a window the source then
\* cancelled is written twice (InsertBuffer::truncate, deferred).
WrittenTwiceIfSpilled == \A b \in Batch : written[b] > 1 => b \in spilled

\* The rows NullGuard leaves out or defaults are counted once in a run that
\* succeeds, however often their window was read (InsertBuffer::null_rows).
NullsCountedOnce ==
  run = "ok" =>
    \A b \in Batch : warned[b] = IF Batches[b[1]][b[2]].nulls THEN 1 ELSE 0

\* A run ends: readers that hold memory and wait for more never wait on each
\* other (push_batch sends before it waits, and reserve clamps an oversized
\* batch to the ceiling), and a sweep whose windows are cancelled again and
\* again comes to one it reads or fails on, with no count of its retries.
RunEnds == <>(run # "running")
=============================================================================
