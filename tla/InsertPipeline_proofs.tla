------------------------ MODULE InsertPipeline_proofs ------------------------
(***************************************************************************)
(* Proofs about InsertPipeline, for every read, ceiling, width and number  *)
(* of failures: PInv is an inductive invariant.  One lemma per action: what*)
(* it does to its own reader, and that no other reader notices.            *)
(***************************************************************************)
EXTENDS InsertPipelineInv, FiniteSetTheorems, SumTheorems, TLAPS

\* What the proofs need of the numbers among the constants.
LEMMA Constants ==
  /\ Parallelism \in Nat \ {0} /\ ReadWindow \in Nat \ {0}
  /\ InitialWidth \in Nat \ {0} /\ MinWidth \in Nat \ {0}
  /\ MaxMemory \in Nat /\ InsertBytes \in Nat /\ MaxFaults \in Nat
  BY PipelineConstants

\* What a read is.
LEMMA PlanFacts ==
  ASSUME plan \in Reads
  PROVE  /\ \A r \in Readers :
              /\ Len(Batches[r]) \in Nat /\ DOMAIN Batches[r] = 1..Len(Batches[r])
              /\ \A i \in DOMAIN Batches[r] : Batches[r][i].nulls \in BOOLEAN
         /\ Sweep => Readers = {1} /\ Keyed \in 1..Len(Batches[1])
<1>1. ASSUME NEW r \in Readers
      PROVE  /\ Len(Batches[r]) \in Nat /\ DOMAIN Batches[r] = 1..Len(Batches[r])
             /\ \A i \in DOMAIN Batches[r] : Batches[r][i].nulls \in BOOLEAN
  <2> DEFINE B == [size : Nat, nulls : BOOLEAN, kept : BOOLEAN]
  <2>1. Batches[r] \in Seq(B)
    BY PipelineConstants DEF Readers, Batches
  <2>2. \A b \in B : b.nulls \in BOOLEAN
    OBVIOUS
  <2> HIDE DEF B
  <2>3. /\ Len(Batches[r]) \in Nat /\ DOMAIN Batches[r] = 1..Len(Batches[r])
        /\ \A i \in 1..Len(Batches[r]) : Batches[r][i] \in B
    BY <2>1
  <2> QED BY <2>2, <2>3
<1>2. Sweep => Readers = {1} /\ Keyed \in 1..Len(Batches[1])
  BY PipelineConstants DEF Readers, Batches, Sweep, Keyed
<1> QED BY <1>1, <1>2

\* A batch is a reader and a position in what it reads.
LEMMA BatchFacts ==
  /\ \A r \in Readers : \A i \in DOMAIN Batches[r] : <<r, i>> \in Batch
  /\ \A b \in Batch : b = <<b[1], b[2]>> /\ b[1] \in Readers /\ b[2] \in DOMAIN Batches[b[1]]
  BY DEF Batch

\* The widths of windows are between the floor and the ceiling.
LEMMA Widths ==
  /\ Floor \in Nat /\ Floor >= 1 /\ StartWidth \in Floor..ReadWindow
  /\ width \in Floor..ReadWindow =>
       NextWidths \subseteq Floor..ReadWindow /\ Narrower \in Floor..ReadWindow
<1> USE Constants DEF LowerOf, HigherOf
<1>1. StartWidth \in Nat /\ StartWidth >= 1 /\ StartWidth <= ReadWindow
  BY DEF StartWidth
<1>2. StartWidth \div 64 \in Nat
  BY <1>1
<1>3. Floor \in Nat /\ Floor >= 1 /\ Floor <= StartWidth
  BY <1>1, <1>2 DEF Floor
<1>4. ASSUME width \in Floor..ReadWindow
      PROVE  NextWidths \subseteq Floor..ReadWindow
  BY <1>1, <1>3, <1>4 DEF NextWidths
<1>5. ASSUME width \in Floor..ReadWindow
      PROVE  Narrower \in Floor..ReadWindow
  <2>1. width \in Nat /\ width \div 2 \in Nat /\ width \div 2 <= width
    BY <1>3, <1>5
  <2> QED BY <1>3, <1>5, <2>1 DEF Narrower
<1> QED BY <1>1, <1>3, <1>4, <1>5

\* A statement ends within what its reader reads.
LEMMA Ends ==
  ASSUME TypeOK, Typed, NEW r \in Readers
  PROVE  StatementEnd(r) \in lo[r]..Len(Batches[r])
<1>1. /\ lo[r] \in 0..Len(Batches[r]) /\ Len(Batches[r]) \in Nat /\ width \in Nat
      /\ Sweep => r = 1 /\ Keyed \in 1..Len(Batches[r])
  BY PlanFacts, Widths, Constants DEF TypeOK, ReaderTyped, Typed
<1> QED BY <1>1 DEF StatementEnd, LowerOf

\* What is in a sequence once something is appended.
LEMMA Appended ==
  ASSUME NEW S, NEW seq \in Seq(S), NEW i \in S
  PROVE  /\ Append(seq, i) \in Seq(S)
         /\ Range(Append(seq, i)) = Range(seq) \cup {i}
         /\ Distinct(seq) /\ i \notin Range(seq) => Distinct(Append(seq, i))
<1> DEFINE app == Append(seq, i)
<1>1. /\ app \in Seq(S) /\ DOMAIN app = 1..(Len(seq) + 1) /\ Len(seq) \in Nat
      /\ app[Len(seq) + 1] = i /\ \A j \in 1..Len(seq) : app[j] = seq[j]
  OBVIOUS
<1>2. DOMAIN seq = 1..Len(seq)
  OBVIOUS
<1> HIDE DEF app
<1>3. Range(app) = Range(seq) \cup {i}
  BY <1>1, <1>2 DEF Range
<1>4. Distinct(seq) /\ i \notin Range(seq) => Distinct(app)
  BY <1>1, <1>2 DEF Range, Distinct
<1> QED BY <1>1, <1>3, <1>4 DEF app

\* What is in a sequence once it is cut.
LEMMA CutOff ==
  ASSUME NEW S, NEW seq \in Seq(S), NEW k \in 0..Len(seq)
  PROVE  /\ SubSeq(seq, 1, k) \in Seq(S) /\ Len(SubSeq(seq, 1, k)) = k
         /\ \A j \in 1..k : SubSeq(seq, 1, k)[j] = seq[j]
         /\ Range(SubSeq(seq, 1, k)) = {seq[j] : j \in 1..k}
         /\ Distinct(seq) => Distinct(SubSeq(seq, 1, k))
<1> DEFINE cut == SubSeq(seq, 1, k)
<1>1. /\ cut \in Seq(S) /\ DOMAIN cut = 1..k /\ Len(cut) = k /\ Len(seq) \in Nat
      /\ \A j \in 1..k : cut[j] = seq[j]
  OBVIOUS
<1>2. DOMAIN seq = 1..Len(seq)
  OBVIOUS
<1> HIDE DEF cut
<1>3. Range(cut) = {seq[j] : j \in 1..k}
  BY <1>1, Zenon DEF Range
<1>4. Distinct(seq) => Distinct(cut)
  BY <1>1, <1>2 DEF Distinct
<1> QED BY <1>1, <1>3, <1>4 DEF cut

\* What is in a sequence.
LEMMA RangeFacts ==
  /\ Range(<<>>) = {} /\ Distinct(<<>>)
  /\ \A seq, i : i \in Range(seq) <=> \E j \in DOMAIN seq : seq[j] = i
  BY DEF Range, Distinct

\* How often something is in a sequence.
LEMMA CountFacts ==
  ASSUME NEW seq \in Seq(Nat), NEW i
  PROVE  /\ CountIn(seq, i) \in Nat
         /\ CountIn(seq, i) > 0 <=> i \in Range(seq)
         /\ Distinct(seq) => CountIn(seq, i) = IF i \in Range(seq) THEN 1 ELSE 0
<1> DEFINE S == {j \in DOMAIN seq : seq[j] = i}
<1>1. IsFiniteSet(S) /\ Cardinality(S) \in Nat
  <2>1. IsFiniteSet(DOMAIN seq)
    BY FS_Interval
  <2> QED BY <2>1, FS_Subset, FS_CardinalityType
<1>2. Cardinality(S) = 0 <=> S = {}
  BY <1>1, FS_EmptySet
<1>3. S # {} <=> i \in Range(seq)
  BY DEF Range
<1>4. ASSUME Distinct(seq), NEW j \in S
      PROVE  S = {j}
  BY <1>4 DEF Distinct
<1>5. Distinct(seq) /\ S # {} => Cardinality(S) = 1
  BY <1>4, FS_Singleton
<1> QED BY <1>1, <1>2, <1>3, <1>5 DEF CountIn

\* What WithBatches adds.
LEMMA WithFacts ==
  ASSUME NEW count \in [Batch -> Nat], NEW r \in Readers, NEW seq \in Seq(Nat)
  PROVE  /\ WithBatches(count, r, seq) \in [Batch -> Nat]
         /\ \A q \in Readers : \A i \in DOMAIN Batches[q] :
              WithBatches(count, r, seq)[<<q, i>>]
                = count[<<q, i>>] + IF q = r THEN CountIn(seq, i) ELSE 0
<1>1. \A i : CountIn(seq, i) \in Nat
  BY CountFacts
<1>2. ASSUME NEW b \in Batch
      PROVE  count[b] + (IF b[1] = r THEN CountIn(seq, b[2]) ELSE 0) \in Nat
  BY <1>1
<1> QED BY <1>2, BatchFacts DEF WithBatches

\* Readers that are queued for memory once each are as many as the queue is
\* long.
LEMMA QueueLength ==
  ASSUME NEW S, NEW seq \in Seq(S), Distinct(seq)
  PROVE  Len(seq) = Cardinality(Range(seq))
<1>1. seq \in Bijection(1..Len(seq), Range(seq))
  BY DEF Bijection, Injection, Surjection, IsInjective, Range, Distinct
<1> QED BY <1>1, FS_CountingElements DEF ExistsBijection

\* Where KeepIn and Flush put what they are given.
LEMMA Moves ==
  ASSUME Typed, NEW r \in Readers, NEW group \in Seq(Nat),
         KeepIn(r, group) \/ Flush(r, group)
  PROVE  /\ buf' \in [Readers -> Seq(Nat)] /\ takes' \in [Readers -> Nat]
         /\ sends' \in [Readers -> SUBSET Send] /\ \A q \in Readers : IsFiniteSet(sends'[q])
         /\ \A q \in Readers : q # r =>
              buf'[q] = buf[q] /\ takes'[q] = takes[q] /\ sends'[q] = sends[q]
         /\ \/ buf'[r] = group /\ takes'[r] = takes[r] /\ sends'[r] = sends[r]
            \/ /\ group # <<>> /\ buf'[r] = <<>> /\ takes'[r] = takes[r] + 1
               /\ sends'[r] = sends[r] \cup {[take |-> takes[r], group |-> group, failed |-> FALSE]}
         /\ Flush(r, group) => buf'[r] = <<>>
<1>1. CASE KeepIn(r, group) \/ group = <<>>
  <2>1. buf' = [buf EXCEPT ![r] = group] /\ takes' = takes /\ sends' = sends
    BY <1>1 DEF KeepIn, Flush
  <2>2. Flush(r, group) => buf'[r] = <<>>
    BY <2>1 DEF Typed, Flush
  <2> QED BY <2>1, <2>2 DEF Typed
<1>2. CASE ~KeepIn(r, group) /\ group # <<>>
  <2> DEFINE new == [take |-> takes[r], group |-> group, failed |-> FALSE]
  <2>1. /\ buf' = [buf EXCEPT ![r] = <<>>] /\ takes' = [takes EXCEPT ![r] = @ + 1]
        /\ sends' = [sends EXCEPT ![r] = @ \cup {new}]
    BY <1>2 DEF Flush
  <2>2. new \in Send
    BY DEF Send, Typed
  <2>3. IsFiniteSet(sends[r] \cup {new})
    BY FS_AddElement DEF Typed
  <2> HIDE DEF new
  <2>4. sends' \in [Readers -> SUBSET Send] /\ \A q \in Readers : IsFiniteSet(sends'[q])
    BY <2>1, <2>2, <2>3 DEF Typed
  <2>5. buf' \in [Readers -> Seq(Nat)] /\ takes' \in [Readers -> Nat]
    BY <2>1 DEF Typed
  <2>6. buf'[r] = <<>> /\ takes'[r] = takes[r] + 1 /\ sends'[r] = sends[r] \cup {new}
    BY <2>1 DEF Typed
  <2>7. \A q \in Readers : q # r =>
          buf'[q] = buf[q] /\ takes'[q] = takes[q] /\ sends'[q] = sends[q]
    BY <2>1 DEF Typed
  <2> QED BY <1>2, <2>4, <2>5, <2>6, <2>7 DEF new
<1> QED BY <1>1, <1>2

\* What an action leaves alone of a reader other than its own.
Unnoticed(q) ==
  /\ step'[q] = step[q] /\ lo'[q] = lo[q] /\ hi'[q] = hi[q] /\ at'[q] = at[q]
  /\ buf'[q] = buf[q] /\ takes'[q] = takes[q] /\ sends'[q] = sends[q]
  /\ mark'[q] = mark[q] /\ null_rows'[q] = null_rows[q]
  /\ q \in Range(waiters') <=> q \in Range(waiters)
  /\ \A i \in DOMAIN Batches[q] : /\ written'[<<q, i>>] = written[<<q, i>>]
                                  /\ warned'[<<q, i>>] = warned[<<q, i>>]
                                  /\ <<q, i>> \in spilled' <=> <<q, i>> \in spilled

\* A reader whose own state stays keeps its invariant.
LEMMA UnnoticedKeeps ==
  ASSUME NEW q \in Readers, ReaderInv(q), ReaderTyped(q), Unnoticed(q), plan' = plan,
         width' = width \/ ~Sweep, run' = run
  PROVE  ReaderInv(q)' /\ ReaderTyped(q)'
<1> USE DEF Unnoticed
<1>1. Batches' = Batches /\ (Sweep' <=> Sweep) /\ Keyed' = Keyed /\ Readers' = Readers
  BY DEF Batches, Sweep, Keyed, Readers
<1>2. StatementEnd(q)' = StatementEnd(q)
  BY <1>1 DEF StatementEnd
<1>3. Decoded(q)' = Decoded(q) /\ Reached(q)' = Reached(q) /\ Counted(q)' = Counted(q)
  BY <1>1 DEF Decoded, Reached, Counted
<1>4. InStatement(q)'
  BY <1>1, <1>2, <1>3 DEF ReaderInv, InStatement
<1>5. Marked(q)'
  BY DEF ReaderInv, Marked
<1>6. Covered(q)'
  BY <1>1, <1>3 DEF ReaderInv, Covered
<1>7. InOnePlace(q)'
  BY <1>1, <1>3 DEF ReaderInv, InOnePlace
<1>8. Tallied(q)'
  BY <1>1, <1>3 DEF ReaderInv, Tallied
<1>9. ReaderTyped(q)'
  BY <1>1 DEF ReaderTyped
<1> QED BY <1>4, <1>5, <1>6, <1>7, <1>8, <1>9 DEF ReaderInv

\* What is typed but for the readers.
Shared ==
  /\ step \in [Readers -> {"queued", "between", "read", "waiting", "finish",
                           "drain", "done"}]
  /\ warned \in [Batch -> Nat] /\ written \in [Batch -> Nat]
  /\ spilled \subseteq Batch
  /\ width \in Floor..ReadWindow /\ faults \in 0..MaxFaults

\* An action of one reader keeps the invariant if it keeps that reader's.
LEMMA OneReader ==
  ASSUME PInv, run = "running", run' = run, plan' = plan, NEW r \in Readers,
         \A q \in Readers : q # r => Unnoticed(q),
         Shared', Typed', ReaderTyped(r)', ReaderInv(r)', WrittenTwiceIfSpilled'
  PROVE  PInv'
<1>1. Readers' = Readers /\ (Sweep' <=> Sweep)
  BY DEF Readers, Batches, Sweep
<1>2. ASSUME NEW q \in Readers, q # r
      PROVE  ReaderInv(q)' /\ ReaderTyped(q)'
  BY <1>2, UnnoticedKeeps, PlanFacts DEF PInv, TypeOK, Typed
<1>3. \A q \in Readers : ReaderInv(q)' /\ ReaderTyped(q)'
  BY <1>2
<1>4. Len(waiters') = Cardinality(Range(waiters'))
  BY QueueLength DEF Typed
<1>5. TypeOK'
  BY <1>1, <1>3, <1>4 DEF TypeOK, Shared
<1> QED BY <1>1, <1>3, <1>5 DEF PInv, NothingLost, NullsCountedOnce

\* What a reader buffers anew, and what it then sends, is where it was not.
LEMMA Rebuffers ==
  ASSUME PInv, run = "running", plan' = plan, NEW r \in Readers, NEW group \in Seq(Nat),
         Distinct(group), KeepIn(r, group) \/ Flush(r, group), NEW new,
         Range(group) = Range(buf[r]) \cup new,
         Reached(r) \in Nat, Reached(r)' \in Nat, Reached(r) <= Reached(r)',
         \A i \in new : i \in DOMAIN Batches[r] /\ Reached(r) < i /\ i <= Reached(r)',
         \A i \in DOMAIN Batches[r] :
           Reached(r) < i /\ i <= Reached(r)' /\ Batches[r][i].kept => i \in new,
         written' = written, spilled' = spilled
  PROVE  /\ Covered(r)' /\ InOnePlace(r)'
         /\ \A i \in Range(buf'[r]) : i \in 1..Reached(r)'
         /\ \A s \in sends'[r] : \A i \in Range(s.group) : i \in DOMAIN Batches[r]
         /\ \A s \in sends'[r] : s.group # <<>> /\ s.take < takes'[r]
         /\ Range(buf'[r]) \subseteq DOMAIN Batches[r]
<1> DEFINE sent == [take |-> takes[r], group |-> group, failed |-> FALSE]
<1>1. Batches' = Batches /\ DOMAIN Batches[r] = 1..Len(Batches[r]) /\ Len(Batches[r]) \in Nat
  BY PlanFacts DEF Batches, PInv, Typed
<1>2. \/ buf'[r] = group /\ takes'[r] = takes[r] /\ sends'[r] = sends[r]
      \/ /\ group # <<>> /\ buf'[r] = <<>> /\ takes'[r] = takes[r] + 1
         /\ sends'[r] = sends[r] \cup {sent}
  BY Moves DEF PInv
<1>3. Range(<<>>) = {} /\ Distinct(<<>>)
  BY DEF Range, Distinct
<1>4. /\ \A i \in Range(buf[r]) : i \in 1..Reached(r) /\ i \in DOMAIN Batches[r]
      /\ \A s \in sends[r] : \A i \in Range(s.group) : i \in DOMAIN Batches[r]
      /\ \A s \in sends[r] : s.group # <<>> /\ s.take < takes[r] /\ s.take \in Nat
      /\ takes[r] \in Nat
  BY DEF PInv, ReaderInv, InStatement, TypeOK, ReaderTyped, Typed, Send
<1>5. /\ \A i \in Range(group) : i \in 1..Reached(r)' /\ i \in DOMAIN Batches[r]
      /\ sent.group = group /\ sent.take = takes[r] /\ sent.failed = FALSE
  BY <1>1, <1>4
<1> HIDE DEF sent
<1>6. /\ \A i \in Range(buf'[r]) : i \in 1..Reached(r)'
      /\ \A s \in sends'[r] : \A i \in Range(s.group) : i \in DOMAIN Batches[r]
      /\ \A s \in sends'[r] : s.group # <<>> /\ s.take < takes'[r]
      /\ Range(buf'[r]) \subseteq DOMAIN Batches[r]
  BY <1>2, <1>3, <1>4, <1>5
<1>7. \A i : i \in Range(group) <=>
               i \in Range(buf'[r]) \/ (\E s \in sends'[r] \ sends[r] : i \in Range(s.group))
                 \/ (sent \in sends[r] /\ i \in Range(group))
  BY <1>2, <1>3, <1>5
<1>8. Covered(r)'
  <2>1. \A i \in DOMAIN Batches[r] : i <= Reached(r)' /\ Batches[r][i].kept =>
          i \in Range(group) \/ (\E s \in sends[r] : i \in Range(s.group)) \/ written[<<r, i>>] > 0
    BY <1>1 DEF PInv, ReaderInv, Covered
  <2>2. sends[r] \subseteq sends'[r]
    BY <1>2
  <2> QED BY <1>1, <1>2, <1>3, <1>5, <2>1, <2>2 DEF Covered
<1>9. InOnePlace(r)'
  <2>1. Distinct(buf'[r]) /\ \A s \in sends'[r] : Distinct(s.group)
    BY <1>2, <1>3, <1>5 DEF PInv, ReaderInv, InOnePlace
  <2>2. ASSUME NEW i \in DOMAIN Batches[r], <<r, i>> \notin spilled
        PROVE  /\ i > Reached(r)' \/ i \in Range(group) =>
                    written[<<r, i>>] = 0 /\ \A s \in sends[r] : i \notin Range(s.group)
               /\ \A s \in sends[r] : i \in Range(s.group) =>
                    /\ ~s.failed => written[<<r, i>>] = 0
                    /\ \A t \in sends[r] : i \in Range(t.group) => t = s
    <3>1. InOnePlace(r)
      BY DEF PInv, ReaderInv
    <3>2. i > Reached(r)' \/ i \in Range(group) => i > Reached(r) \/ i \in Range(buf[r])
      BY <1>1, <2>2
    <3> QED BY <2>2, <3>1, <3>2 DEF InOnePlace
  <2>3. \A i \in DOMAIN Batches[r] : i > Reached(r)' => i \notin Range(group)
    BY <1>1, <1>5
  <2>4. CASE buf'[r] = group /\ sends'[r] = sends[r]
    BY <1>1, <2>1, <2>2, <2>4 DEF InOnePlace
  <2>5. CASE buf'[r] = <<>> /\ sends'[r] = sends[r] \cup {sent}
    <3>1. ASSUME NEW i \in DOMAIN Batches[r], <<r, i>> \notin spilled
          PROVE  /\ i > Reached(r)' => written[<<r, i>>] = 0 /\ \A s \in sends'[r] : i \notin Range(s.group)
                 /\ \A s \in sends'[r] : i \in Range(s.group) =>
                      /\ ~s.failed => written[<<r, i>>] = 0
                      /\ \A t \in sends'[r] : i \in Range(t.group) => t = s
      BY <1>5, <2>2, <2>3, <2>5, <3>1
    <3> QED BY <1>1, <1>3, <2>1, <2>5, <3>1 DEF InOnePlace
  <2> QED BY <1>2, <2>4, <2>5
<1> QED BY <1>6, <1>8, <1>9

\* What Report counts.
LEMMA Reports ==
  ASSUME PInv, run = "running", plan' = plan, NEW r \in Readers, Report(r),
         Counted(r)' = Decoded(r), Decoded(r)' = Decoded(r),
         step'[r] \notin {"read", "waiting"}, Decoded(r) \in Nat, Counted(r) \in Nat,
         Counted(r) <= Decoded(r)
  PROVE  /\ Tallied(r)'
         /\ warned' \in [Batch -> Nat] /\ null_rows' \in [Readers -> Seq(Nat)]
         /\ null_rows'[r] = <<>> /\ Range(null_rows'[r]) = {}
         /\ \A q \in Readers : q # r =>
              /\ null_rows'[q] = null_rows[q]
              /\ \A i \in DOMAIN Batches[q] : warned'[<<q, i>>] = warned[<<q, i>>]
<1>1. Batches' = Batches /\ DOMAIN Batches[r] = 1..Len(Batches[r]) /\ Len(Batches[r]) \in Nat
  BY PlanFacts DEF Batches, PInv, Typed
<1>2. warned \in [Batch -> Nat] /\ null_rows \in [Readers -> Seq(Nat)] /\ Tallied(r)
  BY DEF PInv, TypeOK, Typed, ReaderInv
<1>3. warned' = WithBatches(warned, r, null_rows[r]) /\ null_rows' = [null_rows EXCEPT ![r] = <<>>]
  BY DEF Report
<1>4. warned' \in [Batch -> Nat]
  BY <1>2, <1>3, WithFacts
<1>5. \A q \in Readers : \A i \in DOMAIN Batches[q] :
        warned'[<<q, i>>] = warned[<<q, i>>] + IF q = r THEN CountIn(null_rows[r], i) ELSE 0
  <2>1. null_rows[r] \in Seq(Nat)
    BY <1>2
  <2>2. \A q \in Readers : \A i \in DOMAIN Batches[q] :
          WithBatches(warned, r, null_rows[r])[<<q, i>>]
            = warned[<<q, i>>] + IF q = r THEN CountIn(null_rows[r], i) ELSE 0
    BY <1>2, <2>1, WithFacts
  <2> QED BY <1>3, <2>2
<1>6. \A i : CountIn(null_rows[r], i) = IF i \in Range(null_rows[r]) THEN 1 ELSE 0
  BY <1>2, CountFacts DEF Tallied
<1>7. null_rows'[r] = <<>> /\ Range(<<>>) = {} /\ Distinct(<<>>)
  BY <1>2, <1>3 DEF Range, Distinct
<1>8. \A i \in DOMAIN Batches[r] :
        warned'[<<r, i>>] = IF Batches[r][i].nulls /\ i <= Counted(r)' THEN 1 ELSE 0
  BY <1>1, <1>2, <1>5, <1>6 DEF Tallied
<1>9. Tallied(r)'
  BY <1>1, <1>7, <1>8 DEF Tallied
<1>10. \A q \in Readers : \A i \in DOMAIN Batches[q] : warned[<<q, i>>] \in Nat
  BY <1>2, BatchFacts
<1> QED BY <1>2, <1>3, <1>4, <1>5, <1>7, <1>9, <1>10

\* A reader starts.
LEMMA StartKeeps ==
  ASSUME PInv, NEW r \in Readers, Start(r)
  PROVE  PInv'
<1> USE DEF Start, Goto, window, place, buffers, tallies
<1>1. /\ run = "running" /\ step[r] = "queued" /\ step'[r] = "between"
      /\ ReaderInv(r) /\ ReaderTyped(r)
      /\ step \in [Readers -> {"queued", "between", "read", "waiting", "finish", "drain", "done"}]
  BY DEF PInv, TypeOK
<1>2. Batches' = Batches /\ (Sweep' <=> Sweep) /\ Readers' = Readers
  BY DEF Batches, Sweep, Readers
<1>3. Decoded(r) = lo[r] /\ Decoded(r)' = lo[r]
  BY <1>1 DEF Decoded
<1>4. Reached(r)' = Reached(r) /\ Counted(r)' = Counted(r)
  BY <1>1, <1>2, <1>3 DEF Reached, Counted
<1>5. Shared' /\ Typed'
  <2>1. Typed'
    BY <1>2 DEF PInv, Typed
  <2>2. Shared'
    BY <1>1, <1>2 DEF PInv, TypeOK, Shared, Batch, Floor, StartWidth
  <2> QED BY <2>1, <2>2
<1>6. ReaderTyped(r)'
  BY <1>1, <1>2 DEF ReaderTyped
<1>7. ReaderInv(r)'
  BY <1>1, <1>2, <1>3, <1>4 DEF ReaderInv, InStatement, Marked, Covered, InOnePlace, Tallied
<1>8. \A q \in Readers : q # r => Unnoticed(q)
  BY <1>1 DEF Unnoticed
<1>9. WrittenTwiceIfSpilled'
  BY <1>2 DEF PInv, WrittenTwiceIfSpilled, Batch
<1> QED BY <1>1, <1>5, <1>6, <1>7, <1>8, <1>9, OneReader

\* A statement begins: the mark is at the end of what is buffered.
LEMMA BeginStatementKeeps ==
  ASSUME PInv, NEW r \in Readers, BeginStatement(r)
  PROVE  PInv'
<1> USE DEF BeginStatement, Goto, window, buffers, tallies
<1>1. /\ run = "running" /\ step[r] = "between" /\ step'[r] = "read"
      /\ ReaderInv(r) /\ ReaderTyped(r) /\ Typed
      /\ step \in [Readers -> {"queued", "between", "read", "waiting", "finish", "drain", "done"}]
  BY DEF PInv, TypeOK
<1>2. /\ Batches' = Batches /\ (Sweep' <=> Sweep) /\ Readers' = Readers /\ Keyed' = Keyed
      /\ StatementEnd(r)' = StatementEnd(r)
  BY DEF Batches, Sweep, Readers, Keyed, StatementEnd
<1>3. /\ lo'[r] = lo[r] /\ at'[r] = lo[r] /\ hi'[r] = StatementEnd(r)
      /\ mark'[r] = [takes |-> takes[r], len |-> Len(buf[r]), null_rows |-> Len(null_rows[r])]
      /\ buf' = buf /\ sends' = sends /\ takes' = takes /\ null_rows' = null_rows
  BY <1>1 DEF Typed
<1>4. /\ lo[r] \in Nat /\ StatementEnd(r) \in lo[r]..Len(Batches[r]) /\ Len(Batches[r]) \in Nat
  BY <1>1, Ends, PlanFacts DEF PInv, Typed
<1>5. Decoded(r) = lo[r] /\ Decoded(r)' = lo[r] /\ Reached(r) = lo[r] /\ Reached(r)' = lo[r]
      /\ Counted(r)' = Counted(r)
  BY <1>1, <1>2, <1>3 DEF Decoded, Reached, Counted
<1>6. buf[r] \in Seq(Nat) /\ null_rows[r] \in Seq(Nat) /\ takes[r] \in Nat
  BY <1>1 DEF Typed
<1>7. mark' \in [Readers -> Mark]
  BY <1>1, <1>6 DEF Typed, Mark
<1>8. hi' \in [Readers -> Nat] /\ at' \in [Readers -> Nat]
  BY <1>1, <1>4 DEF Typed
<1>9. Shared' /\ Typed'
  <2>1. Typed'
    BY <1>1, <1>2, <1>7, <1>8 DEF Typed
  <2>2. Shared'
    BY <1>1, <1>2 DEF PInv, TypeOK, Shared, Batch, Floor, StartWidth
  <2> QED BY <2>1, <2>2
<1>10. ReaderTyped(r)'
  BY <1>1, <1>2, <1>3, <1>4 DEF ReaderTyped
<1>11. InStatement(r)'
  BY <1>1, <1>2, <1>3, <1>4, <1>5 DEF ReaderInv, InStatement
<1>12. Marked(r)'
  <2>1. \A j \in DOMAIN buf[r] : j <= Len(buf[r]) /\ buf[r][j] <= lo[r]
    BY <1>1, <1>5, <1>6, RangeFacts DEF ReaderInv, InStatement
  <2> QED BY <1>3, <1>6, <2>1 DEF Marked
<1>13. Covered(r)' /\ InOnePlace(r)'
  BY <1>1, <1>2, <1>3, <1>5 DEF ReaderInv, Covered, InOnePlace
<1>14. Tallied(r)'
  <2>1. Range(null_rows[r]) = {} /\ Len(null_rows[r]) = 0
    <3>1. Range(null_rows[r]) = {}
      BY <1>1, <1>4, <1>5 DEF ReaderInv, Tallied, Counted
    <3>2. Len(null_rows[r]) > 0 => null_rows[r][1] \in Range(null_rows[r])
      BY <1>6 DEF Range
    <3> QED BY <1>6, <3>1, <3>2
  <2> QED BY <1>1, <1>2, <1>3, <1>5, <2>1 DEF ReaderInv, Tallied
<1>15. \A q \in Readers : q # r => Unnoticed(q)
  BY <1>1 DEF Unnoticed, Typed
<1>16. WrittenTwiceIfSpilled'
  BY <1>2 DEF PInv, WrittenTwiceIfSpilled, Batch
<1>17. ReaderInv(r)'
  BY <1>11, <1>12, <1>13, <1>14 DEF ReaderInv
<1> QED BY <1>1, <1>9, <1>10, <1>15, <1>16, <1>17, OneReader

\* The end of the last statement ends the read.
LEMMA EndStatementKeeps ==
  ASSUME PInv, NEW r \in Readers, EndStatement(r)
  PROVE  PInv'
<1> USE DEF EndStatement, Goto, window, place, buffers, tallies
<1>1. /\ run = "running" /\ step[r] = "read" /\ step'[r] = "finish"
      /\ ReaderInv(r) /\ ReaderTyped(r)
      /\ step \in [Readers -> {"queued", "between", "read", "waiting", "finish", "drain", "done"}]
  BY DEF PInv, TypeOK
<1>2. Batches' = Batches /\ (Sweep' <=> Sweep) /\ Readers' = Readers
  BY DEF Batches, Sweep, Readers
<1>3. at[r] = Len(Batches[r])
  BY <1>1 DEF ReaderInv, InStatement, StatementEnd
<1>4. Decoded(r)' = Decoded(r)
  BY <1>1, <1>2, <1>3 DEF Decoded
<1>5. Reached(r)' = Reached(r) /\ Counted(r)' = Counted(r)
  BY <1>1, <1>2, <1>4 DEF Reached, Counted
<1>6. Shared' /\ Typed'
  <2>1. Typed'
    BY <1>2 DEF PInv, Typed
  <2>2. Shared'
    BY <1>1, <1>2 DEF PInv, TypeOK, Shared, Batch, Floor, StartWidth
  <2> QED BY <2>1, <2>2
<1>7. ReaderTyped(r)'
  BY <1>1, <1>2 DEF ReaderTyped
<1>8. ReaderInv(r)'
  BY <1>1, <1>2, <1>4, <1>5 DEF ReaderInv, InStatement, Marked, Covered, InOnePlace, Tallied
<1>9. \A q \in Readers : q # r => Unnoticed(q)
  BY <1>1 DEF Unnoticed
<1>10. WrittenTwiceIfSpilled'
  BY <1>2 DEF PInv, WrittenTwiceIfSpilled, Batch
<1> QED BY <1>1, <1>6, <1>7, <1>8, <1>9, <1>10, OneReader

\* A reader whose inserts have ended is done.
LEMMA DrainedKeeps ==
  ASSUME PInv, NEW r \in Readers, Drained(r)
  PROVE  PInv'
<1> USE DEF Drained, Goto, window, place, buffers, tallies
<1>1. /\ run = "running" /\ step[r] = "drain" /\ step'[r] = "done" /\ sends[r] = {}
      /\ ReaderInv(r) /\ ReaderTyped(r)
      /\ step \in [Readers -> {"queued", "between", "read", "waiting", "finish", "drain", "done"}]
  BY DEF PInv, TypeOK
<1>2. Batches' = Batches /\ (Sweep' <=> Sweep) /\ Readers' = Readers
  BY DEF Batches, Sweep, Readers
<1>3. Decoded(r)' = Decoded(r)
  BY <1>1, <1>2 DEF Decoded
<1>4. Reached(r)' = Reached(r) /\ Counted(r)' = Counted(r)
  BY <1>1, <1>2, <1>3 DEF Reached, Counted
<1>5. Shared' /\ Typed'
  <2>1. Typed'
    BY <1>2 DEF PInv, Typed
  <2>2. Shared'
    BY <1>1, <1>2 DEF PInv, TypeOK, Shared, Batch, Floor, StartWidth
  <2> QED BY <2>1, <2>2
<1>6. ReaderTyped(r)'
  BY <1>1, <1>2 DEF ReaderTyped
<1>7. ReaderInv(r)'
  BY <1>1, <1>2, <1>3, <1>4 DEF ReaderInv, InStatement, Marked, Covered, InOnePlace, Tallied
<1>8. \A q \in Readers : q # r => Unnoticed(q)
  BY <1>1 DEF Unnoticed
<1>9. WrittenTwiceIfSpilled'
  BY <1>2 DEF PInv, WrittenTwiceIfSpilled, Batch
<1> QED BY <1>1, <1>5, <1>6, <1>7, <1>8, <1>9, OneReader

\* Every reader is done: what was kept is written, what was tallied is counted.
LEMMA AllReadKeeps ==
  ASSUME PInv, AllRead
  PROVE  PInv'
<1> USE DEF AllRead, window, place, buffers, tallies
<1>1. run = "running" /\ run' = "ok" /\ \A r \in Readers : ReaderInv(r) /\ step[r] = "done"
  BY DEF PInv
<1>2. Batches' = Batches /\ Readers' = Readers
  BY DEF Batches, Readers
<1>3. TypeOK' /\ Typed'
  <2>1. Typed'
    BY <1>2 DEF PInv, Typed
  <2>2. ASSUME NEW r \in Readers
        PROVE  ReaderTyped(r)'
    <3>1. ReaderTyped(r)
      BY DEF PInv, TypeOK
    <3> QED BY <1>1, <1>2, <3>1 DEF ReaderTyped
  <2>3. /\ step' = step /\ waiters' = waiters /\ run' \in {"running", "ok", "failed"}
        /\ (warned' \in [Batch' -> Nat] <=> warned \in [Batch -> Nat])
        /\ (written' \in [Batch' -> Nat] <=> written \in [Batch -> Nat])
        /\ (spilled' \subseteq Batch' <=> spilled \subseteq Batch)
        /\ (width' \in Floor'..ReadWindow <=> width \in Floor..ReadWindow) /\ faults' = faults
    BY <1>1, <1>2 DEF Batch, Floor, StartWidth
  <2> QED BY <1>2, <2>1, <2>2, <2>3 DEF PInv, TypeOK
<1>4. ASSUME NEW r \in Readers, NEW i \in DOMAIN Batches[r]
      PROVE  /\ Batches[r][i].kept => written[<<r, i>>] > 0
             /\ warned[<<r, i>>] = IF Batches[r][i].nulls THEN 1 ELSE 0
  <2>1. Decoded(r) = Len(Batches[r]) /\ Reached(r) = Len(Batches[r])
        /\ Counted(r) = Len(Batches[r]) /\ i <= Len(Batches[r])
    BY <1>1, PlanFacts DEF Decoded, Reached, Counted, PInv, Typed
  <2>2. buf[r] = <<>> /\ sends[r] = {} /\ Range(<<>>) = {}
    BY <1>1 DEF ReaderInv, InStatement, Range
  <2> QED BY <1>1, <2>1, <2>2 DEF ReaderInv, Covered, Tallied
<1>5. NothingLost' /\ NullsCountedOnce'
  <2>1. \A b \in Batch : /\ Batches[b[1]][b[2]].kept => written[b] > 0
                         /\ warned[b] = IF Batches[b[1]][b[2]].nulls THEN 1 ELSE 0
    BY <1>4, BatchFacts
  <2>2. Batch' = Batch
    BY <1>2 DEF Batch
  <2> QED BY <1>2, <2>1, <2>2 DEF NothingLost, NullsCountedOnce
<1>6. WrittenTwiceIfSpilled'
  BY <1>2 DEF PInv, WrittenTwiceIfSpilled, Batch
<1> QED BY <1>1, <1>3, <1>5, <1>6 DEF PInv

\* The mark of a window stays true as batches of the window join the buffer
\* or the buffer is sent.
LEMMA MarkStays ==
  ASSUME Typed, NEW r \in Readers, Marked(r), step[r] \in {"read", "waiting"},
         NEW group \in Seq(Nat), KeepIn(r, group) \/ Flush(r, group),
         \/ group = buf[r]
         \/ \E i \in Nat : group = Append(buf[r], i) /\ lo[r] < i,
         lo' = lo, mark' = mark
  PROVE  Marked(r)'
<1>1. /\ buf[r] \in Seq(Nat) /\ mark[r].takes \in Nat /\ mark[r].len \in Nat
      /\ takes[r] \in Nat /\ lo[r] \in Nat
  BY DEF Typed, Mark
<1>2. IF mark[r].takes = takes[r]
      THEN /\ mark[r].len <= Len(group)
           /\ \A j \in DOMAIN group : j <= mark[r].len <=> group[j] <= lo[r]
      ELSE \A j \in DOMAIN group : group[j] > lo[r]
  <2>1. CASE group = buf[r]
    BY <2>1 DEF Marked
  <2>2. ASSUME NEW i \in Nat, group = Append(buf[r], i), lo[r] < i
        PROVE  IF mark[r].takes = takes[r]
               THEN /\ mark[r].len <= Len(group)
                    /\ \A j \in DOMAIN group : j <= mark[r].len <=> group[j] <= lo[r]
               ELSE \A j \in DOMAIN group : group[j] > lo[r]
    <3>1. /\ Len(group) = Len(buf[r]) + 1 /\ DOMAIN group = 1..(Len(buf[r]) + 1)
          /\ Len(buf[r]) \in Nat /\ group[Len(buf[r]) + 1] = i
          /\ DOMAIN buf[r] = 1..Len(buf[r])
          /\ \A j \in 1..Len(buf[r]) : group[j] = buf[r][j]
      BY <1>1, <2>2
    <3>2. \A j \in DOMAIN group : j = Len(buf[r]) + 1 \/ j \in DOMAIN buf[r]
      BY <3>1
    <3>3. CASE mark[r].takes = takes[r]
      BY <1>1, <2>2, <3>1, <3>2, <3>3 DEF Marked
    <3>4. CASE mark[r].takes # takes[r]
      BY <1>1, <2>2, <3>1, <3>2, <3>4 DEF Marked
    <3> QED BY <3>3, <3>4
  <2> QED BY <2>1, <2>2
<1>3. \/ buf'[r] = group /\ takes'[r] = takes[r]
      \/ buf'[r] = <<>> /\ takes'[r] = takes[r] + 1
  BY Moves
<1>4. mark[r].takes <= takes[r]
  BY DEF Marked
<1>5. CASE buf'[r] = group /\ takes'[r] = takes[r]
  BY <1>1, <1>2, <1>4, <1>5 DEF Marked
<1>6. CASE buf'[r] = <<>> /\ takes'[r] = takes[r] + 1
  BY <1>1, <1>4, <1>6 DEF Marked
<1> QED BY <1>3, <1>5, <1>6

\* A batch joins the buffer of the reader that has reached it.
LEMMA PushMoves ==
  ASSUME PInv, run = "running", plan' = plan, NEW r \in Readers, NEW i \in DOMAIN Batches[r],
         Push(r, i), Reached(r) = i - 1, Reached(r)' = i, lo[r] < i,
         step[r] \in {"read", "waiting"}, lo' = lo, mark' = mark,
         written' = written, spilled' = spilled
  PROVE  /\ Covered(r)' /\ InOnePlace(r)' /\ Marked(r)'
         /\ \A k \in Range(buf'[r]) : k \in 1..i
         /\ \A s \in sends'[r] : \A k \in Range(s.group) : k \in DOMAIN Batches[r]
         /\ \A s \in sends'[r] : s.group # <<>> /\ s.take < takes'[r]
         /\ Range(buf'[r]) \subseteq DOMAIN Batches[r]
         /\ buf' \in [Readers -> Seq(Nat)] /\ takes' \in [Readers -> Nat]
         /\ sends' \in [Readers -> SUBSET Send] /\ \A q \in Readers : IsFiniteSet(sends'[q])
         /\ \A q \in Readers : q # r =>
              buf'[q] = buf[q] /\ takes'[q] = takes[q] /\ sends'[q] = sends[q]
<1> DEFINE group == Append(buf[r], i)
<1>1. Typed /\ ReaderInv(r) /\ buf[r] \in Seq(Nat) /\ i \in Nat /\ i >= 1
  BY PlanFacts DEF PInv, Typed
<1>2. KeepIn(r, group) \/ Flush(r, group)
  BY DEF Push
<1>3. i \notin Range(buf[r])
  BY <1>1 DEF ReaderInv, InStatement
<1>4. group \in Seq(Nat) /\ Range(group) = Range(buf[r]) \cup {i} /\ Distinct(group)
  <2>1. Distinct(buf[r])
    BY <1>1 DEF ReaderInv, InOnePlace
  <2>2. /\ Append(buf[r], i) \in Seq(Nat) /\ Range(Append(buf[r], i)) = Range(buf[r]) \cup {i}
        /\ Distinct(buf[r]) /\ i \notin Range(buf[r]) => Distinct(Append(buf[r], i))
    BY <1>1, Appended
  <2> QED BY <1>3, <2>1, <2>2
<1>5. Marked(r)'
  <2>1. \E k \in Nat : group = Append(buf[r], k) /\ lo[r] < k
    BY <1>1
  <2> HIDE DEF group
  <2> QED BY <1>1, <1>2, <1>4, <2>1, MarkStays DEF ReaderInv
<1> HIDE DEF group
<1>6. \A k \in DOMAIN Batches[r] : i - 1 < k /\ k <= i => k = i
  BY <1>1, PlanFacts DEF Typed
<1>7. /\ Covered(r)' /\ InOnePlace(r)'
      /\ \A k \in Range(buf'[r]) : k \in 1..Reached(r)'
      /\ \A s \in sends'[r] : \A k \in Range(s.group) : k \in DOMAIN Batches[r]
      /\ \A s \in sends'[r] : s.group # <<>> /\ s.take < takes'[r]
      /\ Range(buf'[r]) \subseteq DOMAIN Batches[r]
  <2> DEFINE new == {i}
  <2>1. /\ Range(group) = Range(buf[r]) \cup new
        /\ Reached(r) \in Nat /\ Reached(r)' \in Nat /\ Reached(r) <= Reached(r)'
        /\ \A k \in new : k \in DOMAIN Batches[r] /\ Reached(r) < k /\ k <= Reached(r)'
    BY <1>1, <1>4
  <2>2. \A k \in DOMAIN Batches[r] :
           Reached(r) < k /\ k <= Reached(r)' /\ Batches[r][k].kept => k \in new
    BY <1>6
  <2> HIDE DEF new
  <2> QED BY <1>2, <1>4, <2>1, <2>2, Rebuffers
<1>8. /\ buf' \in [Readers -> Seq(Nat)] /\ takes' \in [Readers -> Nat]
      /\ sends' \in [Readers -> SUBSET Send] /\ \A q \in Readers : IsFiniteSet(sends'[q])
      /\ \A q \in Readers : q # r =>
           buf'[q] = buf[q] /\ takes'[q] = takes[q] /\ sends'[q] = sends[q]
  BY <1>1, <1>2, <1>4, Moves
<1> QED BY <1>5, <1>7, <1>8

\* A reader sends what it has buffered, or nothing of it.
LEMMA FlushMoves ==
  ASSUME PInv, run = "running", plan' = plan, NEW r \in Readers,
         KeepIn(r, buf[r]) \/ Flush(r, buf[r]), Reached(r) \in Nat, Reached(r)' = Reached(r),
         written' = written, spilled' = spilled
  PROVE  /\ Covered(r)' /\ InOnePlace(r)'
         /\ \A k \in Range(buf'[r]) : k \in 1..Reached(r)
         /\ \A s \in sends'[r] : \A k \in Range(s.group) : k \in DOMAIN Batches[r]
         /\ \A s \in sends'[r] : s.group # <<>> /\ s.take < takes'[r]
         /\ Range(buf'[r]) \subseteq DOMAIN Batches[r]
         /\ buf' \in [Readers -> Seq(Nat)] /\ takes' \in [Readers -> Nat]
         /\ sends' \in [Readers -> SUBSET Send] /\ \A q \in Readers : IsFiniteSet(sends'[q])
         /\ \A q \in Readers : q # r =>
              buf'[q] = buf[q] /\ takes'[q] = takes[q] /\ sends'[q] = sends[q]
         /\ Flush(r, buf[r]) => buf'[r] = <<>>
<1>1. Typed /\ ReaderInv(r) /\ buf[r] \in Seq(Nat)
  BY DEF PInv, Typed
<1> DEFINE group == buf[r]
           new == {}
<1>2. /\ group \in Seq(Nat) /\ Distinct(group) /\ Range(group) = Range(buf[r]) \cup new
      /\ KeepIn(r, group) \/ Flush(r, group)
  BY <1>1 DEF ReaderInv, InOnePlace
<1>3. /\ \A k \in new : k \in DOMAIN Batches[r] /\ Reached(r) < k /\ k <= Reached(r)'
      /\ Reached(r) \in Nat /\ Reached(r)' \in Nat /\ Reached(r) <= Reached(r)'
  OBVIOUS
<1>4. \A k \in DOMAIN Batches[r] :
         Reached(r) < k /\ k <= Reached(r)' /\ Batches[r][k].kept => k \in new
  BY <1>1, PlanFacts DEF Typed
<1>5. Range(group) = Range(buf[r])
  OBVIOUS
<1> HIDE DEF new
<1>6. /\ Covered(r)' /\ InOnePlace(r)'
      /\ \A k \in Range(buf'[r]) : k \in 1..Reached(r)'
      /\ \A s \in sends'[r] : \A k \in Range(s.group) : k \in DOMAIN Batches[r]
      /\ \A s \in sends'[r] : s.group # <<>> /\ s.take < takes'[r]
      /\ Range(buf'[r]) \subseteq DOMAIN Batches[r]
  <2> HIDE DEF group
  <2> QED BY <1>2, <1>3, <1>4, Rebuffers
<1>7. /\ buf' \in [Readers -> Seq(Nat)] /\ takes' \in [Readers -> Nat]
      /\ sends' \in [Readers -> SUBSET Send] /\ \A q \in Readers : IsFiniteSet(sends'[q])
      /\ \A q \in Readers : q # r =>
           buf'[q] = buf[q] /\ takes'[q] = takes[q] /\ sends'[q] = sends[q]
      /\ Flush(r, buf[r]) => buf'[r] = <<>>
  BY <1>1, Moves
<1> QED BY <1>6, <1>7

\* What joins the tallies when a batch is decoded.
LEMMA TallyMoves ==
  ASSUME PInv, run = "running", plan' = plan, NEW r \in Readers, NEW i \in DOMAIN Batches[r],
         Tally(r, i), Decoded(r) = i - 1, Decoded(r)' = i, lo[r] < i,
         step[r] = "read", step'[r] \in {"read", "waiting"}, lo' = lo, mark' = mark
  PROVE  /\ Tallied(r)' /\ Range(null_rows'[r]) \subseteq DOMAIN Batches[r]
         /\ warned' \in [Batch -> Nat] /\ null_rows' \in [Readers -> Seq(Nat)]
         /\ \A q \in Readers : q # r =>
              /\ null_rows'[q] = null_rows[q]
              /\ \A k \in DOMAIN Batches[q] : warned'[<<q, k>>] = warned[<<q, k>>]
<1>1. /\ Batches' = Batches /\ (Sweep' <=> Sweep)
      /\ DOMAIN Batches[r] = 1..Len(Batches[r]) /\ Len(Batches[r]) \in Nat
      /\ i \in Nat /\ i >= 1 /\ lo[r] \in Nat /\ Batches[r][i].nulls \in BOOLEAN
  BY PlanFacts DEF Batches, Sweep, PInv, Typed
<1>2. /\ warned \in [Batch -> Nat] /\ null_rows \in [Readers -> Seq(Nat)] /\ Tallied(r)
      /\ null_rows[r] \in Seq(Nat)
  BY DEF PInv, TypeOK, Typed, ReaderInv
<1>3. Counted(r) = (IF ~Sweep THEN i - 1 ELSE lo[r]) /\ Counted(r)' = (IF ~Sweep THEN i ELSE lo[r])
  BY <1>1 DEF Counted
<1>4. \A q \in Readers : \A k \in DOMAIN Batches[q] : warned[<<q, k>>] \in Nat
  BY <1>2, BatchFacts
<1>5. CASE ~Batches[r][i].nulls
  <2>1. null_rows' = null_rows /\ warned' = warned
    BY <1>5 DEF Tally, tallies
  <2>2. Tallied(r)'
    BY <1>1, <1>2, <1>3, <1>5, <2>1 DEF Tallied
  <2>3. Range(null_rows[r]) \subseteq DOMAIN Batches[r]
    BY <1>2 DEF Tallied
  <2> QED BY <1>2, <2>1, <2>2, <2>3
<1>6. CASE Batches[r][i].nulls /\ Sweep
  <2>1. null_rows' = [null_rows EXCEPT ![r] = Append(@, i)] /\ warned' = warned
    BY <1>6 DEF Tally
  <2>2. /\ Append(null_rows[r], i) \in Seq(Nat)
        /\ Range(Append(null_rows[r], i)) = Range(null_rows[r]) \cup {i}
        /\ Distinct(null_rows[r]) /\ i \notin Range(null_rows[r]) => Distinct(Append(null_rows[r], i))
    BY <1>1, <1>2, Appended
  <2>3. i \notin Range(null_rows[r])
    BY <1>1, <1>2 DEF Tallied
  <2>4. null_rows'[r] = Append(null_rows[r], i) /\ null_rows' \in [Readers -> Seq(Nat)]
    BY <1>2, <2>1, <2>2
  <2>5. Range(null_rows'[r]) = {k \in DOMAIN Batches[r] : /\ Counted(r)' < k /\ k <= i
                                                        /\ Batches[r][k].nulls}
    BY <1>1, <1>2, <1>3, <1>6, <2>2, <2>4 DEF Tallied
  <2>6. Tallied(r)'
    BY <1>1, <1>2, <1>3, <1>6, <2>1, <2>2, <2>3, <2>4, <2>5 DEF Tallied
  <2> QED BY <1>2, <2>1, <2>4, <2>5, <2>6
<1>7. CASE Batches[r][i].nulls /\ ~Sweep
  <2>1. null_rows' = null_rows /\ warned' = WithBatches(warned, r, <<i>>)
    BY <1>7 DEF Tally
  <2>2. <<i>> \in Seq(Nat) /\ Distinct(<<i>>) /\ \A k : k \in Range(<<i>>) <=> k = i
    BY <1>1 DEF Distinct, Range
  <2>3. \A k : CountIn(<<i>>, k) = IF k = i THEN 1 ELSE 0
    BY <2>2, CountFacts
  <2>4. warned' \in [Batch -> Nat]
    BY <1>2, <2>1, <2>2, WithFacts
  <2>5. \A q \in Readers : \A k \in DOMAIN Batches[q] :
          warned'[<<q, k>>] = warned[<<q, k>>] + IF q = r THEN CountIn(<<i>>, k) ELSE 0
    <3> DEFINE seq == <<i>>
    <3>1. seq \in Seq(Nat)
      BY <2>2
    <3> HIDE DEF seq
    <3>2. \A q \in Readers : \A k \in DOMAIN Batches[q] :
            WithBatches(warned, r, seq)[<<q, k>>] = warned[<<q, k>>] + IF q = r THEN CountIn(seq, k) ELSE 0
      BY <1>2, <3>1, WithFacts
    <3> QED BY <2>1, <3>2 DEF seq
  <2>6. \A k \in DOMAIN Batches[r] :
          warned'[<<r, k>>] = IF Batches[r][k].nulls /\ k <= i THEN 1 ELSE 0
    <3> TAKE k \in DOMAIN Batches[r]
    <3>1. warned[<<r, k>>] = IF Batches[r][k].nulls /\ k <= i - 1 THEN 1 ELSE 0
      BY <1>2, <1>3, <1>7 DEF Tallied
    <3>2. warned'[<<r, k>>] = warned[<<r, k>>] + IF k = i THEN 1 ELSE 0
      BY <2>3, <2>5
    <3>3. k \in Nat
      BY <1>1
    <3> QED BY <1>1, <1>7, <3>1, <3>2, <3>3
  <2>7. Range(null_rows[r]) = {}
    BY <1>1, <1>2, <1>3, <1>7 DEF Tallied
  <2>8. Tallied(r)'
    <3>1. Distinct(null_rows'[r]) /\ Range(null_rows'[r]) = {} /\ mark'[r].null_rows = 0
      BY <1>2, <2>1, <2>7 DEF Tallied
    <3>2. \A k \in DOMAIN Batches[r] : ~(Counted(r)' < k /\ k <= i)
      BY <1>1, <1>3, <1>7
    <3>3. \A k \in DOMAIN Batches[r] :
            warned'[<<r, k>>] = IF Batches[r][k].nulls /\ k <= Counted(r)' THEN 1 ELSE 0
      BY <1>3, <1>7, <2>6
    <3> QED BY <1>1, <3>1, <3>2, <3>3 DEF Tallied
  <2>9. \A q \in Readers : q # r => \A k \in DOMAIN Batches[q] : warned'[<<q, k>>] = warned[<<q, k>>]
    BY <1>4, <2>5
  <2> QED BY <1>2, <2>1, <2>4, <2>7, <2>8, <2>9
<1> QED BY <1>1, <1>5, <1>6, <1>7

\* A batch is decoded, and left out, buffered or waits for memory.
LEMMA PushBatchKeeps ==
  ASSUME PInv, NEW r \in Readers, PushBatch(r)
  PROVE  PInv'
<1> DEFINE i == at[r] + 1
<1>1. /\ run = "running" /\ run' = "running" /\ step[r] = "read" /\ at[r] < hi[r]
      /\ at' = [at EXCEPT ![r] = @ + 1] /\ plan' = plan /\ width' = width /\ lo' = lo /\ hi' = hi
      /\ mark' = mark /\ written' = written /\ spilled' = spilled /\ faults' = faults
  BY DEF PushBatch, window
<1>2. ReaderInv(r) /\ ReaderTyped(r) /\ Typed
  BY <1>1 DEF PInv, TypeOK
<1>3. /\ Batches' = Batches /\ (Sweep' <=> Sweep) /\ Readers' = Readers /\ Keyed' = Keyed
      /\ StatementEnd(r)' = StatementEnd(r)
  BY <1>1 DEF Batches, Sweep, Readers, Keyed, StatementEnd
<1>4. /\ DOMAIN Batches[r] = 1..Len(Batches[r]) /\ Len(Batches[r]) \in Nat
      /\ lo[r] \in Nat /\ at[r] \in Nat /\ hi[r] \in Nat /\ takes[r] \in Nat
  BY <1>2, PlanFacts DEF Typed
<1>5. /\ hi[r] = StatementEnd(r) /\ lo[r] <= at[r] /\ hi[r] <= Len(Batches[r])
  BY <1>1, <1>2, <1>4 DEF ReaderInv, InStatement, ReaderTyped
<1>6. /\ at'[r] = i /\ \A q \in Readers : q # r => at'[q] = at[q]
      /\ at' \in [Readers -> Nat]
  BY <1>1, <1>2, <1>4 DEF Typed
<1>7. i \in DOMAIN Batches[r] /\ i \in Nat /\ lo[r] < i /\ i <= hi[r]
  BY <1>1, <1>4, <1>5
<1>8. Tally(r, i)
  BY <1>6 DEF PushBatch
<1> HIDE DEF i
<1>9. i - 1 = at[r]
  BY <1>4 DEF i
<1>10. Decoded(r) = i - 1 /\ Reached(r) = i - 1
  BY <1>1, <1>9 DEF Decoded, Reached
<1>11. /\ step'[r] = "read" => Decoded(r)' = i /\ Reached(r)' = i
       /\ step'[r] = "waiting" => Decoded(r)' = i /\ Reached(r)' = Reached(r)
  BY <1>6, <1>10 DEF Decoded, Reached
<1>12. step \in [Readers -> {"queued", "between", "read", "waiting", "finish", "drain", "done"}]
  BY DEF PInv, TypeOK
<1>13. waiters \in Seq(Readers) /\ Distinct(waiters) /\ r \notin Range(waiters)
  BY <1>1, <1>2 DEF Typed, ReaderTyped
<1> DEFINE Left == /\ ~Batches[r][i].kept
                   /\ UNCHANGED <<buffers, step, waiters>>
           Taken == /\ Batches[r][i].kept /\ Push(r, i)
                    /\ UNCHANGED <<step, waiters>>
           Waits == /\ Batches[r][i].kept /\ Flush(r, buf[r])
                    /\ waiters' = Append(waiters, r)
                    /\ step' = [step EXCEPT ![r] = "waiting"]
<1>14. Left \/ Taken \/ Waits
  BY <1>6 DEF PushBatch, MakeRoom, Goto
<1>15. /\ step' \in [Readers -> {"queued", "between", "read", "waiting", "finish", "drain", "done"}]
       /\ \A q \in Readers : q # r => step'[q] = step[q]
       /\ step'[r] \in {"read", "waiting"}
       /\ step'[r] = "waiting" => Waits
  BY <1>1, <1>12, <1>14
<1>16. /\ waiters' \in Seq(Readers) /\ Distinct(waiters')
       /\ \A q \in Readers : q # r => (q \in Range(waiters') <=> q \in Range(waiters))
       /\ step'[r] = "waiting" <=> r \in Range(waiters')
  <2>1. CASE Left \/ Taken
    BY <1>1, <1>13, <2>1
  <2>2. CASE Waits
    <3>1. /\ waiters' \in Seq(Readers) /\ Range(waiters') = Range(waiters) \cup {r}
          /\ Distinct(waiters')
      BY <1>13, <2>2, Appended
    <3> QED BY <1>12, <2>2, <3>1
  <2> QED BY <1>14, <2>1, <2>2
<1>17. /\ Tallied(r)' /\ Range(null_rows'[r]) \subseteq DOMAIN Batches[r]
       /\ warned' \in [Batch -> Nat] /\ null_rows' \in [Readers -> Seq(Nat)]
       /\ \A q \in Readers : q # r =>
            /\ null_rows'[q] = null_rows[q]
            /\ \A k \in DOMAIN Batches[q] : warned'[<<q, k>>] = warned[<<q, k>>]
  BY <1>1, <1>7, <1>8, <1>10, <1>11, <1>15, TallyMoves
<1>18. /\ Covered(r)' /\ InOnePlace(r)' /\ Marked(r)'
       /\ \A k \in Range(buf'[r]) : k \in 1..Reached(r)'
       /\ \A s \in sends'[r] : \A k \in Range(s.group) : k \in DOMAIN Batches[r]
       /\ \A s \in sends'[r] : s.group # <<>> /\ s.take < takes'[r]
       /\ Range(buf'[r]) \subseteq DOMAIN Batches[r]
       /\ buf' \in [Readers -> Seq(Nat)] /\ takes' \in [Readers -> Nat]
       /\ sends' \in [Readers -> SUBSET Send] /\ \A q \in Readers : IsFiniteSet(sends'[q])
       /\ \A q \in Readers : q # r =>
            buf'[q] = buf[q] /\ takes'[q] = takes[q] /\ sends'[q] = sends[q]
       /\ step'[r] = "waiting" => buf'[r] = <<>>
  <2>1. CASE Left
    <3>1. step'[r] = "read" /\ buf' = buf /\ takes' = takes /\ sends' = sends
      BY <1>1, <2>1 DEF buffers
    <3>2. \A k \in DOMAIN Batches[r] : k <= i /\ Batches[r][k].kept => k <= i - 1
      BY <1>4, <1>7, <2>1
    <3>3. Covered(r)'
      BY <1>1, <1>2, <1>3, <1>10, <1>11, <3>1, <3>2 DEF ReaderInv, Covered
    <3>4. \A k \in DOMAIN Batches[r] : k > i => k > i - 1
      BY <1>4, <1>7
    <3>5. InOnePlace(r)'
      BY <1>1, <1>2, <1>3, <1>10, <1>11, <3>1, <3>4 DEF ReaderInv, InOnePlace
    <3>6. Marked(r)'
      BY <1>1, <1>2, <3>1 DEF ReaderInv, Marked
    <3>7. \A k \in Range(buf'[r]) : k \in 1..Reached(r)'
      <4>1. \A k \in 1..(i - 1) : k \in 1..i
        BY <1>7
      <4> QED BY <1>2, <1>10, <1>11, <3>1, <4>1 DEF ReaderInv, InStatement
    <3>8. \A s \in sends'[r] : \A k \in Range(s.group) : k \in DOMAIN Batches[r]
      BY <1>2, <3>1 DEF ReaderInv, InStatement
    <3>9. /\ \A s \in sends'[r] : s.group # <<>> /\ s.take < takes'[r]
          /\ Range(buf'[r]) \subseteq DOMAIN Batches[r]
      BY <1>2, <3>1 DEF ReaderTyped
    <3> QED BY <1>2, <3>1, <3>3, <3>5, <3>6, <3>7, <3>8, <3>9 DEF Typed
  <2>2. CASE Taken
    <3>1. step'[r] = "read"
      BY <1>1, <2>2
    <3> QED BY <1>1, <1>7, <1>10, <1>11, <2>2, <3>1, PushMoves
  <2>3. CASE Waits
    <3>1. step'[r] = "waiting"
      BY <1>12, <2>3
    <3>2. Reached(r) \in Nat /\ Reached(r)' = Reached(r)
      BY <1>4, <1>9, <1>10, <1>11, <3>1
    <3>3. Marked(r)'
      <4> DEFINE group == buf[r]
      <4>1. group \in Seq(Nat) /\ group = buf[r] /\ (KeepIn(r, group) \/ Flush(r, group))
        BY <1>2, <2>3 DEF Typed
      <4> HIDE DEF group
      <4> QED BY <1>1, <1>2, <4>1, MarkStays DEF ReaderInv
    <3> QED BY <1>1, <2>3, <3>2, <3>3, FlushMoves
  <2> QED BY <1>14, <2>1, <2>2, <2>3
<1>19. Shared'
  <2>1. warned' \in [Batch -> Nat]
    BY <1>17
  <2> QED BY <1>1, <1>3, <1>15, <2>1 DEF Shared, PInv, TypeOK, Batch, Floor, StartWidth
<1>20. Typed'
  BY <1>1, <1>2, <1>3, <1>6, <1>16, <1>17, <1>18 DEF Typed
<1>21. ReaderTyped(r)'
  BY <1>1, <1>2, <1>3, <1>5, <1>6, <1>7, <1>16, <1>17, <1>18 DEF ReaderTyped
<1>22. InStatement(r)'
  <2>1. step'[r] \in {"read", "waiting"} => hi[r] = StatementEnd(r) /\ i \in lo[r]..hi[r]
    BY <1>4, <1>5, <1>7
  <2>2. step'[r] = "waiting" => Batches[r][i].kept /\ buf'[r] = <<>> /\ lo[r] < i
    BY <1>7, <1>15, <1>18
  <2> QED BY <1>1, <1>3, <1>6, <1>15, <1>18, <2>1, <2>2 DEF InStatement
<1>23. ReaderInv(r)'
  BY <1>17, <1>18, <1>22 DEF ReaderInv
<1>24. \A q \in Readers : q # r => Unnoticed(q)
  BY <1>1, <1>6, <1>15, <1>16, <1>17, <1>18 DEF Unnoticed
<1>25. WrittenTwiceIfSpilled'
  BY <1>1, <1>3 DEF PInv, WrittenTwiceIfSpilled, Batch
<1> QED BY <1>1, <1>19, <1>20, <1>21, <1>23, <1>24, <1>25, OneReader

\* The reader at the head of the queue leaves it.
LEMMA Dequeued ==
  ASSUME NEW S, NEW seq \in Seq(S), Distinct(seq), seq # <<>>
  PROVE  /\ Tail(seq) \in Seq(S) /\ Distinct(Tail(seq))
         /\ \A q : q \in Range(Tail(seq)) <=> q \in Range(seq) /\ q # Head(seq)
<1> DEFINE rest == Tail(seq)
<1>1. /\ rest \in Seq(S) /\ DOMAIN rest = 1..(Len(seq) - 1) /\ Len(seq) \in Nat /\ Len(seq) >= 1
      /\ \A j \in 1..(Len(seq) - 1) : rest[j] = seq[j + 1]
      /\ Head(seq) = seq[1] /\ DOMAIN seq = 1..Len(seq)
  OBVIOUS
<1> HIDE DEF rest
<1>2. Distinct(rest)
  <2> SUFFICES ASSUME NEW j \in DOMAIN rest, NEW k \in DOMAIN rest, rest[j] = rest[k]
               PROVE  j = k
    BY DEF Distinct
  <2>1. j + 1 \in DOMAIN seq /\ k + 1 \in DOMAIN seq /\ seq[j + 1] = seq[k + 1]
    BY <1>1
  <2>2. j + 1 = k + 1
    BY <2>1 DEF Distinct
  <2> QED BY <1>1, <2>2
<1>3. ASSUME NEW q, q \in Range(rest)
      PROVE  q \in Range(seq) /\ q # Head(seq)
  <2>1. PICK j \in DOMAIN rest : rest[j] = q
    BY <1>3, RangeFacts
  <2>2. j + 1 \in DOMAIN seq /\ seq[j + 1] = q /\ 1 \in DOMAIN seq /\ j + 1 # 1
    BY <1>1, <2>1
  <2>3. seq[1] # q
    BY <2>2 DEF Distinct
  <2> QED BY <1>1, <2>2, <2>3, RangeFacts
<1>4. ASSUME NEW q, q \in Range(seq), q # Head(seq)
      PROVE  q \in Range(rest)
  <2>1. PICK j \in DOMAIN seq : seq[j] = q
    BY <1>4, RangeFacts
  <2>2. j - 1 \in DOMAIN rest /\ rest[j - 1] = q
    BY <1>1, <1>4, <2>1
  <2> QED BY <2>2, RangeFacts
<1> QED BY <1>1, <1>2, <1>3, <1>4 DEF rest

\* The reader that waited has its memory, and its batch joins an empty buffer.
LEMMA GrantedKeeps ==
  ASSUME PInv, NEW r \in Readers, Granted(r)
  PROVE  PInv'
<1> DEFINE i == at[r]
<1> USE DEF window, place, tallies
<1>1. /\ run = "running" /\ run' = "running" /\ step[r] = "waiting" /\ Head(waiters) = r
      /\ waiters' = Tail(waiters) /\ Push(r, i) /\ step' = [step EXCEPT ![r] = "read"]
      /\ plan' = plan /\ width' = width /\ lo' = lo /\ hi' = hi /\ at' = at /\ mark' = mark
      /\ null_rows' = null_rows /\ warned' = warned
      /\ written' = written /\ spilled' = spilled /\ faults' = faults
  BY DEF Granted, Goto
<1>2. ReaderInv(r) /\ ReaderTyped(r) /\ Typed
  BY <1>1 DEF PInv, TypeOK
<1>3. /\ Batches' = Batches /\ (Sweep' <=> Sweep) /\ Readers' = Readers /\ Keyed' = Keyed
      /\ StatementEnd(r)' = StatementEnd(r)
  BY <1>1 DEF Batches, Sweep, Readers, Keyed, StatementEnd
<1>4. /\ DOMAIN Batches[r] = 1..Len(Batches[r]) /\ Len(Batches[r]) \in Nat
      /\ lo[r] \in Nat /\ at[r] \in Nat /\ hi[r] \in Nat
  BY <1>2, PlanFacts DEF Typed
<1>5. /\ hi[r] = StatementEnd(r) /\ lo[r] < at[r] /\ at[r] <= hi[r] /\ hi[r] <= Len(Batches[r])
  BY <1>1, <1>2, <1>4, Ends DEF ReaderInv, InStatement, PInv
<1>6. i \in DOMAIN Batches[r] /\ i \in Nat /\ lo[r] < i
  BY <1>4, <1>5
<1> HIDE DEF i
<1>7. /\ step \in [Readers -> {"queued", "between", "read", "waiting", "finish", "drain", "done"}]
      /\ step' \in [Readers -> {"queued", "between", "read", "waiting", "finish", "drain", "done"}]
      /\ step'[r] = "read" /\ \A q \in Readers : q # r => step'[q] = step[q]
  BY <1>1 DEF PInv, TypeOK
<1>8. /\ Decoded(r) = i /\ Reached(r) = i - 1 /\ Decoded(r)' = i /\ Reached(r)' = i
      /\ Counted(r)' = Counted(r)
  BY <1>1, <1>3, <1>7 DEF i, Decoded, Reached, Counted
<1>9. /\ waiters' \in Seq(Readers) /\ Distinct(waiters')
      /\ \A q : q \in Range(waiters') <=> q \in Range(waiters) /\ q # r
  <2>1. waiters \in Seq(Readers) /\ Distinct(waiters) /\ r \in Range(waiters)
    BY <1>1, <1>2 DEF Typed, ReaderTyped
  <2>2. waiters # <<>>
    BY <2>1, RangeFacts
  <2> QED BY <1>1, <2>1, <2>2, Dequeued
<1>10. /\ Covered(r)' /\ InOnePlace(r)' /\ Marked(r)'
       /\ \A k \in Range(buf'[r]) : k \in 1..i
       /\ \A s \in sends'[r] : \A k \in Range(s.group) : k \in DOMAIN Batches[r]
       /\ \A s \in sends'[r] : s.group # <<>> /\ s.take < takes'[r]
       /\ Range(buf'[r]) \subseteq DOMAIN Batches[r]
       /\ buf' \in [Readers -> Seq(Nat)] /\ takes' \in [Readers -> Nat]
       /\ sends' \in [Readers -> SUBSET Send] /\ \A q \in Readers : IsFiniteSet(sends'[q])
       /\ \A q \in Readers : q # r =>
            buf'[q] = buf[q] /\ takes'[q] = takes[q] /\ sends'[q] = sends[q]
  BY <1>1, <1>6, <1>8, PushMoves
<1>11. Tallied(r)'
  BY <1>1, <1>2, <1>3, <1>7, <1>8 DEF ReaderInv, Tallied
<1>12. Shared'
  BY <1>1, <1>3, <1>7 DEF Shared, PInv, TypeOK, Batch, Floor, StartWidth
<1>13. Typed'
  BY <1>1, <1>2, <1>3, <1>9, <1>10 DEF Typed
<1>14. ReaderTyped(r)'
  BY <1>1, <1>2, <1>3, <1>4, <1>5, <1>7, <1>9, <1>10 DEF ReaderTyped
<1>15. InStatement(r)'
  BY <1>1, <1>3, <1>4, <1>5, <1>7, <1>8, <1>10 DEF InStatement
<1>16. ReaderInv(r)'
  BY <1>10, <1>11, <1>15 DEF ReaderInv
<1>17. \A q \in Readers : q # r => Unnoticed(q)
  BY <1>1, <1>7, <1>9, <1>10 DEF Unnoticed
<1>18. WrittenTwiceIfSpilled'
  BY <1>1, <1>3 DEF PInv, WrittenTwiceIfSpilled, Batch
<1> QED BY <1>1, <1>12, <1>13, <1>14, <1>16, <1>17, <1>18, OneReader

\* A window ends: its tallies count, and the next one starts where it stopped.
LEMMA EndWindowKeeps ==
  ASSUME PInv, NEW r \in Readers, EndWindow(r)
  PROVE  PInv'
<1>1. /\ run = "running" /\ run' = "running" /\ step[r] = "read" /\ at[r] = hi[r]
      /\ Sweep /\ lo[r] < Keyed /\ Report(r)
      /\ KeepIn(r, buf[r]) \/ Flush(r, buf[r])
      /\ lo' = [lo EXCEPT ![r] = hi[r]] /\ width' \in NextWidths
      /\ step' = [step EXCEPT ![r] = IF hi[r] = Keyed /\ Keyed = Len(Batches[r])
                                     THEN "finish" ELSE "between"]
      /\ plan' = plan /\ hi' = hi /\ at' = at /\ mark' = mark /\ waiters' = waiters
      /\ written' = written /\ spilled' = spilled /\ faults' = faults
  BY DEF EndWindow, Goto
<1>2. ReaderInv(r) /\ ReaderTyped(r) /\ Typed
  BY <1>1 DEF PInv, TypeOK
<1>3. Batches' = Batches /\ (Sweep' <=> Sweep) /\ Readers' = Readers /\ Keyed' = Keyed
  BY <1>1 DEF Batches, Sweep, Readers, Keyed
<1>4. /\ DOMAIN Batches[r] = 1..Len(Batches[r]) /\ Len(Batches[r]) \in Nat
      /\ lo[r] \in Nat /\ at[r] \in Nat /\ hi[r] \in Nat
  BY <1>2, PlanFacts DEF Typed
<1>5. lo[r] <= hi[r] /\ hi[r] <= Len(Batches[r])
  BY <1>1, <1>2, <1>4 DEF ReaderTyped
<1>6. /\ step' \in [Readers -> {"queued", "between", "read", "waiting", "finish", "drain", "done"}]
      /\ \A q \in Readers : q # r => step'[q] = step[q] /\ lo'[q] = lo[q]
      /\ step'[r] \in {"finish", "between"} /\ (step'[r] = "finish" => hi[r] = Len(Batches[r]))
      /\ lo'[r] = hi[r] /\ lo' \in [Readers -> Nat]
  BY <1>1, <1>2, <1>4 DEF PInv, TypeOK, Typed
<1>7. /\ Decoded(r) = hi[r] /\ Reached(r) = hi[r] /\ Counted(r) = lo[r]
      /\ Decoded(r)' = hi[r] /\ Reached(r)' = hi[r] /\ Counted(r)' = hi[r]
  BY <1>1, <1>3, <1>6 DEF Decoded, Reached, Counted
<1>8. /\ Tallied(r)'
      /\ warned' \in [Batch -> Nat] /\ null_rows' \in [Readers -> Seq(Nat)]
      /\ null_rows'[r] = <<>> /\ Range(null_rows'[r]) = {}
      /\ \A q \in Readers : q # r =>
           /\ null_rows'[q] = null_rows[q]
           /\ \A i \in DOMAIN Batches[q] : warned'[<<q, i>>] = warned[<<q, i>>]
  <2>1. /\ Counted(r)' = Decoded(r) /\ Decoded(r)' = Decoded(r) /\ Decoded(r) \in Nat
        /\ Counted(r) \in Nat /\ Counted(r) <= Decoded(r) /\ step'[r] \notin {"read", "waiting"}
    BY <1>4, <1>5, <1>6, <1>7
  <2>2. run = "running" /\ plan' = plan /\ Report(r)
    BY <1>1
  <2> QED BY <2>1, <2>2, Reports
<1>9. /\ Covered(r)' /\ InOnePlace(r)'
      /\ \A k \in Range(buf'[r]) : k \in 1..Reached(r)
      /\ \A s \in sends'[r] : \A k \in Range(s.group) : k \in DOMAIN Batches[r]
      /\ \A s \in sends'[r] : s.group # <<>> /\ s.take < takes'[r]
      /\ Range(buf'[r]) \subseteq DOMAIN Batches[r]
      /\ buf' \in [Readers -> Seq(Nat)] /\ takes' \in [Readers -> Nat]
      /\ sends' \in [Readers -> SUBSET Send] /\ \A q \in Readers : IsFiniteSet(sends'[q])
      /\ \A q \in Readers : q # r =>
           buf'[q] = buf[q] /\ takes'[q] = takes[q] /\ sends'[q] = sends[q]
  BY <1>1, <1>4, <1>7, FlushMoves
<1>10. Shared'
  <2>1. width' \in Floor..ReadWindow
    BY <1>1, Widths DEF PInv, TypeOK
  <2>2. warned' \in [Batch -> Nat]
    BY <1>8
  <2> QED BY <1>1, <1>3, <1>6, <2>1, <2>2 DEF Shared, PInv, TypeOK, Batch, Floor, StartWidth
<1>11. Typed'
  BY <1>1, <1>2, <1>3, <1>6, <1>8, <1>9 DEF Typed
<1>12. ReaderTyped(r)'
  <2>1. r \notin Range(waiters)
    BY <1>1, <1>2 DEF ReaderTyped
  <2> QED BY <1>1, <1>3, <1>4, <1>5, <1>6, <1>8, <1>9, <2>1 DEF ReaderTyped
<1>13. InStatement(r)'
  BY <1>3, <1>6, <1>7, <1>9 DEF InStatement
<1>14. Marked(r)'
  BY <1>6 DEF Marked
<1>15. ReaderInv(r)'
  BY <1>8, <1>9, <1>13, <1>14 DEF ReaderInv
<1>16. \A q \in Readers : q # r => Unnoticed(q)
  BY <1>1, <1>6, <1>8, <1>9 DEF Unnoticed
<1>17. WrittenTwiceIfSpilled'
  BY <1>1, <1>3 DEF PInv, WrittenTwiceIfSpilled, Batch
<1> QED BY <1>1, <1>10, <1>11, <1>12, <1>15, <1>16, <1>17, OneReader

\* The read is over: what is tallied counts, what is buffered is sent.
LEMMA FinishReadKeeps ==
  ASSUME PInv, NEW r \in Readers, FinishRead(r)
  PROVE  PInv'
<1>1. /\ run = "running" /\ run' = "running" /\ step[r] = "finish"
      /\ Report(r) /\ Flush(r, buf[r]) /\ step' = [step EXCEPT ![r] = "drain"]
      /\ lo' = lo /\ hi' = hi /\ at' = at /\ width' = width
      /\ plan' = plan /\ mark' = mark /\ waiters' = waiters
      /\ written' = written /\ spilled' = spilled /\ faults' = faults
  BY DEF FinishRead, Goto, window, place
<1>2. ReaderInv(r) /\ ReaderTyped(r) /\ Typed
  BY <1>1 DEF PInv, TypeOK
<1>3. Batches' = Batches /\ (Sweep' <=> Sweep) /\ Readers' = Readers /\ Keyed' = Keyed
  BY <1>1 DEF Batches, Sweep, Readers, Keyed
<1>4. /\ DOMAIN Batches[r] = 1..Len(Batches[r]) /\ Len(Batches[r]) \in Nat
      /\ lo[r] \in Nat /\ lo[r] <= Len(Batches[r])
  BY <1>2, PlanFacts DEF Typed, ReaderTyped
<1>5. /\ step' \in [Readers -> {"queued", "between", "read", "waiting", "finish", "drain", "done"}]
      /\ \A q \in Readers : q # r => step'[q] = step[q]
      /\ step'[r] = "drain"
  BY <1>1 DEF PInv, TypeOK
<1>6. /\ Decoded(r) = Len(Batches[r]) /\ Reached(r) = Len(Batches[r])
      /\ Decoded(r)' = Len(Batches[r]) /\ Reached(r)' = Len(Batches[r])
      /\ Counted(r)' = Len(Batches[r])
  BY <1>1, <1>3, <1>5 DEF Decoded, Reached, Counted
<1>7. Counted(r) \in Nat /\ Counted(r) <= Len(Batches[r])
  BY <1>1, <1>4, <1>6 DEF Counted
<1>8. /\ Tallied(r)'
      /\ warned' \in [Batch -> Nat] /\ null_rows' \in [Readers -> Seq(Nat)]
      /\ null_rows'[r] = <<>> /\ Range(null_rows'[r]) = {}
      /\ \A q \in Readers : q # r =>
           /\ null_rows'[q] = null_rows[q]
           /\ \A i \in DOMAIN Batches[q] : warned'[<<q, i>>] = warned[<<q, i>>]
  BY <1>1, <1>4, <1>5, <1>6, <1>7, Reports
<1>9. /\ Covered(r)' /\ InOnePlace(r)'
      /\ \A k \in Range(buf'[r]) : k \in 1..Reached(r)
      /\ \A s \in sends'[r] : \A k \in Range(s.group) : k \in DOMAIN Batches[r]
      /\ \A s \in sends'[r] : s.group # <<>> /\ s.take < takes'[r]
      /\ Range(buf'[r]) \subseteq DOMAIN Batches[r]
      /\ buf' \in [Readers -> Seq(Nat)] /\ takes' \in [Readers -> Nat]
      /\ sends' \in [Readers -> SUBSET Send] /\ \A q \in Readers : IsFiniteSet(sends'[q])
      /\ \A q \in Readers : q # r =>
           buf'[q] = buf[q] /\ takes'[q] = takes[q] /\ sends'[q] = sends[q]
      /\ buf'[r] = <<>>
  BY <1>1, <1>4, <1>6, FlushMoves
<1>10. Shared'
  <2>1. warned' \in [Batch -> Nat]
    BY <1>8
  <2> QED BY <1>1, <1>3, <1>5, <2>1 DEF Shared, PInv, TypeOK, Batch, Floor, StartWidth
<1>11. Typed'
  BY <1>1, <1>2, <1>3, <1>8, <1>9 DEF Typed
<1>12. ReaderTyped(r)'
  <2>1. r \notin Range(waiters)
    BY <1>1, <1>2 DEF ReaderTyped
  <2> QED BY <1>1, <1>2, <1>3, <1>5, <1>8, <1>9, <2>1 DEF ReaderTyped
<1>13. InStatement(r)'
  BY <1>3, <1>5, <1>6, <1>9 DEF InStatement
<1>14. Marked(r)'
  BY <1>5 DEF Marked
<1>15. ReaderInv(r)'
  BY <1>8, <1>9, <1>13, <1>14 DEF ReaderInv
<1>16. \A q \in Readers : q # r => Unnoticed(q)
  BY <1>1, <1>5, <1>8, <1>9 DEF Unnoticed
<1>17. WrittenTwiceIfSpilled'
  BY <1>1, <1>3 DEF PInv, WrittenTwiceIfSpilled, Batch
<1> QED BY <1>1, <1>10, <1>11, <1>12, <1>15, <1>16, <1>17, OneReader

\* The source cancels a window: what it buffered and tallied is dropped, what
\* it sent is written all the same.
LEMMA CancelWindowKeeps ==
  ASSUME PInv, NEW r \in Readers, CancelWindow(r)
  PROVE  PInv'
<1> DEFINE cut == SubSeq(buf[r], 1, Kept(r))
           gone == ((lo[r] + 1)..at[r]) \ Range(buf[r])
<1>1. /\ run = "running" /\ run' = "running" /\ step[r] = "read" /\ Sweep
      /\ width' = Narrower /\ buf' = [buf EXCEPT ![r] = cut] /\ takes' = takes /\ sends' = sends
      /\ null_rows' = [null_rows EXCEPT ![r] = SubSeq(null_rows[r], 1, mark[r].null_rows)]
      /\ spilled' = spilled \cup ({r} \X gone)
      /\ step' = [step EXCEPT ![r] = "between"]
      /\ plan' = plan /\ lo' = lo /\ hi' = hi /\ at' = at /\ mark' = mark /\ waiters' = waiters
      /\ written' = written /\ warned' = warned /\ faults' = faults
  BY DEF CancelWindow, Goto, KeepIn, KeptTallies, place
<1>2. ReaderInv(r) /\ ReaderTyped(r) /\ Typed
  BY <1>1 DEF PInv, TypeOK
<1>3. Batches' = Batches /\ (Sweep' <=> Sweep) /\ Readers' = Readers /\ Keyed' = Keyed
  BY <1>1 DEF Batches, Sweep, Readers, Keyed
<1>4. /\ DOMAIN Batches[r] = 1..Len(Batches[r]) /\ Len(Batches[r]) \in Nat
      /\ lo[r] \in Nat /\ at[r] \in Nat /\ hi[r] \in Nat
      /\ takes[r] \in Nat /\ mark[r].takes \in Nat /\ mark[r].len \in Nat
      /\ buf[r] \in Seq(Nat) /\ null_rows[r] \in Seq(Nat)
  BY <1>2, PlanFacts DEF Typed, Mark
<1>5. lo[r] <= at[r] /\ at[r] <= hi[r] /\ hi[r] <= Len(Batches[r])
  BY <1>1, <1>2, <1>4 DEF ReaderTyped
<1>6. /\ step' \in [Readers -> {"queued", "between", "read", "waiting", "finish", "drain", "done"}]
      /\ \A q \in Readers : q # r => step'[q] = step[q] /\ buf'[q] = buf[q] /\ null_rows'[q] = null_rows[q]
      /\ step'[r] = "between" /\ buf'[r] = cut
  BY <1>1, <1>2 DEF PInv, TypeOK, Typed
<1>7. /\ Decoded(r) = at[r] /\ Reached(r) = at[r] /\ Counted(r) = lo[r]
      /\ Decoded(r)' = lo[r] /\ Reached(r)' = lo[r] /\ Counted(r)' = lo[r]
  BY <1>1, <1>3, <1>6 DEF Decoded, Reached, Counted
<1>8. Kept(r) \in 0..Len(buf[r]) /\ DOMAIN buf[r] = 1..Len(buf[r]) /\ Len(buf[r]) \in Nat
  BY <1>4 DEF Kept
<1>9. \A j \in DOMAIN buf[r] : j <= Kept(r) <=> buf[r][j] <= lo[r]
  <2>1. CASE mark[r].takes = takes[r]
    BY <1>1, <1>2, <2>1 DEF ReaderInv, Marked, Kept
  <2>2. CASE mark[r].takes # takes[r]
    <3>1. Kept(r) = 0 /\ \A j \in DOMAIN buf[r] : buf[r][j] > lo[r] /\ buf[r][j] \in Nat
      BY <1>1, <1>2, <1>4, <2>2 DEF ReaderInv, Marked, Kept
    <3>2. ASSUME NEW j \in DOMAIN buf[r]
          PROVE  ~(j <= Kept(r)) /\ ~(buf[r][j] <= lo[r])
      <4>1. j \in Nat /\ j >= 1
        BY <1>8
      <4>2. buf[r][j] > lo[r] /\ buf[r][j] \in Nat /\ Kept(r) = 0
        BY <3>1
      <4> QED BY <1>4, <4>1, <4>2
    <3> QED BY <3>2
  <2> QED BY <2>1, <2>2
<1>10. cut \in Seq(Nat) /\ Range(cut) = {buf[r][j] : j \in 1..Kept(r)} /\ Distinct(cut)
  <2>1. Distinct(buf[r])
    BY <1>2 DEF ReaderInv, InOnePlace
  <2> DEFINE k == Kept(r)
  <2>2. k \in 0..Len(buf[r])
    BY <1>8
  <2> HIDE DEF k
  <2>3. /\ SubSeq(buf[r], 1, k) \in Seq(Nat) /\ Range(SubSeq(buf[r], 1, k)) = {buf[r][j] : j \in 1..k}
        /\ Distinct(buf[r]) => Distinct(SubSeq(buf[r], 1, k))
    BY <1>4, <2>2, CutOff
  <2> QED BY <2>1, <2>3 DEF k
<1> HIDE DEF cut
<1>11. \A i : i \in Range(cut) <=> i \in Range(buf[r]) /\ i <= lo[r]
  <2>1. \A i : i \in Range(cut) <=> \E j \in 1..Kept(r) : buf[r][j] = i
    BY <1>10
  <2>2. \A j : j \in 1..Kept(r) <=> j \in DOMAIN buf[r] /\ buf[r][j] <= lo[r]
    BY <1>8, <1>9
  <2> QED BY <2>1, <2>2, RangeFacts
<1>12. null_rows'[r] = <<>> /\ null_rows' \in [Readers -> Seq(Nat)]
  <2>1. mark[r].null_rows = 0 /\ SubSeq(null_rows[r], 1, 0) = <<>>
    BY <1>1, <1>2, <1>4 DEF ReaderInv, Tallied
  <2> QED BY <1>1, <1>2, <2>1 DEF Typed
<1>13. buf' \in [Readers -> Seq(Nat)]
  BY <1>1, <1>2, <1>10 DEF Typed
<1>14. /\ spilled' \subseteq Batch /\ spilled \subseteq spilled'
       /\ \A i \in DOMAIN Batches[r] : <<r, i>> \notin spilled' =>
            <<r, i>> \notin spilled /\ (lo[r] < i /\ i <= at[r] => i \in Range(buf[r]))
       /\ \A q \in Readers : q # r =>
            \A i \in DOMAIN Batches[q] : <<q, i>> \in spilled' <=> <<q, i>> \in spilled
  <2>1. spilled \subseteq Batch
    BY DEF PInv, TypeOK
  <2>2. \A i \in gone : i \in DOMAIN Batches[r]
    BY <1>4, <1>5
  <2>3. \A i \in DOMAIN Batches[r] : lo[r] < i /\ i <= at[r] /\ i \notin Range(buf[r]) => i \in gone
    BY <1>4
  <2> HIDE DEF gone
  <2>4. {r} \X gone \subseteq Batch
    BY <2>2, BatchFacts
  <2>5. \A q, i : <<q, i>> \in spilled' <=> <<q, i>> \in spilled \/ (q = r /\ i \in gone)
    BY <1>1
  <2>6. spilled' \subseteq Batch /\ spilled \subseteq spilled'
    BY <1>1, <2>1, <2>4
  <2> QED BY <2>3, <2>5, <2>6
<1> HIDE DEF gone
<1>15. Covered(r)'
  <2>1. \A i \in DOMAIN Batches[r] : i <= lo[r] => i <= at[r]
    BY <1>4, <1>5
  <2> QED BY <1>1, <1>2, <1>3, <1>6, <1>7, <1>11, <2>1 DEF ReaderInv, Covered
<1>16. InOnePlace(r)'
  <2>1. \A i \in DOMAIN Batches[r] : <<r, i>> \notin spilled' /\ (i > lo[r] \/ i \in Range(cut)) =>
          i > at[r] \/ i \in Range(buf[r])
    BY <1>4, <1>11, <1>14
  <2>2. Distinct(buf'[r]) /\ \A s \in sends'[r] : Distinct(s.group)
    BY <1>1, <1>2, <1>6, <1>10 DEF ReaderInv, InOnePlace
  <2>3. \A i \in DOMAIN Batches[r] : <<r, i>> \notin spilled' =>
          /\ i > lo[r] \/ i \in Range(cut) =>
               written[<<r, i>>] = 0 /\ \A s \in sends[r] : i \notin Range(s.group)
          /\ \A s \in sends[r] : i \in Range(s.group) =>
               /\ ~s.failed => written[<<r, i>>] = 0
               /\ \A t \in sends[r] : i \in Range(t.group) => t = s
    BY <1>2, <1>7, <1>14, <2>1 DEF ReaderInv, InOnePlace
  <2> QED BY <1>1, <1>3, <1>6, <1>7, <2>2, <2>3 DEF InOnePlace
<1>17. Tallied(r)'
  <2>1. Range(<<>>) = {} /\ Distinct(<<>>) /\ \A i \in DOMAIN Batches[r] : ~(lo[r] < i /\ i <= lo[r])
    BY <1>4, RangeFacts
  <2>2. {i \in DOMAIN Batches[r] : /\ lo[r] < i /\ i <= lo[r] /\ Batches[r][i].nulls} = {}
    BY <2>1
  <2>3. \A i \in DOMAIN Batches[r] :
          warned[<<r, i>>] = IF Batches[r][i].nulls /\ i <= lo[r] THEN 1 ELSE 0
    BY <1>2, <1>7 DEF ReaderInv, Tallied
  <2>4. /\ Distinct(null_rows'[r])
        /\ Range(null_rows'[r]) = {i \in DOMAIN Batches[r] : /\ Counted(r)' < i /\ i <= Decoded(r)'
                                                             /\ Batches[r][i].nulls}
    BY <1>7, <1>12, <2>1, <2>2
  <2>5. \A i \in DOMAIN Batches[r] :
          warned'[<<r, i>>] = IF Batches[r][i].nulls /\ i <= Counted(r)' THEN 1 ELSE 0
    BY <1>1, <1>7, <2>3
  <2> QED BY <1>3, <1>6, <2>4, <2>5 DEF Tallied
<1>18. Shared'
  <2>1. width' \in Floor..ReadWindow
    BY <1>1, Widths DEF PInv, TypeOK
  <2> QED BY <1>1, <1>3, <1>6, <1>14, <2>1 DEF Shared, PInv, TypeOK, Batch, Floor, StartWidth
<1>19. Typed'
  BY <1>1, <1>2, <1>3, <1>12, <1>13 DEF Typed
<1>20. ReaderTyped(r)'
  <2>1. r \notin Range(waiters)
    BY <1>1, <1>2 DEF ReaderTyped
  <2>2. Range(cut) \subseteq DOMAIN Batches[r] /\ Range(<<>>) = {}
    BY <1>2, <1>11, RangeFacts DEF ReaderTyped
  <2> QED BY <1>1, <1>2, <1>3, <1>6, <1>12, <2>1, <2>2 DEF ReaderTyped
<1>21. InStatement(r)'
  <2>1. \A i \in Range(cut) : i \in 1..lo[r]
    BY <1>2, <1>4, <1>7, <1>11 DEF ReaderInv, InStatement
  <2> QED BY <1>1, <1>2, <1>3, <1>6, <1>7, <2>1 DEF ReaderInv, InStatement
<1>22. Marked(r)'
  BY <1>6 DEF Marked
<1>23. ReaderInv(r)'
  BY <1>15, <1>16, <1>17, <1>21, <1>22 DEF ReaderInv
<1>24. \A q \in Readers : q # r => Unnoticed(q)
  BY <1>1, <1>6, <1>14 DEF Unnoticed
<1>25. WrittenTwiceIfSpilled'
  BY <1>1, <1>3, <1>14 DEF PInv, WrittenTwiceIfSpilled, Batch
<1> QED BY <1>1, <1>18, <1>19, <1>20, <1>23, <1>24, <1>25, OneReader

\* What is written once an insert lands, or fails and may have landed.
LEMMA WritesOnce ==
  ASSUME PInv, run = "running", NEW r \in Readers, NEW s \in InFlight(r),
         NEW now, now = WithBatches(written, r, s.group) \/ now = written
  PROVE  /\ s \in sends[r] /\ ~s.failed /\ s \in Send
         /\ now \in [Batch -> Nat]
         /\ \A b \in Batch : now[b] >= written[b]
         /\ \A b \in Batch : now[b] > 1 => b \in spilled
         /\ \A i \in DOMAIN Batches[r] : i \notin Range(s.group) => now[<<r, i>>] = written[<<r, i>>]
         /\ now # written =>
              \A i \in DOMAIN Batches[r] : i \in Range(s.group) => now[<<r, i>>] > 0
         /\ \A q \in Readers : q # r =>
              \A i \in DOMAIN Batches[q] : now[<<q, i>>] = written[<<q, i>>]
<1>1. s \in sends[r] /\ ~s.failed /\ s \in Send /\ ReaderInv(r)
  BY DEF InFlight, PInv, Typed
<1>2. s.group \in Seq(Nat) /\ written \in [Batch -> Nat] /\ Distinct(s.group)
  BY <1>1 DEF Send, PInv, TypeOK, ReaderInv, InOnePlace
<1>3. \A q \in Readers : \A i \in DOMAIN Batches[q] : written[<<q, i>>] \in Nat
  BY <1>2, BatchFacts
<1>4. \A b \in Batch : written[b] > 1 => b \in spilled
  BY DEF PInv, WrittenTwiceIfSpilled
<1>5. CASE now = written
  <2>1. \A b \in Batch : written[b] >= written[b]
    BY <1>2
  <2> QED BY <1>1, <1>2, <1>4, <1>5, <2>1
<1>6. CASE now = WithBatches(written, r, s.group)
  <2> DEFINE seq == s.group
  <2>1. seq \in Seq(Nat) /\ \A i : CountIn(seq, i) = IF i \in Range(seq) THEN 1 ELSE 0
    BY <1>2, CountFacts
  <2> HIDE DEF seq
  <2>2. /\ now \in [Batch -> Nat]
        /\ \A q \in Readers : \A i \in DOMAIN Batches[q] :
             now[<<q, i>>] = written[<<q, i>>] + IF q = r THEN CountIn(seq, i) ELSE 0
    <3>1. now = WithBatches(written, r, seq)
      BY <1>6 DEF seq
    <3> QED BY <1>2, <2>1, <3>1, WithFacts
  <2>3. \A q \in Readers : \A i \in DOMAIN Batches[q] :
          now[<<q, i>>] = written[<<q, i>>] + IF q = r /\ i \in Range(seq) THEN 1 ELSE 0
    BY <2>1, <2>2
  <2>4. \A i \in DOMAIN Batches[r] : <<r, i>> \notin spilled /\ i \in Range(seq) =>
          written[<<r, i>>] = 0
    BY <1>1 DEF ReaderInv, InOnePlace, seq
  <2>5. \A q \in Readers : \A i \in DOMAIN Batches[q] :
          /\ now[<<q, i>>] >= written[<<q, i>>]
          /\ now[<<q, i>>] > 1 => <<q, i>> \in spilled
    <3> TAKE q \in Readers
    <3> TAKE i \in DOMAIN Batches[q]
    <3>1. /\ written[<<q, i>>] \in Nat /\ (written[<<q, i>>] > 1 => <<q, i>> \in spilled)
      BY <1>3, <1>4, BatchFacts
    <3>2. CASE q = r /\ i \in Range(seq)
      <4>1. now[<<q, i>>] = written[<<q, i>>] + 1
        BY <2>3, <3>2
      <4>2. <<q, i>> \notin spilled => written[<<q, i>>] = 0
        BY <2>4, <3>2
      <4> QED BY <3>1, <4>1, <4>2
    <3>3. CASE ~(q = r /\ i \in Range(seq))
      <4>1. now[<<q, i>>] = written[<<q, i>>] + 0
        BY <2>3, <3>3
      <4> QED BY <3>1, <4>1
    <3> QED BY <3>2, <3>3
  <2>6. \A b \in Batch : now[b] >= written[b] /\ (now[b] > 1 => b \in spilled)
    BY <2>5, BatchFacts
  <2>7. \A i \in DOMAIN Batches[r] :
          /\ i \notin Range(seq) => now[<<r, i>>] = written[<<r, i>>]
          /\ i \in Range(seq) => now[<<r, i>>] > 0
    BY <1>3, <2>3
  <2>8. \A q \in Readers : q # r =>
          \A i \in DOMAIN Batches[q] : now[<<q, i>>] = written[<<q, i>>]
    BY <1>3, <2>3
  <2> QED BY <1>1, <2>2, <2>6, <2>7, <2>8 DEF seq
<1> QED BY <1>5, <1>6

\* An insert lands.
LEMMA SendLandsKeeps ==
  ASSUME PInv, NEW r \in Readers, NEW s \in sends[r], SendLands(r, s)
  PROVE  PInv'
<1> USE DEF window, place, tallies
<1>1. /\ run = "running" /\ run' = "running" /\ s \in InFlight(r)
      /\ written' = WithBatches(written, r, s.group)
      /\ sends' = [sends EXCEPT ![r] = @ \ {s}]
      /\ step' = step /\ lo' = lo /\ hi' = hi /\ at' = at /\ width' = width /\ plan' = plan
      /\ buf' = buf /\ takes' = takes /\ null_rows' = null_rows /\ warned' = warned
      /\ mark' = mark /\ waiters' = waiters /\ spilled' = spilled /\ faults' = faults
  BY DEF SendLands
<1>2. ReaderInv(r) /\ ReaderTyped(r) /\ Typed
  BY <1>1 DEF PInv, TypeOK
<1>3. /\ Batches' = Batches /\ (Sweep' <=> Sweep) /\ Readers' = Readers /\ Keyed' = Keyed
      /\ StatementEnd(r)' = StatementEnd(r) /\ Batch' = Batch
      /\ Decoded(r)' = Decoded(r) /\ Reached(r)' = Reached(r) /\ Counted(r)' = Counted(r)
  BY <1>1 DEF Batches, Sweep, Readers, Keyed, StatementEnd, Batch, Decoded, Reached, Counted
<1>4. /\ ~s.failed /\ written' \in [Batch -> Nat]
      /\ \A b \in Batch : written'[b] >= written[b]
      /\ \A b \in Batch : written'[b] > 1 => b \in spilled
      /\ \A i \in DOMAIN Batches[r] : i \notin Range(s.group) => written'[<<r, i>>] = written[<<r, i>>]
      /\ \A q \in Readers : q # r =>
           \A i \in DOMAIN Batches[q] : written'[<<q, i>>] = written[<<q, i>>]
  BY <1>1, WritesOnce
<1>5. \A i \in DOMAIN Batches[r] : i \in Range(s.group) => written'[<<r, i>>] > 0
  <2>1. s.group \in Seq(Nat) /\ written \in [Batch -> Nat]
    BY <1>2 DEF Typed, Send, PInv, TypeOK
  <2> DEFINE seq == s.group
  <2>2. seq \in Seq(Nat)
    BY <2>1
  <2> HIDE DEF seq
  <2>3. \A i \in DOMAIN Batches[r] : written'[<<r, i>>] = written[<<r, i>>] + CountIn(seq, i)
    BY <1>1, <2>1, <2>2, WithFacts DEF seq
  <2>4. \A i \in Range(seq) : CountIn(seq, i) \in Nat /\ CountIn(seq, i) > 0
    BY <2>2, CountFacts
  <2>5. \A i \in DOMAIN Batches[r] : written[<<r, i>>] \in Nat
    BY <2>1, BatchFacts
  <2> QED BY <2>3, <2>4, <2>5 DEF seq
<1>6. /\ sends'[r] = sends[r] \ {s} /\ sends' \in [Readers -> SUBSET Send]
      /\ \A q \in Readers : q # r => sends'[q] = sends[q]
      /\ \A q \in Readers : IsFiniteSet(sends'[q])
  <2>1. IsFiniteSet(sends[r] \ {s})
    BY <1>2, FS_RemoveElement DEF Typed
  <2> QED BY <1>1, <1>2, <2>1 DEF Typed
<1>7. Covered(r)'
  <2>1. \A i \in DOMAIN Batches[r] : written[<<r, i>>] > 0 => written'[<<r, i>>] > 0
    <3>1. \A b \in Batch : written[b] \in Nat /\ written'[b] \in Nat
      BY <1>4 DEF PInv, TypeOK
    <3> QED BY <1>4, <3>1, BatchFacts
  <2>2. \A i : (\E t \in sends[r] : i \in Range(t.group)) =>
          i \in Range(s.group) \/ \E t \in sends'[r] : i \in Range(t.group)
    BY <1>6
  <2> QED BY <1>1, <1>2, <1>3, <1>5, <2>1, <2>2 DEF ReaderInv, Covered
<1>8. InOnePlace(r)'
  BY <1>1, <1>2, <1>3, <1>4, <1>6 DEF ReaderInv, InOnePlace
<1>9. InStatement(r)' /\ Marked(r)' /\ Tallied(r)'
  BY <1>1, <1>2, <1>3, <1>6 DEF ReaderInv, InStatement, Marked, Tallied
<1>10. Shared'
  BY <1>1, <1>3, <1>4 DEF Shared, PInv, TypeOK, Floor, StartWidth
<1>11. Typed'
  BY <1>1, <1>2, <1>3, <1>6 DEF Typed
<1>12. ReaderTyped(r)'
  BY <1>1, <1>2, <1>3, <1>6 DEF ReaderTyped
<1>13. ReaderInv(r)'
  BY <1>7, <1>8, <1>9 DEF ReaderInv
<1>14. \A q \in Readers : q # r => Unnoticed(q)
  BY <1>1, <1>4, <1>6 DEF Unnoticed
<1>15. WrittenTwiceIfSpilled'
  BY <1>1, <1>3, <1>4 DEF WrittenTwiceIfSpilled
<1> QED BY <1>1, <1>10, <1>11, <1>12, <1>13, <1>14, <1>15, OneReader

\* An insert that failed has its batches still.
LEMMA FailedSend ==
  ASSUME NEW s \in Send
  PROVE  LET f == [s EXCEPT !.failed = TRUE]
         IN f \in Send /\ f.group = s.group /\ f.take = s.take /\ f.failed = TRUE
  BY DEF Send

\* An insert fails: its batches are its own still, written or not.
LEMMA SendFailsKeeps ==
  ASSUME PInv, NEW r \in Readers, NEW s \in sends[r], SendFails(r, s)
  PROVE  PInv'
<1> DEFINE f == [s EXCEPT !.failed = TRUE]
<1> USE DEF window, place, tallies
<1>1. /\ run = "running" /\ run' = "running" /\ s \in InFlight(r)
      /\ written' = WithBatches(written, r, s.group) \/ written' = written
      /\ sends' = [sends EXCEPT ![r] = (@ \ {s}) \cup {f}]
      /\ step' = step /\ lo' = lo /\ hi' = hi /\ at' = at /\ width' = width /\ plan' = plan
      /\ buf' = buf /\ takes' = takes /\ null_rows' = null_rows /\ warned' = warned
      /\ mark' = mark /\ waiters' = waiters /\ spilled' = spilled
      /\ faults < MaxFaults /\ faults' = faults + 1
  BY DEF SendFails
<1>2. ReaderInv(r) /\ ReaderTyped(r) /\ Typed
  BY <1>1 DEF PInv, TypeOK
<1>3. /\ Batches' = Batches /\ (Sweep' <=> Sweep) /\ Readers' = Readers /\ Keyed' = Keyed
      /\ StatementEnd(r)' = StatementEnd(r) /\ Batch' = Batch
      /\ Decoded(r)' = Decoded(r) /\ Reached(r)' = Reached(r) /\ Counted(r)' = Counted(r)
  BY <1>1 DEF Batches, Sweep, Readers, Keyed, StatementEnd, Batch, Decoded, Reached, Counted
<1>4. /\ ~s.failed /\ written' \in [Batch -> Nat]
      /\ \A b \in Batch : written'[b] >= written[b]
      /\ \A b \in Batch : written'[b] > 1 => b \in spilled
      /\ \A i \in DOMAIN Batches[r] : i \notin Range(s.group) => written'[<<r, i>>] = written[<<r, i>>]
      /\ \A q \in Readers : q # r =>
           \A i \in DOMAIN Batches[q] : written'[<<q, i>>] = written[<<q, i>>]
  BY <1>1, WritesOnce
<1>5. f \in Send /\ f.group = s.group /\ f.take = s.take /\ f.failed = TRUE
  <2>1. s \in Send
    BY <1>2 DEF Typed
  <2> QED BY <2>1, FailedSend
<1> HIDE DEF f
<1>6. /\ sends'[r] = (sends[r] \ {s}) \cup {f} /\ sends' \in [Readers -> SUBSET Send]
      /\ \A q \in Readers : q # r => sends'[q] = sends[q]
      /\ \A q \in Readers : IsFiniteSet(sends'[q])
  <2>1. IsFiniteSet(sends[r] \ {s})
    BY <1>2, FS_RemoveElement DEF Typed
  <2>2. IsFiniteSet((sends[r] \ {s}) \cup {f})
    BY <2>1, FS_AddElement
  <2> QED BY <1>1, <1>2, <1>5, <2>2 DEF Typed
<1>7. Covered(r)'
  <2>1. \A i \in DOMAIN Batches[r] : written[<<r, i>>] > 0 => written'[<<r, i>>] > 0
    <3>1. \A b \in Batch : written[b] \in Nat /\ written'[b] \in Nat
      BY <1>4 DEF PInv, TypeOK
    <3> QED BY <1>4, <3>1, BatchFacts
  <2>2. \A i : (\E t \in sends[r] : i \in Range(t.group)) => \E t \in sends'[r] : i \in Range(t.group)
    BY <1>5, <1>6
  <2> QED BY <1>1, <1>2, <1>3, <2>1, <2>2 DEF ReaderInv, Covered
<1>8. InOnePlace(r)'
  <2>1. Distinct(buf'[r]) /\ \A t \in sends'[r] : Distinct(t.group)
    BY <1>1, <1>2, <1>5, <1>6 DEF ReaderInv, InOnePlace
  <2>2. ASSUME NEW i \in DOMAIN Batches[r], <<r, i>> \notin spilled,
               i > Reached(r) \/ i \in Range(buf[r])
        PROVE  written'[<<r, i>>] = 0 /\ \A t \in sends'[r] : i \notin Range(t.group)
    BY <1>2, <1>4, <1>5, <1>6, <2>2 DEF ReaderInv, InOnePlace
  <2>3. ASSUME NEW i \in DOMAIN Batches[r], <<r, i>> \notin spilled,
               NEW t \in sends'[r], i \in Range(t.group)
        PROVE  /\ ~t.failed => written'[<<r, i>>] = 0
               /\ \A u \in sends'[r] : i \in Range(u.group) => u = t
    <3>1. \A u, v \in sends[r] : i \in Range(u.group) /\ i \in Range(v.group) => u = v
      BY <1>2, <2>3 DEF ReaderInv, InOnePlace
    <3>2. \A u \in sends[r] : i \in Range(u.group) /\ ~u.failed => written[<<r, i>>] = 0
      BY <1>2, <2>3 DEF ReaderInv, InOnePlace
    <3> QED BY <1>4, <1>5, <1>6, <2>3, <3>1, <3>2
  <2> QED BY <1>1, <1>3, <2>1, <2>2, <2>3 DEF InOnePlace
<1>9. InStatement(r)' /\ Marked(r)' /\ Tallied(r)'
  <2>1. step[r] # "done"
    BY <1>2 DEF ReaderInv, InStatement
  <2>2. \A t \in sends'[r] : \A i \in Range(t.group) : i \in DOMAIN Batches[r]
    BY <1>2, <1>5, <1>6 DEF ReaderInv, InStatement
  <2> QED BY <1>1, <1>2, <1>3, <2>1, <2>2 DEF ReaderInv, InStatement, Marked, Tallied
<1>10. Shared'
  <2>1. faults' \in 0..MaxFaults
    BY <1>1, Constants DEF PInv, TypeOK
  <2> QED BY <1>1, <1>3, <1>4, <2>1 DEF Shared, PInv, TypeOK, Floor, StartWidth
<1>11. Typed'
  BY <1>1, <1>2, <1>3, <1>6 DEF Typed
<1>12. ReaderTyped(r)'
  BY <1>1, <1>2, <1>3, <1>5, <1>6 DEF ReaderTyped
<1>13. ReaderInv(r)'
  BY <1>7, <1>8, <1>9 DEF ReaderInv
<1>14. \A q \in Readers : q # r => Unnoticed(q)
  BY <1>1, <1>4, <1>6 DEF Unnoticed
<1>15. WrittenTwiceIfSpilled'
  BY <1>1, <1>3, <1>4 DEF WrittenTwiceIfSpilled
<1> QED BY <1>1, <1>10, <1>11, <1>12, <1>13, <1>14, <1>15, OneReader

\* The first error ends the run, and drops what is buffered or in flight.
LEMMA AbortKeeps ==
  ASSUME PInv, run = "running", Abort, faults' \in 0..MaxFaults
  PROVE  PInv'
<1>1. /\ run' = "failed" /\ buf' = [r \in Readers |-> <<>>] /\ sends' = [r \in Readers |-> {}]
      /\ waiters' = <<>> /\ plan' = plan /\ width' = width /\ step' = step
      /\ lo' = lo /\ hi' = hi /\ at' = at /\ takes' = takes /\ null_rows' = null_rows
      /\ warned' = warned /\ mark' = mark /\ spilled' = spilled
  BY DEF Abort, window, place, tallies
<1>2. PICK applied \in SUBSET UNION {{r} \X InFlight(r) : r \in Readers} :
        written' = [b \in Batch |-> written[b] +
          Cardinality({s \in applied : s[1] = b[1] /\ b[2] \in Range(s[2].group)})]
  BY DEF Abort
<1>3. Typed /\ TypeOK /\ WrittenTwiceIfSpilled /\ \A r \in Readers : ReaderInv(r) /\ ReaderTyped(r)
  BY DEF PInv, TypeOK
<1>4. Batches' = Batches /\ Readers' = Readers /\ Batch' = Batch
  BY <1>1 DEF Batches, Readers, Batch
<1> DEFINE Of(b) == {s \in applied : s[1] = b[1] /\ b[2] \in Range(s[2].group)}
<1>5. \A s \in applied : s = <<s[1], s[2]>> /\ s[1] \in Readers /\ s[2] \in sends[s[1]] /\ ~s[2].failed
  BY DEF InFlight
<1>6. ASSUME NEW b \in Batch
      PROVE  /\ Cardinality(Of(b)) \in Nat
             /\ written[b] + Cardinality(Of(b)) \in Nat
             /\ written[b] + Cardinality(Of(b)) > 1 => b \in spilled
  <2>1. b[1] \in Readers /\ b[2] \in DOMAIN Batches[b[1]] /\ b = <<b[1], b[2]>>
    BY BatchFacts
  <2>2. written[b] \in Nat
    BY <1>3 DEF TypeOK
  <2>3. IsFiniteSet({b[1]} \X sends[b[1]])
    <3>1. IsFiniteSet({b[1]})
      BY FS_Singleton
    <3>2. IsFiniteSet(sends[b[1]])
      BY <1>3, <2>1 DEF Typed
    <3> QED BY <3>1, <3>2, FS_Product
  <2>4. Of(b) \subseteq {b[1]} \X sends[b[1]]
    BY <1>5
  <2>5. IsFiniteSet(Of(b)) /\ Cardinality(Of(b)) \in Nat
    BY <2>3, <2>4, FS_Subset, FS_CardinalityType
  <2>6. CASE Of(b) = {}
    <3>1. Cardinality(Of(b)) = 0
      BY <2>6, FS_EmptySet
    <3> QED BY <1>3, <2>2, <3>1 DEF WrittenTwiceIfSpilled
  <2>7. CASE b \notin spilled /\ Of(b) # {}
    <3>1. PICK x : x \in Of(b)
      BY <2>7
    <3>2. \A y \in Of(b) : y = x
      BY <1>3, <1>5, <2>1, <2>7, <3>1 DEF ReaderInv, InOnePlace
    <3>3. Cardinality(Of(b)) = 1
      <4>1. Of(b) = {x}
        BY <3>1, <3>2
      <4> QED BY <4>1, FS_Singleton
    <3>4. written[b] = 0
      BY <1>3, <1>5, <2>1, <2>7, <3>1 DEF ReaderInv, InOnePlace
    <3> QED BY <3>3, <3>4
  <2>8. written[b] + Cardinality(Of(b)) \in Nat
    BY <2>2, <2>5
  <2> QED BY <2>5, <2>6, <2>7, <2>8
<1>7. written' \in [Batch -> Nat] /\ \A b \in Batch : written'[b] > 1 => b \in spilled
  BY <1>2, <1>6
<1>8. Range(<<>>) = {} /\ Distinct(<<>>)
  BY RangeFacts
<1>9. Typed'
  <2>1. \A r \in Readers : IsFiniteSet(sends'[r])
    BY <1>1, FS_EmptySet
  <2> QED BY <1>1, <1>3, <1>4, <1>8, <2>1 DEF Typed
<1>10. TypeOK'
  <2>1. ASSUME NEW r \in Readers
        PROVE  ReaderTyped(r)'
    BY <1>1, <1>3, <1>4, <1>8 DEF ReaderTyped
  <2>2. Len(waiters') = Cardinality(Range(waiters'))
    BY <1>1, <1>8, FS_EmptySet
  <2> QED BY <1>1, <1>3, <1>4, <1>7, <2>1, <2>2 DEF TypeOK, Floor, StartWidth
<1>11. WrittenTwiceIfSpilled' /\ NothingLost' /\ NullsCountedOnce'
  BY <1>1, <1>4, <1>7 DEF WrittenTwiceIfSpilled, NothingLost, NullsCountedOnce
<1> QED BY <1>1, <1>9, <1>10, <1>11 DEF PInv

\* Nothing happens.
LEMMA Unchanged ==
  ASSUME PInv, UNCHANGED vars
  PROVE  PInv'
<1> USE DEF vars, place, window, buffers, tallies
<1>1. Batches' = Batches /\ Readers' = Readers /\ (Sweep' <=> Sweep) /\ Keyed' = Keyed /\ Batch' = Batch
  BY DEF Batches, Readers, Sweep, Keyed, Batch
<1>2. ASSUME NEW r \in Readers
      PROVE  ReaderTyped(r)' /\ (run = "running" => ReaderInv(r)')
  <2>1. ReaderTyped(r)
    BY DEF PInv, TypeOK
  <2>2. ReaderTyped(r)'
    BY <1>1, <2>1 DEF ReaderTyped
  <2>3. ASSUME run = "running"
        PROVE  ReaderInv(r)'
    <3>1. ReaderInv(r) /\ Unnoticed(r)
      BY <2>3 DEF PInv, Unnoticed
    <3> QED BY <2>1, <3>1, UnnoticedKeeps
  <2> QED BY <2>2, <2>3
<1>3. Typed'
  BY <1>1 DEF PInv, Typed
<1>4. TypeOK'
  BY <1>1, <1>2 DEF PInv, TypeOK, Floor, StartWidth
<1>5. NothingLost' /\ WrittenTwiceIfSpilled' /\ NullsCountedOnce'
  BY <1>1 DEF PInv, NothingLost, WrittenTwiceIfSpilled, NullsCountedOnce
<1> QED BY <1>1, <1>2, <1>3, <1>4, <1>5 DEF PInv

\* Every action keeps the invariant.
LEMMA NextKeeps ==
  ASSUME PInv, Next
  PROVE  PInv'
<1>1. ASSUME NEW r \in Readers, Read(r)
      PROVE  PInv'
  <2>1. CASE ReapFails(r)
    <3>1. faults' \in 0..MaxFaults
      BY <2>1 DEF ReapFails, PInv, TypeOK
    <3> QED BY <2>1, <3>1, AbortKeeps DEF ReapFails
  <2> QED BY <1>1, <2>1, StartKeeps, BeginStatementKeeps, PushBatchKeeps, GrantedKeeps,
             EndWindowKeeps, EndStatementKeeps, FinishReadKeeps, DrainedKeeps DEF Read
<1>2. ASSUME NEW r \in Readers, Land(r)
      PROVE  PInv'
  BY <1>2, SendLandsKeeps DEF Land
<1>3. ASSUME NEW r \in Readers, Trouble(r)
      PROVE  PInv'
  <2>1. CASE StatementFails(r)
    <3>1. faults' \in 0..MaxFaults
      BY <2>1, Constants DEF StatementFails, PInv, TypeOK
    <3> QED BY <2>1, <3>1, AbortKeeps DEF StatementFails
  <2> QED BY <1>3, <2>1, CancelWindowKeeps, SendFailsKeeps DEF Trouble
<1>4. CASE Ended
  BY <1>4, Unchanged DEF Ended
<1> QED BY <1>1, <1>2, <1>3, <1>4, AllReadKeeps DEF Next

\* It holds of a read that begins.
LEMMA InitInv ==
  ASSUME Init
  PROVE  PInv
<1> USE DEF Init
<1>1. \A r \in Readers : /\ Len(Batches[r]) \in Nat /\ DOMAIN Batches[r] = 1..Len(Batches[r])
                         /\ lo[r] = 0 /\ buf[r] = <<>> /\ null_rows[r] = <<>> /\ sends[r] = {}
                         /\ step[r] = "queued"
  BY PlanFacts
<1>2. Range(<<>>) = {} /\ Distinct(<<>>)
  BY RangeFacts
<1>3. \A b \in Batch : warned[b] = 0 /\ written[b] = 0
  BY DEF NoBatch
<1>4. Typed
  <2>1. IsFiniteSet({})
    BY FS_EmptySet
  <2>2. mark \in [Readers -> Mark]
    BY DEF Mark
  <2>3. waiters \in Seq(Readers) /\ Distinct(waiters)
    BY <1>2
  <2> QED BY <2>1, <2>2, <2>3 DEF Typed
<1>5. TypeOK
  <2>1. \A r \in Readers : ReaderTyped(r)
    BY <1>1, <1>2 DEF ReaderTyped
  <2>2. Len(waiters) = Cardinality(Range(waiters))
    BY <1>2, FS_EmptySet
  <2>3. warned \in [Batch -> Nat] /\ written \in [Batch -> Nat]
    BY DEF NoBatch
  <2>4. width \in Floor..ReadWindow /\ faults \in 0..MaxFaults
    BY Widths, Constants
  <2> QED BY <2>1, <2>2, <2>3, <2>4 DEF TypeOK
<1>6. ASSUME NEW r \in Readers
      PROVE  ReaderInv(r)
  <2>1. Decoded(r) = 0 /\ Reached(r) = 0 /\ Counted(r) = 0
    BY <1>1 DEF Decoded, Reached, Counted
  <2>2. \A i \in DOMAIN Batches[r] : /\ ~(i <= 0) /\ i \in Nat
                                     /\ warned[<<r, i>>] = 0 /\ written[<<r, i>>] = 0
    BY <1>1, <1>3, BatchFacts
  <2>3. InStatement(r) /\ Marked(r) /\ Covered(r) /\ InOnePlace(r)
    BY <1>1, <1>2, <2>1, <2>2 DEF InStatement, Marked, Covered, InOnePlace
  <2>4. Tallied(r)
    BY <1>1, <1>2, <2>1, <2>2 DEF Tallied
  <2> QED BY <2>3, <2>4 DEF ReaderInv
<1>7. NothingLost /\ WrittenTwiceIfSpilled /\ NullsCountedOnce
  BY <1>3 DEF NothingLost, WrittenTwiceIfSpilled, NullsCountedOnce
<1> QED BY <1>4, <1>5, <1>6, <1>7 DEF PInv

\* PInv is an invariant of the pipeline.
THEOREM PipelineInvariant == Spec => []PInv
<1>1. Init => PInv
  BY InitInv
<1>2. PInv /\ [Next]_vars => PInv'
  BY NextKeeps, Unchanged
<1> QED BY <1>1, <1>2, PTL DEF Spec

\* What a run that succeeds read is written, whatever was sent early, deferred,
\* cancelled or reaped late.
THEOREM NothingIsLost == Spec => []NothingLost
<1>1. PInv => NothingLost
  BY DEF PInv
<1> QED BY <1>1, PipelineInvariant, PTL

\* A batch is written twice only if memory pressure sent it in a window the
\* source then cancelled.
THEOREM TwiceIsSpilled == Spec => []WrittenTwiceIfSpilled
<1>1. PInv => WrittenTwiceIfSpilled
  BY DEF PInv
<1> QED BY <1>1, PipelineInvariant, PTL

\* The rows NullGuard finds are counted once in a run that succeeds, however
\* often their window was read.
THEOREM NullsAreCountedOnce == Spec => []NullsCountedOnce
<1>1. PInv => NullsCountedOnce
  BY DEF PInv
<1> QED BY <1>1, PipelineInvariant, PTL

-----------------------------------------------------------------------------
(* Memory.                                                                 *)

\* What a batch reserves.
LEMMA Wants ==
  ASSUME plan \in Reads, NEW r \in Readers, NEW i \in DOMAIN Batches[r]
  PROVE  /\ SizeOf(r, i) \in Nat /\ Want(SizeOf(r, i)) \in Nat
         /\ MaxMemory # 0 =>
              /\ 1 <= Want(SizeOf(r, i))
              /\ IF SizeOf(r, i) > MaxMemory THEN Want(SizeOf(r, i)) = MaxMemory
                 ELSE SizeOf(r, i) <= Want(SizeOf(r, i))
<1> DEFINE B == [size : Nat, nulls : BOOLEAN, kept : BOOLEAN]
<1>1. Batches[r] \in Seq(B)
  BY PipelineConstants DEF Readers, Batches
<1>2. \A b \in B : b.size \in Nat
  OBVIOUS
<1> HIDE DEF B
<1>3. Batches[r][i] \in B
  BY <1>1
<1>4. SizeOf(r, i) \in Nat
  BY <1>2, <1>3 DEF SizeOf
<1> QED BY <1>4, Constants DEF Want

\* What the batches of a group reserve together.
LEMMA ReservedFacts ==
  ASSUME plan \in Reads, NEW r \in Readers,
         NEW group \in Seq(Nat), Range(group) \subseteq DOMAIN Batches[r]
  PROVE  /\ Reserved(r, group) \in Nat /\ Reserved(r, <<>>) = 0
         /\ \A i \in DOMAIN Batches[r] :
              Reserved(r, Append(group, i)) = Reserved(r, group) + Want(SizeOf(r, i))
         /\ \A k \in 0..Len(group) : Reserved(r, SubSeq(group, 1, k)) <= Reserved(r, group)
<1> DEFINE f == [j \in DOMAIN group |-> Want(SizeOf(r, group[j]))]
<1>1. DOMAIN group = 1..Len(group) /\ Len(group) \in Nat /\ IsFiniteSet(DOMAIN group)
  BY FS_Interval
<1>2. \A j \in DOMAIN group : group[j] \in DOMAIN Batches[r]
  BY DEF Range
<1>3. f \in [DOMAIN group -> Nat]
  BY <1>2, Wants
<1>4. Reserved(r, group) = SumFunction(f)
  BY DEF Reserved
<1>5. Reserved(r, group) \in Nat
  <2>1. f \in [DOMAIN group -> Int]
    BY <1>3
  <2> HIDE DEF f
  <2> QED BY <1>1, <1>3, <1>4, <2>1, SumType
<1>6. Reserved(r, <<>>) = 0
  BY SumEmpty DEF Reserved
<1>7. ASSUME NEW i \in DOMAIN Batches[r]
      PROVE  Reserved(r, Append(group, i)) = Reserved(r, group) + Want(SizeOf(r, i))
  <2> DEFINE n   == Len(group) + 1
             app == Append(group, i)
             v   == Want(SizeOf(r, i))
  <2>1. i \in Nat /\ v \in Int
    BY Wants, PlanFacts
  <2>2. /\ DOMAIN app = DOMAIN group \cup {n} /\ n \notin DOMAIN group
        /\ app[n] = i /\ \A j \in DOMAIN group : app[j] = group[j] /\ j # n
    BY <1>1, <2>1
  <2> DEFINE e == [j \in DOMAIN app |-> Want(SizeOf(r, app[j]))]
  <2>3. e[n] = v /\ \A j \in DOMAIN group : e[j] = f[j]
    BY <2>2
  <2>4. f \in [DOMAIN group -> Int] /\ e \in [DOMAIN group \cup {n} -> Int]
    <3>1. \A j \in DOMAIN group \cup {n} : Want(SizeOf(r, app[j])) \in Int
      BY <1>2, <2>2, Wants
    <3> QED BY <1>3, <2>2, <3>1
  <2>5. Reserved(r, app) = SumFunction(e)
    BY DEF Reserved
  <2> HIDE DEF f, v, n, app, e
  <2>6. SumFunction(e) = SumFunction(f) + e[n]
    <3>1. Adds(e, f, DOMAIN group, n)
      BY <1>1, <2>2, <2>3, <2>4 DEF Adds
    <3> QED BY <3>1, SumAdd
  <2> QED BY <1>4, <2>3, <2>5, <2>6 DEF v, app
<1>8. ASSUME NEW k \in 0..Len(group)
      PROVE  Reserved(r, SubSeq(group, 1, k)) <= Reserved(r, group)
  <2> DEFINE cut == SubSeq(group, 1, k)
             e   == [j \in DOMAIN cut |-> Want(SizeOf(r, cut[j]))]
  <2>1. DOMAIN cut = 1..k /\ \A j \in 1..k : cut[j] = group[j]
    <3>1. cut \in Seq(Nat) /\ Len(cut) = k /\ \A j \in 1..k : cut[j] = group[j]
      BY CutOff
    <3> HIDE DEF cut
    <3> QED BY <3>1
  <2>2. 1..k \subseteq DOMAIN group /\ IsFiniteSet(1..k)
    BY <1>1, FS_Interval
  <2>3. e = [j \in 1..k |-> f[j]]
    <3>1. \A j \in 1..k : Want(SizeOf(r, cut[j])) = f[j]
      BY <2>1, <2>2
    <3> HIDE DEF f, cut
    <3> QED BY <2>1, <3>1
  <2>4. e \in [1..k -> Int] /\ f \in [DOMAIN group -> Int]
    BY <1>3, <2>2, <2>3
  <2>5. /\ \A j \in (1..k) \cap DOMAIN group : e[j] <= f[j]
        /\ (1..k) \ DOMAIN group = {}
        /\ \A j \in DOMAIN group : 0 <= f[j]
    BY <1>3, <2>2, <2>3
  <2>6. Reserved(r, cut) = SumFunction(e)
    BY DEF Reserved
  <2> HIDE DEF e, f, cut
  <2>7. SumFunction(e) <= SumFunction(f)
    <3>1. Below(e, 1..k, f, DOMAIN group)
      BY <1>1, <2>2, <2>4, <2>5 DEF Below
    <3> QED BY <3>1, SumLeq
  <2> QED BY <1>4, <2>6, <2>7 DEF cut
<1> QED BY <1>5, <1>6, <1>7, <1>8

\* What the inserts of a reader hold.
Flying(r) == SumFunction([s \in InFlight(r) |-> Reserved(r, s.group)])

\* What a reader holds, of a read that goes on.
LEMMA HeldFacts ==
  ASSUME PInv, run = "running", NEW r \in Readers
  PROVE  /\ IsFiniteSet(InFlight(r))
         /\ [s \in InFlight(r) |-> Reserved(r, s.group)] \in [InFlight(r) -> Nat]
         /\ Flying(r) \in Nat /\ Reserved(r, buf[r]) \in Nat
         /\ HeldBy(r) = Reserved(r, buf[r]) + Flying(r)
<1>1. IsFiniteSet(InFlight(r))
  BY FS_Subset DEF InFlight, PInv, Typed
<1>2. ASSUME NEW s \in InFlight(r)
      PROVE  Reserved(r, s.group) \in Nat
  <2>1. s.group \in Seq(Nat) /\ Range(s.group) \subseteq DOMAIN Batches[r]
    BY DEF InFlight, PInv, Typed, Send, ReaderInv, InStatement
  <2> QED BY <2>1, ReservedFacts DEF PInv, Typed
<1> DEFINE f == [s \in InFlight(r) |-> Reserved(r, s.group)]
<1>3. f \in [InFlight(r) -> Nat]
  BY <1>2
<1>4. Flying(r) \in Nat
  <2>1. f \in [InFlight(r) -> Int]
    BY <1>3
  <2> HIDE DEF f
  <2>2. SumFunction(f) \in Nat
    BY <1>1, <1>3, <2>1, SumType
  <2> QED BY <2>2 DEF Flying, f
<1>5. Reserved(r, buf[r]) \in Nat
  <2>1. buf[r] \in Seq(Nat) /\ Range(buf[r]) \subseteq DOMAIN Batches[r]
    BY DEF PInv, Typed, TypeOK, ReaderTyped
  <2> QED BY <2>1, ReservedFacts DEF PInv, Typed
<1> QED BY <1>1, <1>3, <1>4, <1>5 DEF HeldBy, Flying

\* Together.
LEMMA AllHeld ==
  ASSUME PInv, run = "running"
  PROVE  /\ IsFiniteSet(Readers) /\ [r \in Readers |-> HeldBy(r)] \in [Readers -> Nat]
         /\ Held \in Nat
<1>1. IsFiniteSet(Readers)
  BY PipelineConstants DEF PInv, Typed, Readers, Batches
<1>2. \A r \in Readers : HeldBy(r) \in Nat
  BY HeldFacts
<1> DEFINE f == [r \in Readers |-> HeldBy(r)]
<1>3. f \in [Readers -> Nat] /\ f \in [Readers -> Int]
  BY <1>2
<1>4. Held = SumFunction(f)
  BY DEF Held
<1> HIDE DEF f
<1>5. SumFunction(f) \in Nat
  BY <1>1, <1>3, SumType
<1> QED BY <1>1, <1>3, <1>4, <1>5 DEF f

\* A step of one reader changes what is held by what it changes of its own.
LEMMA OneReaderHolds ==
  ASSUME PInv, run = "running", plan' = plan, NEW r \in Readers,
         \A q \in Readers : q # r => buf'[q] = buf[q] /\ sends'[q] = sends[q],
         NEW v \in Int, HeldBy(r)' = v
  PROVE  Held' = Held - HeldBy(r) + v
<1> DEFINE f == [q \in Readers |-> HeldBy(q)]
<1>1. Batches' = Batches /\ Readers' = Readers
  BY DEF Batches, Readers
<1>2. ASSUME NEW q \in Readers, q # r
      PROVE  HeldBy(q)' = HeldBy(q)
  BY <1>1, <1>2 DEF HeldBy, InFlight, Reserved, SizeOf, Batches
<1>3. Held' = SumFunction([q \in Readers |-> IF q = r THEN v ELSE HeldBy(q)])
  <2>1. \A q \in Readers : HeldBy(q)' = IF q = r THEN v ELSE HeldBy(q)
    BY <1>2
  <2>2. Held' = SumFunction([q \in Readers |-> HeldBy(q)'])
    BY <1>1 DEF Held
  <2>3. [q \in Readers |-> HeldBy(q)'] = [q \in Readers |-> IF q = r THEN v ELSE HeldBy(q)]
    BY <2>1
  <2> QED BY <2>2, <2>3
<1>4. [q \in Readers |-> IF q = r THEN v ELSE HeldBy(q)] = [f EXCEPT ![r] = v]
  OBVIOUS
<1>5. IsFiniteSet(Readers) /\ f \in [Readers -> Int]
  BY AllHeld
<1>6. f[r] = HeldBy(r) /\ Held = SumFunction(f)
  BY DEF Held
<1> HIDE DEF f
<1>7. SumFunction([f EXCEPT ![r] = v]) = SumFunction(f) - f[r] + v
  BY <1>5, SumExcept
<1> QED BY <1>3, <1>4, <1>6, <1>7

\* What is put in a buffer is held there, or by the insert it is sent in.
LEMMA PutHolds ==
  ASSUME PInv, run = "running", plan' = plan, NEW r \in Readers, NEW group \in Seq(Nat),
         Range(group) \subseteq DOMAIN Batches[r], KeepIn(r, group) \/ Flush(r, group)
  PROVE  /\ HeldBy(r)' = Reserved(r, group) + Flying(r)
         /\ \A q \in Readers : q # r => buf'[q] = buf[q] /\ sends'[q] = sends[q]
<1> DEFINE new == [take |-> takes[r], group |-> group, failed |-> FALSE]
           f   == [s \in InFlight(r) |-> Reserved(r, s.group)]
<1>0. /\ \A q \in Readers : q # r => buf'[q] = buf[q] /\ sends'[q] = sends[q]
      /\ \/ buf'[r] = group /\ sends'[r] = sends[r]
         \/ group # <<>> /\ buf'[r] = <<>> /\ sends'[r] = sends[r] \cup {new}
  BY Moves DEF PInv
<1>1. \A g : Reserved(r, g)' = Reserved(r, g)
  BY DEF Reserved, SizeOf, Batches
<1>2. CASE buf'[r] = group /\ sends'[r] = sends[r]
  <2>1. InFlight(r)' = InFlight(r)
    BY <1>2 DEF InFlight
  <2>2. HeldBy(r)' = Reserved(r, group) + Flying(r)
    BY <1>1, <1>2, <2>1 DEF HeldBy, Flying, Reserved, SizeOf, Batches
  <2> QED BY <1>0, <2>2
<1>3. CASE group # <<>> /\ buf'[r] = <<>> /\ sends'[r] = sends[r] \cup {new}
  <2>1. new \notin InFlight(r)
    <3>1. \A s \in sends[r] : s.take < takes[r] /\ takes[r] \in Nat
      BY DEF PInv, TypeOK, ReaderTyped, Typed
    <3> QED BY <3>1 DEF InFlight
  <2>2. InFlight(r)' = InFlight(r) \cup {new}
    BY <1>3 DEF InFlight
  <2> DEFINE v == Reserved(r, group)
  <2>3. v \in Nat /\ Reserved(r, <<>>) = 0
    BY ReservedFacts DEF PInv, Typed
  <2> DEFINE e == [s \in InFlight(r) \cup {new} |-> Reserved(r, s.group)]
  <2>4. Flying(r)' = SumFunction(e)
    BY <2>2 DEF Flying, Reserved, SizeOf, Batches
  <2>5. /\ f \in [InFlight(r) -> Int] /\ IsFiniteSet(InFlight(r)) /\ Flying(r) = SumFunction(f)
        /\ \A s \in InFlight(r) : Reserved(r, s.group) \in Int
    <3>1. f \in [InFlight(r) -> Nat] /\ IsFiniteSet(InFlight(r))
      BY HeldFacts
    <3> QED BY <3>1 DEF Flying
  <2>6. Flying(r) \in Nat
    BY HeldFacts
  <2>7. HeldBy(r)' = Reserved(r, <<>>) + Flying(r)'
    BY <1>1, <1>3 DEF HeldBy, Flying
  <2>8. e[new] = v /\ \A s \in InFlight(r) : e[s] = f[s]
    OBVIOUS
  <2>9. e \in [InFlight(r) \cup {new} -> Int]
    BY <2>3, <2>5
  <2> HIDE DEF f, v, new, e
  <2>10. SumFunction(e) = SumFunction(f) + e[new]
    <3>1. Adds(e, f, InFlight(r), new)
      BY <2>1, <2>5, <2>8, <2>9 DEF Adds
    <3> QED BY <3>1, SumAdd
  <2>11. HeldBy(r)' = v + Flying(r)
    BY <2>3, <2>4, <2>5, <2>6, <2>7, <2>8, <2>10
  <2> QED BY <1>0, <2>11 DEF v
<1> QED BY <1>0, <1>2, <1>3

\* What a reader puts in its buffer changes what is held by what it reserves
\* more than what was there.
LEMMA PutChanges ==
  ASSUME PInv, run = "running", plan' = plan, NEW r \in Readers, NEW group \in Seq(Nat),
         Range(group) \subseteq DOMAIN Batches[r], KeepIn(r, group) \/ Flush(r, group)
  PROVE  Held' = Held - Reserved(r, buf[r]) + Reserved(r, group)
<1> DEFINE v == Reserved(r, group) + Flying(r)
<1>1. HeldBy(r)' = v /\ \A q \in Readers : q # r => buf'[q] = buf[q] /\ sends'[q] = sends[q]
  BY PutHolds
<1>2. /\ Flying(r) \in Nat /\ Reserved(r, buf[r]) \in Nat
      /\ HeldBy(r) = Reserved(r, buf[r]) + Flying(r)
  BY HeldFacts
<1>3. Reserved(r, group) \in Nat /\ v \in Int
  BY <1>2, ReservedFacts DEF PInv, Typed
<1> HIDE DEF v
<1>4. Held' = Held - HeldBy(r) + v
  BY <1>1, <1>3, OneReaderHolds
<1>5. Held \in Nat
  BY AllHeld
<1> QED BY <1>2, <1>3, <1>4, <1>5 DEF v

\* A buffer that is kept or sent as it is holds what it held.
LEMMA SendingHolds ==
  ASSUME PInv, run = "running", plan' = plan, NEW r \in Readers,
         KeepIn(r, buf[r]) \/ Flush(r, buf[r])
  PROVE  Held' = Held
<1>1. buf[r] \in Seq(Nat) /\ Range(buf[r]) \subseteq DOMAIN Batches[r]
  BY DEF PInv, Typed, TypeOK, ReaderTyped
<1> DEFINE group == buf[r]
<1>2. group \in Seq(Nat) /\ Range(group) \subseteq DOMAIN Batches[r]
  BY <1>1
<1>3. KeepIn(r, group) \/ Flush(r, group)
  OBVIOUS
<1>4. Reserved(r, group) \in Nat
  BY HeldFacts
<1>5. Held \in Nat
  BY AllHeld
<1>6. Held' = Held - Reserved(r, buf[r]) + Reserved(r, group)
  <2> HIDE DEF group
  <2> QED BY <1>2, <1>3, PutChanges
<1> QED BY <1>4, <1>5, <1>6

\* A batch that joins a buffer holds what it wants.
LEMMA PushHolds ==
  ASSUME PInv, run = "running", plan' = plan, NEW r \in Readers, NEW i \in DOMAIN Batches[r],
         Push(r, i)
  PROVE  Held' = Held + Want(SizeOf(r, i))
<1> DEFINE group == Append(buf[r], i)
<1>1. buf[r] \in Seq(Nat) /\ Range(buf[r]) \subseteq DOMAIN Batches[r] /\ i \in Nat
  BY PlanFacts DEF PInv, Typed, TypeOK, ReaderTyped
<1>2. group \in Seq(Nat) /\ Range(group) \subseteq DOMAIN Batches[r]
  BY <1>1, Appended
<1>3. KeepIn(r, group) \/ Flush(r, group)
  BY DEF Push
<1>4. Reserved(r, buf[r]) \in Nat /\ Held \in Nat /\ Want(SizeOf(r, i)) \in Nat
  BY HeldFacts, AllHeld, Wants DEF PInv, Typed
<1>5. Reserved(r, group) = Reserved(r, buf[r]) + Want(SizeOf(r, i))
  BY <1>1, ReservedFacts DEF PInv, Typed
<1> HIDE DEF group
<1>6. Held' = Held - Reserved(r, buf[r]) + Reserved(r, group)
  BY <1>2, <1>3, PutChanges
<1> QED BY <1>4, <1>5, <1>6

\* What waiters want is not negative.
LEMMA QueuedType ==
  ASSUME PInv, run = "running"
  PROVE  /\ Queued \in Nat
         /\ \A r \in Readers : step[r] = "waiting" => at[r] \in DOMAIN Batches[r]
<1>1. ASSUME NEW r \in Readers, step[r] = "waiting"
      PROVE  at[r] \in DOMAIN Batches[r]
  <2>1. StatementEnd(r) \in lo[r]..Len(Batches[r])
    BY Ends DEF PInv
  <2>2. /\ hi[r] = StatementEnd(r) /\ at[r] \in lo[r]..hi[r] /\ lo[r] < at[r]
        /\ lo[r] \in Nat /\ at[r] \in Nat /\ hi[r] \in Nat
    BY <1>1 DEF PInv, ReaderInv, InStatement, Typed
  <2> QED BY <2>1, <2>2, PlanFacts DEF PInv, Typed
<1> DEFINE f == [i \in DOMAIN waiters |-> Awaited(waiters[i])]
<1>2. ASSUME NEW i \in DOMAIN waiters
      PROVE  Awaited(waiters[i]) \in Nat
  <2>1. waiters[i] \in Readers /\ waiters[i] \in Range(waiters)
    BY DEF PInv, Typed, Range
  <2>2. step[waiters[i]] = "waiting"
    BY <2>1 DEF PInv, TypeOK, ReaderTyped
  <2>3. at[waiters[i]] \in DOMAIN Batches[waiters[i]]
    BY <1>1, <2>1, <2>2
  <2> QED BY <2>1, <2>3, Wants DEF Awaited, PInv, Typed
<1>3. f \in [DOMAIN waiters -> Nat] /\ f \in [DOMAIN waiters -> Int]
  BY <1>2
<1>4. IsFiniteSet(DOMAIN waiters)
  BY FS_Interval DEF PInv, Typed
<1>5. Queued = SumFunction(f)
  BY DEF Queued
<1> HIDE DEF f
<1>6. SumFunction(f) \in Nat
  BY <1>3, <1>4, SumType
<1> QED BY <1>1, <1>5, <1>6

\* What ends gives its memory back.
LEMMA LandingReleases ==
  ASSUME PInv, run = "running", plan' = plan, buf' = buf, NEW r \in Readers,
         \A q \in Readers : q # r => sends'[q] = sends[q],
         InFlight(r)' \subseteq InFlight(r)
  PROVE  Held' <= Held
<1> DEFINE V == InFlight(r)'
           e == [s \in V |-> Reserved(r, s.group)]
           f == [s \in InFlight(r) |-> Reserved(r, s.group)]
<1>1. /\ IsFiniteSet(InFlight(r)) /\ f \in [InFlight(r) -> Nat]
      /\ Flying(r) \in Nat /\ Reserved(r, buf[r]) \in Nat
      /\ HeldBy(r) = Reserved(r, buf[r]) + Flying(r)
  BY HeldFacts
<1>2. Flying(r) = SumFunction(f) /\ Flying(r)' = SumFunction(e)
  BY DEF Flying, Reserved, SizeOf, Batches
<1>3. HeldBy(r)' = Reserved(r, buf[r]) + Flying(r)'
  BY DEF HeldBy, Flying, Reserved, SizeOf, Batches
<1>4. \A s \in InFlight(r) : Reserved(r, s.group) \in Nat
  BY <1>1
<1>5. IsFiniteSet(V) /\ V \subseteq InFlight(r)
  BY <1>1, FS_Subset
<1>6. e \in [V -> Int] /\ e \in [V -> Nat] /\ f \in [InFlight(r) -> Int]
      /\ \A s \in V : e[s] = f[s]
  BY <1>4, <1>5
<1> HIDE DEF V, e, f
<1>7. SumFunction(e) <= SumFunction(f) /\ SumFunction(e) \in Nat
  <2>1. Below(e, V, f, InFlight(r))
    BY <1>1, <1>5, <1>6 DEF Below
  <2> QED BY <1>5, <1>6, <2>1, SumLeq, SumType
<1> DEFINE v == Reserved(r, buf[r]) + SumFunction(e)
<1>8. HeldBy(r)' = v /\ v \in Int /\ v <= HeldBy(r) /\ HeldBy(r) \in Nat
  BY <1>1, <1>2, <1>3, <1>7
<1> HIDE DEF v
<1>9. Held' = Held - HeldBy(r) + v
  BY <1>8, OneReaderHolds
<1>10. Held \in Nat
  BY AllHeld
<1> QED BY <1>8, <1>9, <1>10

\* Nothing is held when nothing is buffered or in flight.
LEMMA NothingHeld == plan \in Reads /\ Empty => Held = 0
<1> SUFFICES ASSUME plan \in Reads, Empty PROVE Held = 0
  OBVIOUS
<1>1. ASSUME NEW r \in Readers
      PROVE  HeldBy(r) = 0
  <2>1. InFlight(r) = {} /\ buf[r] = <<>>
    BY DEF Empty, InFlight
  <2>2. Reserved(r, <<>>) = 0
    BY SumEmpty DEF Reserved
  <2>3. SumFunction([s \in InFlight(r) |-> Reserved(r, s.group)]) = 0
    BY <2>1, SumEmpty
  <2> QED BY <2>1, <2>2, <2>3 DEF HeldBy
<1>2. IsFiniteSet(Readers)
  BY PipelineConstants DEF Readers, Batches
<1> DEFINE f == [r \in Readers |-> HeldBy(r)]
<1>3. f = [r \in Readers |-> 0] /\ Held = SumFunction(f)
  BY <1>1 DEF Held
<1> HIDE DEF f
<1> QED BY <1>2, <1>3, SumZeros

\* Actions that neither buffer, send nor end an insert.
LEMMA NothingMoves ==
  ASSUME plan' = plan, buf' = buf, sends' = sends
  PROVE  Held' = Held /\ (Empty' <=> Empty)
<1>1. Readers' = Readers /\ Batches' = Batches
  BY DEF Readers, Batches
<1> QED BY <1>1 DEF Held, HeldBy, InFlight, Reserved, SizeOf, Batches, Empty

\* The run's first error drops all of it.
LEMMA DropsAll ==
  ASSUME PInv', Abort
  PROVE  MInv'
<1>1. run' = "failed" /\ Empty'
  <2>1. plan' = plan /\ buf' = [r \in Readers |-> <<>>] /\ sends' = [r \in Readers |-> {}]
        /\ run' = "failed"
    BY DEF Abort, window
  <2>2. Readers' = Readers
    BY <2>1 DEF Readers, Batches
  <2> QED BY <2>1, <2>2 DEF Empty
<1>2. (plan \in Reads /\ Empty => Held = 0)'
  BY NothingHeld, PTL
<1>3. Held' = 0
  BY <1>1, <1>2 DEF PInv, Typed
<1> QED BY <1>1, <1>3, Constants DEF MInv, WithinCeiling, Emptied

\* A reader takes no more than is left of the ceiling.
LEMMA ReadsWithin ==
  ASSUME MInv, PInv', NEW r \in Readers, Read(r)
  PROVE  MInv'
<1>0. PInv /\ WithinCeiling
  BY DEF MInv
<1>1. CASE Start(r) \/ BeginStatement(r) \/ EndStatement(r) \/ Drained(r)
  <2>1. plan' = plan /\ buf' = buf /\ sends' = sends /\ run = "running" /\ run' = run
    BY <1>1 DEF Start, BeginStatement, EndStatement, Drained, window, buffers
  <2>2. Held' = Held
    BY <2>1, NothingMoves
  <2> QED BY <2>1, <2>2 DEF MInv, WithinCeiling, Emptied
<1>2. CASE PushBatch(r)
  <2> DEFINE i == at[r] + 1
  <2>1. /\ run = "running" /\ run' = run /\ plan' = plan /\ step[r] = "read" /\ at[r] < hi[r]
        /\ at' = [at EXCEPT ![r] = @ + 1]
    BY <1>2 DEF PushBatch, window
  <2>2. at'[r] = i /\ i \in DOMAIN Batches[r] /\ i \in Nat
    <3>1. /\ at[r] \in Nat /\ hi[r] \in Nat /\ hi[r] <= Len(Batches[r])
          /\ DOMAIN Batches[r] = 1..Len(Batches[r]) /\ Len(Batches[r]) \in Nat
      BY <1>0, <2>1, PlanFacts DEF PInv, Typed, TypeOK, ReaderTyped
    <3>2. at'[r] = i
      BY <1>0, <2>1 DEF PInv, Typed
    <3> QED BY <2>1, <3>1, <3>2
  <2> HIDE DEF i
  <2>3. \/ UNCHANGED buffers
        \/ TryReserve(SizeOf(r, i)) /\ Push(r, i)
        \/ MakeRoom(r)
    BY <1>2, <2>2 DEF PushBatch
  <2>4. Held \in Nat /\ Queued \in Nat /\ Want(SizeOf(r, i)) \in Nat
    BY <1>0, <2>1, <2>2, AllHeld, QueuedType, Wants DEF PInv, Typed
  <2>5. CASE UNCHANGED buffers
    <3>1. Held' = Held
      BY <2>1, <2>5, NothingMoves DEF buffers
    <3> QED BY <2>1, <3>1 DEF MInv, WithinCeiling, Emptied
  <2>6. CASE TryReserve(SizeOf(r, i)) /\ Push(r, i)
    <3>1. Held' = Held + Want(SizeOf(r, i))
      BY <1>0, <2>1, <2>2, <2>6, PushHolds
    <3>2. MaxMemory # 0 => Held + Queued + Want(SizeOf(r, i)) <= MaxMemory
      BY <2>6 DEF TryReserve
    <3>3. MaxMemory # 0 => Held' <= MaxMemory
      BY <2>4, <3>1, <3>2, Constants
    <3> QED BY <2>1, <3>3 DEF MInv, WithinCeiling, Emptied
  <2>7. CASE MakeRoom(r)
    <3>1. Held' = Held
      BY <1>0, <2>1, <2>7, SendingHolds DEF MakeRoom
    <3> QED BY <2>1, <3>1 DEF MInv, WithinCeiling, Emptied
  <2> QED BY <2>3, <2>5, <2>6, <2>7
<1>3. CASE Granted(r)
  <2> DEFINE i == at[r]
  <2>1. /\ run = "running" /\ run' = run /\ plan' = plan /\ step[r] = "waiting"
        /\ Held + Want(SizeOf(r, i)) <= MaxMemory /\ Push(r, i)
    BY <1>3 DEF Granted, window, Awaited
  <2>2. i \in DOMAIN Batches[r]
    BY <1>0, <2>1, QueuedType
  <2> HIDE DEF i
  <2>3. Held' = Held + Want(SizeOf(r, i))
    BY <1>0, <2>1, <2>2, PushHolds
  <2> QED BY <2>1, <2>3 DEF MInv, WithinCeiling, Emptied
<1>4. CASE EndWindow(r) \/ FinishRead(r)
  <2>1. /\ run = "running" /\ run' = run /\ plan' = plan
        /\ KeepIn(r, buf[r]) \/ Flush(r, buf[r])
    BY <1>4 DEF EndWindow, FinishRead, window
  <2>2. Held' = Held
    BY <1>0, <2>1, SendingHolds
  <2> QED BY <2>1, <2>2 DEF MInv, WithinCeiling, Emptied
<1>5. CASE ReapFails(r)
  BY <1>5, DropsAll DEF ReapFails
<1> QED BY <1>1, <1>2, <1>3, <1>4, <1>5 DEF Read

\* Inserts that end, windows that are cancelled and statements that fail give
\* memory back.
LEMMA TroubleWithin ==
  ASSUME MInv, PInv', NEW r \in Readers, Trouble(r) \/ Land(r)
  PROVE  MInv'
<1>0. PInv /\ WithinCeiling
  BY DEF MInv
<1>1. ASSUME NEW s \in sends[r], SendLands(r, s) \/ SendFails(r, s)
      PROVE  MInv'
  <2> DEFINE failing == [s EXCEPT !.failed = TRUE]
  <2>1. /\ run = "running" /\ run' = run /\ plan' = plan /\ buf' = buf
        /\ \/ sends' = [sends EXCEPT ![r] = @ \ {s}]
           \/ sends' = [sends EXCEPT ![r] = (@ \ {s}) \cup {failing}]
    BY <1>1 DEF SendLands, SendFails, window
  <2>2. failing.failed = TRUE
    <3>1. s \in Send
      BY <1>0 DEF PInv, Typed
    <3> QED BY <3>1, FailedSend
  <2> HIDE DEF failing
  <2>3. /\ \A q \in Readers : q # r => sends'[q] = sends[q]
        /\ \/ sends'[r] = sends[r] \ {s}
           \/ sends'[r] = (sends[r] \ {s}) \cup {failing}
    BY <1>0, <2>1 DEF PInv, Typed
  <2>4. InFlight(r)' \subseteq InFlight(r)
    BY <2>2, <2>3 DEF InFlight
  <2>5. Held' <= Held
    BY <1>0, <2>1, <2>3, <2>4, LandingReleases
  <2>6. Held \in Nat /\ (Held \in Nat)'
    <3>1. PInv /\ run = "running" => Held \in Nat
      BY AllHeld
    <3>2. (PInv /\ run = "running" => Held \in Nat)'
      BY AllHeld, PTL
    <3> QED BY <1>0, <2>1, <3>1, <3>2
  <2>7. MaxMemory # 0 => Held' <= MaxMemory
    BY <1>0, <2>5, <2>6, Constants DEF WithinCeiling
  <2> QED BY <2>1, <2>7 DEF MInv, WithinCeiling, Emptied
<1>2. CASE CancelWindow(r)
  <2> DEFINE k     == Kept(r)
             group == SubSeq(buf[r], 1, k)
  <2>1. run = "running" /\ run' = run /\ plan' = plan /\ KeepIn(r, group)
    BY <1>2 DEF CancelWindow
  <2>2. buf[r] \in Seq(Nat) /\ Range(buf[r]) \subseteq DOMAIN Batches[r]
    BY <1>0 DEF PInv, Typed, TypeOK, ReaderTyped
  <2>3. k \in 0..Len(buf[r])
    <3>1. mark[r].len \in Nat /\ Len(buf[r]) \in Nat
      BY <1>0, <2>2 DEF PInv, Typed, Mark
    <3> QED BY <3>1 DEF Kept
  <2> HIDE DEF k
  <2>4. group \in Seq(Nat) /\ Range(group) \subseteq DOMAIN Batches[r]
    <3>1. group \in Seq(Nat) /\ Range(group) = {buf[r][j] : j \in 1..k}
      BY <2>2, <2>3, CutOff
    <3> HIDE DEF group
    <3>2. 1..k \subseteq DOMAIN buf[r]
      BY <2>2, <2>3
    <3> QED BY <2>2, <3>1, <3>2 DEF Range
  <2>5. Reserved(r, group) <= Reserved(r, buf[r])
    BY <1>0, <2>2, <2>3, ReservedFacts DEF PInv, Typed
  <2> HIDE DEF group
  <2>6. Held' = Held - Reserved(r, buf[r]) + Reserved(r, group)
    BY <1>0, <2>1, <2>4, PutChanges
  <2>7. Held \in Nat /\ Reserved(r, buf[r]) \in Nat /\ Reserved(r, group) \in Nat
    BY <1>0, <2>1, <2>4, AllHeld, HeldFacts, ReservedFacts DEF PInv, Typed
  <2>8. MaxMemory # 0 => Held' <= MaxMemory
    BY <1>0, <2>5, <2>6, <2>7, Constants DEF WithinCeiling
  <2> QED BY <2>1, <2>8 DEF MInv, WithinCeiling, Emptied
<1>3. CASE StatementFails(r)
  BY <1>3, DropsAll DEF StatementFails
<1> QED BY <1>1, <1>2, <1>3 DEF Trouble, Land

\* Every step keeps to the ceiling.
LEMMA NextWithin ==
  ASSUME MInv, PInv', [Next]_vars
  PROVE  MInv'
<1>1. CASE AllRead
  <2>1. /\ plan' = plan /\ buf' = buf /\ sends' = sends /\ run = "running"
        /\ \A r \in Readers : step[r] = "done"
    BY <1>1 DEF AllRead, window, buffers
  <2>2. Empty
    BY <2>1 DEF MInv, PInv, ReaderInv, InStatement, Empty
  <2>3. Held' = Held /\ Empty'
    BY <2>1, <2>2, NothingMoves
  <2> QED BY <2>3 DEF MInv, WithinCeiling, Emptied
<1>2. CASE UNCHANGED vars
  <2>1. plan' = plan /\ buf' = buf /\ sends' = sends /\ run' = run
    BY <1>2 DEF vars, window, buffers
  <2>2. Held' = Held /\ (Empty' <=> Empty)
    BY <2>1, NothingMoves
  <2> QED BY <2>1, <2>2 DEF MInv, WithinCeiling, Emptied
<1> QED BY <1>1, <1>2, ReadsWithin, TroubleWithin DEF Next, Ended

\* A group's sizes, how many they are, and what they reserve.
Large(r, group) == \E i \in Range(group) : SizeOf(r, i) > MaxMemory
GroupWithin(r, group) ==
  /\ Bytes(r, group) \in Nat /\ Reserved(r, group) \in Nat
  /\ Len(group) \in Nat /\ Len(group) <= Reserved(r, group)
  /\ ~Large(r, group) => Bytes(r, group) <= Reserved(r, group)
  /\ Large(r, group) => Len(group) # 0 /\ Len(group) + MaxMemory - 1 <= Reserved(r, group)

\* The batches of a group are within their estimates and what they reserve.
LEMMA GroupFacts ==
  ASSUME MaxMemory # 0, plan \in Reads, NEW r \in Readers,
         NEW group \in Seq(Nat), Range(group) \subseteq DOMAIN Batches[r]
  PROVE  GroupWithin(r, group)
<1> DEFINE D == DOMAIN group
           f == [j \in D |-> Want(SizeOf(r, group[j]))]
           e == [j \in D |-> SizeOf(r, group[j])]
           o == [j \in D |-> 1]
<1>1. D = 1..Len(group) /\ Len(group) \in Nat /\ IsFiniteSet(D) /\ Cardinality(D) = Len(group)
  <2>1. D = 1..Len(group) /\ Len(group) \in Nat
    OBVIOUS
  <2>2. /\ IsFiniteSet(1..Len(group))
        /\ Cardinality(1..Len(group)) = IF 1 > Len(group) THEN 0 ELSE Len(group) - 1 + 1
    BY <2>1, FS_Interval
  <2> QED BY <2>1, <2>2
<1>2. \A j \in D : group[j] \in Range(group) /\ group[j] \in DOMAIN Batches[r]
  BY DEF Range
<1>3. \A i \in Range(group) : \E j \in D : group[j] = i
  BY DEF Range
<1>4. \A i \in DOMAIN Batches[r] :
        /\ SizeOf(r, i) \in Nat /\ Want(SizeOf(r, i)) \in Nat /\ 1 <= Want(SizeOf(r, i))
        /\ IF SizeOf(r, i) > MaxMemory THEN Want(SizeOf(r, i)) = MaxMemory
           ELSE SizeOf(r, i) <= Want(SizeOf(r, i))
  BY Wants
<1>5. /\ f \in [D -> Int] /\ f \in [D -> Nat] /\ e \in [D -> Int] /\ e \in [D -> Nat]
      /\ o \in [D -> Int]
  BY <1>2, <1>4
<1>6. Bytes(r, group) = SumFunction(e) /\ Reserved(r, group) = SumFunction(f)
  BY DEF Bytes, Reserved
<1>7. \A j \in D : /\ f[j] = Want(SizeOf(r, group[j])) /\ e[j] = SizeOf(r, group[j])
                   /\ o[j] = 1 /\ o[j] <= f[j]
  BY <1>2, <1>4
<1> HIDE DEF D, e, f, o
<1>8. SumFunction(e) \in Nat /\ SumFunction(f) \in Nat
  BY <1>1, <1>5, SumType
<1>9. SumFunction(o) = Len(group)
  BY <1>1, <1>5, <1>7, SumOnes
<1>10. Below(o, D, f, D)
  BY <1>1, <1>5, <1>7 DEF Below
<1>11. SumFunction(o) <= SumFunction(f)
  BY <1>10, SumLeq
<1>12. ASSUME ~Large(r, group)
       PROVE  SumFunction(e) <= SumFunction(f)
  <2>1. \A j \in D : e[j] <= f[j]
    BY <1>2, <1>4, <1>7, <1>12, Constants DEF Large
  <2>2. Below(e, D, f, D)
    BY <1>1, <1>5, <2>1 DEF Below
  <2> QED BY <2>2, SumLeq
<1>13. ASSUME NEW i \in Range(group), SizeOf(r, i) > MaxMemory
       PROVE  Len(group) # 0 /\ Len(group) + MaxMemory - 1 <= SumFunction(f)
  <2>1. PICK j \in D : group[j] = i
    BY <1>3
  <2>2. f[j] = MaxMemory /\ o[j] = 1
    BY <1>2, <1>4, <1>7, <1>13, <2>1
  <2>3. SumFunction(o) + (f[j] - o[j]) <= SumFunction(f)
    BY <1>10, SumGap
  <2> QED BY <1>1, <1>8, <1>9, <2>2, <2>3, Constants
<1> QED BY <1>1, <1>6, <1>8, <1>9, <1>11, <1>12, <1>13 DEF GroupWithin, Large

\* What a reader has in memory, in its real size and in batches, and whether a
\* batch of it is larger than the ceiling.
BytesBy(r) == Bytes(r, buf[r]) + SumFunction([s \in InFlight(r) |-> Bytes(r, s.group)])
CountBy(r) == Len(buf[r]) + SumFunction([s \in InFlight(r) |-> Len(s.group)])
LargeBy(r) == Large(r, buf[r]) \/ \E s \in InFlight(r) : Large(r, s.group)

\* A reader's memory is within what it holds, but for a batch larger than the
\* ceiling, which holds all of it.
LEMMA ReaderWithin ==
  ASSUME PInv, run = "running", MaxMemory # 0, NEW r \in Readers
  PROVE  /\ BytesBy(r) \in Nat /\ CountBy(r) \in Nat /\ HeldBy(r) \in Nat
         /\ CountBy(r) <= HeldBy(r)
         /\ ~LargeBy(r) => BytesBy(r) <= HeldBy(r)
         /\ LargeBy(r) => CountBy(r) # 0 /\ CountBy(r) + MaxMemory - 1 <= HeldBy(r)
<1> DEFINE D == InFlight(r)
           f == [s \in D |-> Reserved(r, s.group)]
           e == [s \in D |-> Bytes(r, s.group)]
           o == [s \in D |-> Len(s.group)]
<1>1. buf[r] \in Seq(Nat) /\ Range(buf[r]) \subseteq DOMAIN Batches[r] /\ plan \in Reads
  BY DEF PInv, Typed, TypeOK, ReaderTyped
<1>2. \A s \in D : s.group \in Seq(Nat) /\ Range(s.group) \subseteq DOMAIN Batches[r]
  BY DEF InFlight, PInv, Typed, Send, ReaderInv, InStatement
<1>3. GroupWithin(r, buf[r])
  <2> DEFINE group == buf[r]
  <2>1. group \in Seq(Nat) /\ Range(group) \subseteq DOMAIN Batches[r]
    BY <1>1
  <2> HIDE DEF group
  <2>2. GroupWithin(r, group)
    BY <1>1, <2>1, GroupFacts
  <2> QED BY <2>2 DEF group
<1>4. ASSUME NEW s \in D
      PROVE  GroupWithin(r, s.group)
  <2> DEFINE group == s.group
  <2>1. group \in Seq(Nat) /\ Range(group) \subseteq DOMAIN Batches[r]
    BY <1>2
  <2> HIDE DEF group
  <2>2. GroupWithin(r, group)
    BY <1>1, <2>1, GroupFacts
  <2> QED BY <2>2 DEF group
<1> USE DEF GroupWithin
<1>5. IsFiniteSet(D)
  BY HeldFacts
<1>6. /\ f \in [D -> Int] /\ f \in [D -> Nat] /\ e \in [D -> Int] /\ e \in [D -> Nat]
      /\ o \in [D -> Int] /\ o \in [D -> Nat]
  BY <1>4
<1>7. \A s \in D : /\ f[s] = Reserved(r, s.group) /\ e[s] = Bytes(r, s.group)
                   /\ o[s] = Len(s.group)
  OBVIOUS
<1>8. /\ HeldBy(r) = Reserved(r, buf[r]) + SumFunction(f)
      /\ BytesBy(r) = Bytes(r, buf[r]) + SumFunction(e)
      /\ CountBy(r) = Len(buf[r]) + SumFunction(o)
  BY DEF HeldBy, BytesBy, CountBy
<1>9. LargeBy(r) <=> Large(r, buf[r]) \/ \E s \in D : Large(r, s.group)
  BY DEF LargeBy
<1> HIDE DEF D, e, f, o
<1>10. SumFunction(e) \in Nat /\ SumFunction(f) \in Nat /\ SumFunction(o) \in Nat
  BY <1>5, <1>6, SumType
<1>11. Below(o, D, f, D)
  BY <1>4, <1>5, <1>6, <1>7 DEF Below
<1>12. SumFunction(o) <= SumFunction(f)
  BY <1>11, SumLeq
<1>13. ASSUME \A s \in D : ~Large(r, s.group)
       PROVE  SumFunction(e) <= SumFunction(f)
  <2>1. \A s \in D : e[s] <= f[s]
    BY <1>4, <1>7, <1>13
  <2>2. Below(e, D, f, D)
    BY <1>5, <1>6, <2>1 DEF Below
  <2> QED BY <2>2, SumLeq
<1>14. ASSUME NEW s \in D, Large(r, s.group)
       PROVE  SumFunction(o) # 0 /\ SumFunction(o) + MaxMemory - 1 <= SumFunction(f)
  <2>1. /\ f[s] \in Nat /\ o[s] \in Nat /\ o[s] # 0
        /\ o[s] + MaxMemory - 1 <= f[s]
    BY <1>4, <1>6, <1>7, <1>14
  <2>2. SumFunction(o) + (f[s] - o[s]) <= SumFunction(f)
    BY <1>11, SumGap
  <2>3. o[s] <= SumFunction(o)
    BY <1>5, <1>6, SumAtLeast
  <2> QED BY <1>10, <2>1, <2>2, <2>3, Constants
<1>15. LargeBy(r) => CountBy(r) # 0 /\ CountBy(r) + MaxMemory - 1 <= HeldBy(r)
  <2>1. CASE Large(r, buf[r])
    BY <1>3, <1>8, <1>10, <1>12, <2>1, Constants
  <2>2. ASSUME NEW s \in D, Large(r, s.group)
        PROVE  CountBy(r) # 0 /\ CountBy(r) + MaxMemory - 1 <= HeldBy(r)
    <3>1. SumFunction(o) # 0 /\ SumFunction(o) + MaxMemory - 1 <= SumFunction(f)
      BY <1>14, <2>2
    <3>2. /\ Len(buf[r]) \in Nat /\ Reserved(r, buf[r]) \in Nat
          /\ Len(buf[r]) <= Reserved(r, buf[r])
      BY <1>3
    <3>3. MaxMemory \in Int
      BY Constants
    <3> HIDE DEF GroupWithin
    <3> QED BY <1>8, <1>10, <3>1, <3>2, <3>3
  <2> QED BY <1>9, <2>1, <2>2
<1>16. ~LargeBy(r) => BytesBy(r) <= HeldBy(r)
  BY <1>3, <1>8, <1>9, <1>10, <1>13
<1> QED BY <1>3, <1>8, <1>10, <1>12, <1>15, <1>16

\* The ceiling holds over all readers together: it holds of reservations, and
\* a batch larger than it leaves no room for another.
LEMMA ReservedWithin ==
  ASSUME MInv, MaxMemory # 0
  PROVE  BytesReserved <= MaxMemory \/ BatchesReserved = 1
<1>0. PInv /\ Held <= MaxMemory /\ plan \in Reads /\ MaxMemory \in Nat
  BY Constants DEF MInv, WithinCeiling, PInv, Typed
<1> DEFINE f == [r \in Readers |-> HeldBy(r)]
           e == [r \in Readers |-> BytesBy(r)]
           o == [r \in Readers |-> CountBy(r)]
<1>1. Held = SumFunction(f) /\ BytesReserved = SumFunction(e) /\ BatchesReserved = SumFunction(o)
  BY DEF Held, BytesReserved, BatchesReserved, BytesBy, CountBy
<1>2. IsFiniteSet(Readers)
  BY <1>0, PipelineConstants DEF Readers, Batches
<1>3. CASE run = "running"
  <2>1. \A r \in Readers :
          /\ BytesBy(r) \in Nat /\ CountBy(r) \in Nat /\ HeldBy(r) \in Nat
          /\ CountBy(r) <= HeldBy(r)
          /\ ~LargeBy(r) => BytesBy(r) <= HeldBy(r)
          /\ LargeBy(r) => CountBy(r) # 0 /\ CountBy(r) + MaxMemory - 1 <= HeldBy(r)
    BY <1>0, <1>3, ReaderWithin
  <2>2. /\ f \in [Readers -> Int] /\ f \in [Readers -> Nat]
        /\ e \in [Readers -> Int] /\ e \in [Readers -> Nat]
        /\ o \in [Readers -> Int] /\ o \in [Readers -> Nat]
    BY <2>1
  <2>3. \A r \in Readers : f[r] = HeldBy(r) /\ e[r] = BytesBy(r) /\ o[r] = CountBy(r)
    OBVIOUS
  <2> HIDE DEF f, e, o
  <2>4. SumFunction(e) \in Nat /\ SumFunction(f) \in Nat /\ SumFunction(o) \in Nat
    BY <1>2, <2>2, SumType
  <2>5. CASE \A r \in Readers : ~LargeBy(r)
    <3>1. Below(e, Readers, f, Readers)
      BY <1>2, <2>1, <2>2, <2>3, <2>5 DEF Below
    <3>2. SumFunction(e) <= SumFunction(f)
      BY <3>1, SumLeq
    <3> QED BY <1>0, <1>1, <2>4, <3>2
  <2>6. ASSUME NEW r \in Readers, LargeBy(r)
        PROVE  BatchesReserved = 1
    <3>1. Below(o, Readers, f, Readers)
      BY <1>2, <2>1, <2>2, <2>3 DEF Below
    <3>2. SumFunction(o) + (f[r] - o[r]) <= SumFunction(f)
      BY <3>1, SumGap
    <3>3. o[r] <= SumFunction(o)
      BY <1>2, <2>2, SumAtLeast
    <3>4. o[r] \in Nat /\ f[r] \in Nat /\ o[r] # 0 /\ o[r] + MaxMemory - 1 <= f[r]
      BY <2>1, <2>3, <2>6
    <3> QED BY <1>0, <1>1, <2>4, <3>2, <3>3, <3>4
  <2> QED BY <2>5, <2>6
<1>4. CASE run # "running"
  <2>1. ASSUME NEW r \in Readers
        PROVE  BytesBy(r) = 0
    <3>1. InFlight(r) = {} /\ buf[r] = <<>>
      BY <1>4 DEF MInv, Emptied, Empty, InFlight
    <3>2. Bytes(r, <<>>) = 0
      BY SumEmpty DEF Bytes
    <3>3. SumFunction([s \in InFlight(r) |-> Bytes(r, s.group)]) = 0
      BY <3>1, SumEmpty
    <3> QED BY <3>1, <3>2, <3>3 DEF BytesBy
  <2>2. e = [r \in Readers |-> 0]
    BY <2>1
  <2> HIDE DEF e
  <2>3. SumFunction(e) = 0
    BY <1>2, <2>2, SumZeros
  <2> QED BY <1>0, <1>1, <2>3
<1> QED BY <1>3, <1>4

-----------------------------------------------------------------------------
(* What is decoded and waits for memory.                                   *)

\* The largest batch is as large as each.
LEMMA LargestFacts ==
  ASSUME plan \in Reads
  PROVE  /\ Largest \in Nat
         /\ \A r \in Readers : \A i \in DOMAIN Batches[r] : SizeOf(r, i) <= Largest
<1>1. IsFiniteSet(Readers)
  BY PipelineConstants DEF Readers, Batches
<1>2. IsFiniteSet(Batch)
  <2> DEFINE n == [r \in Readers |-> Len(Batches[r])]
  <2>1. n \in [Readers -> Nat]
    BY PlanFacts
  <2>2. PICK m \in {0} \cup {n[r] : r \in Readers} : \A r \in Readers : n[r] <= m
    <3> HIDE DEF n
    <3> QED BY <1>1, <2>1, Greatest
  <2>3. m \in Nat
    BY <2>1
  <2>4. Batch \subseteq Readers \X (1..m)
    <3> SUFFICES ASSUME NEW b \in Batch
                 PROVE  b \in Readers \X (1..m)
      OBVIOUS
    <3>1. b = <<b[1], b[2]>> /\ b[1] \in Readers /\ b[2] \in DOMAIN Batches[b[1]]
      BY BatchFacts
    <3>2. b[2] \in 1..Len(Batches[b[1]]) /\ Len(Batches[b[1]]) <= m
      BY <2>2, <3>1, PlanFacts
    <3>3. b[2] \in 1..m
      BY <2>3, <3>1, <3>2, PlanFacts
    <3> QED BY <3>1, <3>3
  <2>5. IsFiniteSet(Readers \X (1..m))
    <3>1. IsFiniteSet(1..m)
      BY <2>3, FS_Interval
    <3> HIDE DEF n
    <3> QED BY <1>1, <3>1, FS_Product
  <2> QED BY <2>4, <2>5, FS_Subset
<1> DEFINE f == [b \in Batch |-> SizeOf(b[1], b[2])]
           Sizes == {0} \cup {SizeOf(b[1], b[2]) : b \in Batch}
<1>3. f \in [Batch -> Nat]
  BY BatchFacts, Wants
<1>4. PICK m \in {0} \cup {f[b] : b \in Batch} : \A b \in Batch : f[b] <= m
  <2> HIDE DEF f
  <2> QED BY <1>2, <1>3, Greatest
<1>5. m \in Sizes /\ Sizes \subseteq Nat /\ \A n \in Sizes : n <= m
  <2>1. \A b \in Batch : f[b] = SizeOf(b[1], b[2]) /\ f[b] \in Nat
    BY <1>3
  <2> HIDE DEF f
  <2> QED BY <1>4, <2>1
<1>6. Largest \in Sizes /\ \A n \in Sizes : Largest >= n
  <2>1. \E x \in Sizes : \A y \in Sizes : x >= y
    <3> HIDE DEF Sizes
    <3> QED BY <1>5
  <2>2. Largest = CHOOSE x \in Sizes : \A y \in Sizes : x >= y
    BY DEF Largest, Max
  <2> HIDE DEF Sizes
  <2> QED BY <2>1, <2>2
<1>7. ASSUME NEW r \in Readers, NEW i \in DOMAIN Batches[r]
      PROVE  SizeOf(r, i) \in Sizes
  <2>1. <<r, i>> \in Batch
    BY BatchFacts
  <2> QED BY <2>1
<1> HIDE DEF Sizes
<1> QED BY <1>5, <1>6, <1>7

\* So the bytes of a group are within as many of the largest.
LEMMA GroupBytes ==
  ASSUME plan \in Reads, NEW r \in Readers,
         NEW group \in Seq(Nat), Range(group) \subseteq DOMAIN Batches[r]
  PROVE  Bytes(r, group) \in Nat /\ Bytes(r, group) <= Largest * Len(group)
<1> DEFINE D == DOMAIN group
           e == [j \in D |-> SizeOf(r, group[j])]
           o == [j \in D |-> 1]
<1>1. D = 1..Len(group) /\ Len(group) \in Nat /\ IsFiniteSet(D) /\ Cardinality(D) = Len(group)
  <2>1. D = 1..Len(group) /\ Len(group) \in Nat
    OBVIOUS
  <2>2. /\ IsFiniteSet(1..Len(group))
        /\ Cardinality(1..Len(group)) = IF 1 > Len(group) THEN 0 ELSE Len(group) - 1 + 1
    BY <2>1, FS_Interval
  <2> QED BY <2>1, <2>2
<1>2. \A j \in D : group[j] \in DOMAIN Batches[r]
  BY DEF Range
<1>3. \A j \in D : SizeOf(r, group[j]) \in Nat /\ SizeOf(r, group[j]) <= Largest
  BY <1>2, Wants, LargestFacts
<1>4. e \in [D -> Nat] /\ e \in [D -> Int] /\ o \in [D -> Nat] /\ o \in [D -> Int]
  BY <1>3
<1>5. \A j \in D : e[j] = SizeOf(r, group[j]) /\ o[j] = 1
  OBVIOUS
<1>6. Bytes(r, group) = SumFunction(e)
  BY DEF Bytes
<1> HIDE DEF D, e, o
<1>7. Largest \in Nat
  BY LargestFacts
<1>8. \A j \in D : e[j] <= Largest * o[j]
  BY <1>3, <1>5, <1>7
<1>9. SumFunction(e) <= Largest * SumFunction(o) /\ SumFunction(e) \in Nat
  BY <1>1, <1>4, <1>7, <1>8, SumWithin, SumType
<1>10. SumFunction(o) = Len(group)
  BY <1>1, <1>4, <1>5, SumOnes
<1> QED BY <1>6, <1>9, <1>10

\* The bytes of what a reader holds, likewise.
LEMMA ReaderBytes ==
  ASSUME PInv, run = "running", NEW r \in Readers
  PROVE  /\ BytesBy(r) \in Nat /\ CountBy(r) \in Nat
         /\ BytesBy(r) <= Largest * CountBy(r)
<1> DEFINE D == InFlight(r)
           e == [s \in D |-> Bytes(r, s.group)]
           o == [s \in D |-> Len(s.group)]
<1>1. buf[r] \in Seq(Nat) /\ Range(buf[r]) \subseteq DOMAIN Batches[r] /\ plan \in Reads
  BY DEF PInv, Typed, TypeOK, ReaderTyped
<1>2. \A s \in D : s.group \in Seq(Nat) /\ Range(s.group) \subseteq DOMAIN Batches[r]
  BY DEF InFlight, PInv, Typed, Send, ReaderInv, InStatement
<1>3. /\ Bytes(r, buf[r]) \in Nat /\ Len(buf[r]) \in Nat
      /\ Bytes(r, buf[r]) <= Largest * Len(buf[r])
  BY <1>1, GroupBytes
<1>4. ASSUME NEW s \in D
      PROVE  /\ Bytes(r, s.group) \in Nat /\ Len(s.group) \in Nat
             /\ Bytes(r, s.group) <= Largest * Len(s.group)
  <2> DEFINE group == s.group
  <2>1. group \in Seq(Nat) /\ Range(group) \subseteq DOMAIN Batches[r]
    BY <1>2
  <2> HIDE DEF group
  <2>2. /\ Bytes(r, group) \in Nat /\ Len(group) \in Nat
        /\ Bytes(r, group) <= Largest * Len(group)
    BY <1>1, <2>1, GroupBytes
  <2> QED BY <2>2 DEF group
<1>5. IsFiniteSet(D)
  BY HeldFacts
<1>6. e \in [D -> Nat] /\ e \in [D -> Int] /\ o \in [D -> Nat] /\ o \in [D -> Int]
  BY <1>4
<1>7. \A s \in D : e[s] <= Largest * o[s]
  BY <1>4
<1>8. /\ BytesBy(r) = Bytes(r, buf[r]) + SumFunction(e)
      /\ CountBy(r) = Len(buf[r]) + SumFunction(o)
  BY DEF BytesBy, CountBy
<1> HIDE DEF D, e, o
<1>9. Largest \in Nat
  BY <1>1, LargestFacts
<1>10. /\ SumFunction(e) <= Largest * SumFunction(o)
       /\ SumFunction(e) \in Nat /\ SumFunction(o) \in Nat
  BY <1>5, <1>6, <1>7, <1>9, SumWithin, SumType
<1> DEFINE n == Len(buf[r])
           m == SumFunction(o)
<1>11. n \in Nat /\ m \in Nat
  BY <1>3, <1>10
<1>12. Largest * (n + m) = Largest * n + Largest * m /\ Largest * n \in Nat /\ Largest * m \in Nat
  <2> HIDE DEF n, m
  <2> QED BY <1>9, <1>11
<1> QED BY <1>3, <1>8, <1>10, <1>12

\* A read that has ended holds nothing.
LEMMA NothingIn ==
  ASSUME Empty, NEW r \in Readers
  PROVE  BytesBy(r) = 0 /\ CountBy(r) = 0
<1>1. InFlight(r) = {} /\ buf[r] = <<>> /\ Len(<<>>) = 0
  BY DEF Empty, InFlight
<1>2. Bytes(r, <<>>) = 0
  BY SumEmpty DEF Bytes
<1>3. /\ SumFunction([s \in InFlight(r) |-> Bytes(r, s.group)]) = 0
      /\ SumFunction([s \in InFlight(r) |-> Len(s.group)]) = 0
  BY <1>1, SumEmpty
<1> QED BY <1>1, <1>2, <1>3 DEF BytesBy, CountBy

\* A batch alone is no larger than the largest.
LEMMA ReservedBytes ==
  ASSUME MInv, MaxMemory # 0
  PROVE  BytesReserved \in Nat /\ BytesReserved <= HigherOf(MaxMemory, Largest)
<1>0. PInv /\ plan \in Reads /\ MaxMemory \in Nat /\ Largest \in Nat
  BY Constants, LargestFacts DEF MInv, PInv, Typed
<1> DEFINE e == [r \in Readers |-> BytesBy(r)]
           o == [r \in Readers |-> CountBy(r)]
<1>1. BytesReserved = SumFunction(e) /\ BatchesReserved = SumFunction(o)
  BY DEF BytesReserved, BatchesReserved, BytesBy, CountBy
<1>2. IsFiniteSet(Readers)
  BY <1>0, PipelineConstants DEF Readers, Batches
<1>3. BytesReserved <= MaxMemory \/ BatchesReserved = 1
  BY ReservedWithin
<1>4. ASSUME NEW r \in Readers
      PROVE  BytesBy(r) \in Nat /\ CountBy(r) \in Nat /\ BytesBy(r) <= Largest * CountBy(r)
  <2>1. CASE run = "running"
    BY <1>0, <2>1, ReaderBytes
  <2>2. CASE run # "running"
    <3>1. BytesBy(r) = 0 /\ CountBy(r) = 0
      BY <2>2, NothingIn DEF MInv, Emptied
    <3> QED BY <1>0, <3>1
  <2> QED BY <2>1, <2>2
<1>5. e \in [Readers -> Nat] /\ e \in [Readers -> Int] /\ o \in [Readers -> Nat]
  BY <1>4
<1>6. \A r \in Readers : e[r] <= Largest * o[r]
  BY <1>4
<1> HIDE DEF e, o
<1>7. SumFunction(e) \in Nat /\ SumFunction(e) <= Largest * SumFunction(o)
  BY <1>0, <1>2, <1>5, <1>6, SumWithin, SumType
<1> QED BY <1>0, <1>1, <1>3, <1>7 DEF HigherOf

\* Readers that wait have a batch each in hand, and they run.
LEMMA InHandWithin ==
  ASSUME PInv, FewRun
  PROVE  BytesInHand \in Nat /\ BytesInHand <= Parallelism * Largest
<1> DEFINE W == Range(waiters)
           f == [r \in W |-> SizeOf(r, at[r])]
           o == [r \in W |-> 1]
           Busy == {p \in Readers : Running(p)}
<1>0. plan \in Reads /\ Largest \in Nat /\ Parallelism \in Nat
  BY Constants, LargestFacts DEF PInv, Typed
<1>1. W \subseteq Busy
  <2>1. CASE run = "running"
    <3> SUFFICES ASSUME NEW r \in W
                 PROVE  r \in Busy
      OBVIOUS
    <3>1. r \in Readers
      BY DEF PInv, Typed, Range
    <3>2. step[r] = "waiting"
      BY <2>1, <3>1 DEF PInv, TypeOK, ReaderTyped
    <3> QED BY <2>1, <3>1, <3>2 DEF Running
  <2>2. CASE run # "running"
    BY <2>2, RangeFacts DEF FewRun
  <2> QED BY <2>1, <2>2
<1>2. IsFiniteSet(Busy) /\ IsFiniteSet(W) /\ Cardinality(W) \in Nat /\ Cardinality(W) <= Parallelism
  <2>1. IsFiniteSet(Readers)
    BY <1>0, PipelineConstants DEF Readers, Batches
  <2>2. IsFiniteSet(Busy)
    BY <2>1, FS_Subset
  <2>3. Cardinality(Busy) \in Nat /\ Cardinality(Busy) <= Parallelism
    BY <2>2, FS_CardinalityType DEF FewRun
  <2> HIDE DEF Busy, W
  <2>4. IsFiniteSet(W) /\ Cardinality(W) <= Cardinality(Busy)
    BY <1>1, <2>2, FS_Subset
  <2>5. Cardinality(W) \in Nat
    BY <2>4, FS_CardinalityType
  <2> QED BY <1>0, <2>2, <2>3, <2>4, <2>5
<1>3. ASSUME NEW r \in W
      PROVE  SizeOf(r, at[r]) \in Nat /\ SizeOf(r, at[r]) <= Largest
  <2>1. r \in Readers /\ run = "running" /\ step[r] = "waiting"
    BY <1>1 DEF PInv, TypeOK, ReaderTyped, Running
  <2>2. at[r] \in DOMAIN Batches[r]
    BY <2>1, QueuedType
  <2> QED BY <1>0, <2>1, <2>2, Wants, LargestFacts
<1>4. f \in [W -> Nat] /\ f \in [W -> Int] /\ o \in [W -> Nat] /\ o \in [W -> Int]
  BY <1>3
<1>5. \A r \in W : f[r] <= Largest * o[r] /\ o[r] = 1
  BY <1>0, <1>3
<1>6. BytesInHand = SumFunction(f)
  BY DEF BytesInHand
<1> HIDE DEF W, f, o
<1>7. SumFunction(f) \in Nat /\ SumFunction(f) <= Largest * SumFunction(o)
  BY <1>0, <1>2, <1>4, <1>5, SumWithin, SumType
<1>8. SumFunction(o) = Cardinality(W)
  BY <1>2, <1>4, <1>5, SumOnes
<1> DEFINE n == Cardinality(W)
<1>9. n \in Nat /\ n <= Parallelism
  BY <1>2
<1>10. Largest * n <= Parallelism * Largest
  <2> HIDE DEF n
  <2>1. PICK k \in Nat : Parallelism = n + k
    <3>1. Parallelism - n \in Nat /\ Parallelism = n + (Parallelism - n)
      BY <1>0, <1>9
    <3> QED BY <3>1
  <2>2. (n + k) * Largest = Largest * n + Largest * k
        /\ Largest * n \in Nat /\ Largest * k \in Nat
    BY <1>0, <1>9
  <2> QED BY <2>1, <2>2
<1>11. Largest * n \in Nat /\ Parallelism * Largest \in Nat
  <2> HIDE DEF n
  <2> QED BY <1>0, <1>9
<1> QED BY <1>6, <1>7, <1>8, <1>10, <1>11

\* A reader starts when fewer than parallelism run, and no other step makes
\* one run.
LEMMA FewKeeps ==
  ASSUME PInv, FewRun, [Next]_vars
  PROVE  FewRun'
<1> DEFINE Busy == {p \in Readers : Running(p)}
<1>0. /\ plan \in Reads /\ Parallelism \in Nat
      /\ \A r \in Readers : run = "running" => (step[r] = "waiting" <=> r \in Range(waiters))
      /\ waiters \in Seq(Readers) /\ step \in [Readers -> {"queued", "between", "read", "waiting",
                                                          "finish", "drain", "done"}]
  BY Constants DEF PInv, Typed, TypeOK, ReaderTyped
<1>1. IsFiniteSet(Busy) /\ Cardinality(Busy) \in Nat /\ Cardinality(Busy) <= Parallelism
  <2>1. IsFiniteSet(Readers)
    BY <1>0, PipelineConstants DEF Readers, Batches
  <2>2. IsFiniteSet(Busy)
    BY <2>1, FS_Subset
  <2> QED BY <2>2, FS_CardinalityType DEF FewRun
<1>2. ASSUME Busy' \subseteq Busy, run' # "running" => waiters' = <<>>
      PROVE  FewRun'
  <2> HIDE DEF Busy
  <2>1. IsFiniteSet(Busy') /\ Cardinality(Busy') <= Cardinality(Busy)
    BY <1>1, <1>2, FS_Subset
  <2>2. Cardinality(Busy') \in Nat
    BY <2>1, FS_CardinalityType
  <2>3. Cardinality(Busy') <= Parallelism
    BY <1>0, <1>1, <2>1, <2>2
  <2> QED BY <1>2, <2>3 DEF FewRun, Busy
<1>3. ASSUME run' # "running", waiters' = <<>>
      PROVE  FewRun'
  BY <1>2, <1>3 DEF Running
<1>4. ASSUME NEW r \in Readers, Start(r)
      PROVE  FewRun'
  <2>1. /\ run = "running" /\ run' = run /\ plan' = plan /\ Cardinality(Busy) < Parallelism
        /\ step' = [step EXCEPT ![r] = "between"]
    BY <1>4 DEF Start, Goto, window
  <2>2. Readers' = Readers
    BY <2>1 DEF Readers, Batches
  <2>3. Busy' \subseteq Busy \cup {r}
    BY <1>0, <2>1, <2>2 DEF Running
  <2> HIDE DEF Busy
  <2>4. IsFiniteSet(Busy \cup {r}) /\ Cardinality(Busy \cup {r}) <= Parallelism
    <3>1. /\ IsFiniteSet(Busy \cup {r})
          /\ Cardinality(Busy \cup {r}) = IF r \in Busy THEN Cardinality(Busy)
                                          ELSE Cardinality(Busy) + 1
      BY <1>1, FS_AddElement
    <3> QED BY <1>0, <1>1, <2>1, <3>1
  <2>5. Cardinality(Busy') <= Cardinality(Busy \cup {r}) /\ IsFiniteSet(Busy')
    BY <2>3, <2>4, FS_Subset
  <2>6. Cardinality(Busy') \in Nat /\ Cardinality(Busy \cup {r}) \in Nat
    BY <2>4, <2>5, FS_CardinalityType
  <2>7. Cardinality(Busy') <= Parallelism
    BY <1>0, <2>4, <2>5, <2>6
  <2> QED BY <2>1, <2>7 DEF FewRun, Busy
<1>5. ASSUME NEW r \in Readers, Running(r), plan' = plan, run' = run,
             \E s \in {"between", "read", "waiting", "finish", "drain", "done"} :
               step' \in {step, [step EXCEPT ![r] = s]}
      PROVE  FewRun'
  <2>1. Readers' = Readers
    BY <1>5 DEF Readers, Batches
  <2>2. Busy' \subseteq Busy
    BY <1>0, <1>5, <2>1 DEF Running
  <2> QED BY <1>2, <1>5, <2>2 DEF Running
<1>6. ASSUME NEW r \in Readers, Read(r)
      PROVE  FewRun'
  <2>1. CASE \/ BeginStatement(r) \/ PushBatch(r) \/ Granted(r) \/ EndWindow(r)
             \/ EndStatement(r) \/ FinishRead(r) \/ Drained(r)
    BY <1>5, <2>1 DEF BeginStatement, PushBatch, Granted, EndWindow, EndStatement, FinishRead,
       Drained, Goto, Running, window
  <2>2. CASE ReapFails(r)
    BY <1>3, <2>2 DEF ReapFails, Abort
  <2> QED BY <1>4, <1>6, <2>1, <2>2 DEF Read
<1>7. ASSUME plan' = plan, run' = run, step' = step, waiters' = waiters
      PROVE  FewRun'
  <2>1. Readers' = Readers
    BY <1>7 DEF Readers, Batches
  <2> QED BY <1>2, <1>7, <2>1 DEF Running, FewRun
<1>8. ASSUME NEW r \in Readers, Land(r) \/ Trouble(r)
      PROVE  FewRun'
  <2>1. ASSUME NEW s \in sends[r], SendLands(r, s) \/ SendFails(r, s)
        PROVE  FewRun'
    BY <1>7, <2>1 DEF SendLands, SendFails, window
  <2>2. CASE CancelWindow(r)
    BY <1>5, <2>2 DEF CancelWindow, Goto, Running
  <2>3. CASE StatementFails(r)
    BY <1>3, <2>3 DEF StatementFails, Abort
  <2> QED BY <1>8, <2>1, <2>2, <2>3 DEF Land, Trouble
<1>9. CASE AllRead
  <2>1. /\ run = "running" /\ run' = "ok" /\ waiters' = waiters
        /\ \A r \in Readers : step[r] = "done"
    BY <1>9 DEF AllRead
  <2>2. Range(waiters) = {}
    BY <1>0, <2>1 DEF Range
  <2>3. waiters' = <<>>
    BY <1>0, <2>1, <2>2 DEF Range
  <2> QED BY <1>3, <2>1, <2>3
<1>10. CASE UNCHANGED vars
  BY <1>7, <1>10 DEF vars, window
<1> QED BY <1>6, <1>8, <1>9, <1>10 DEF Next, Ended

\* The ceiling, and how far what is decoded goes beyond it.
LEMMA CeilingHolds == MInv /\ FewRun => MemoryCeiling
<1> SUFFICES ASSUME MInv, FewRun, MaxMemory # 0
             PROVE  /\ BytesReserved <= MaxMemory \/ BatchesReserved = 1
                    /\ BytesInMemory <= HigherOf(MaxMemory, Largest) + Parallelism * Largest
  BY DEF MemoryCeiling
<1>1. BytesReserved \in Nat /\ BytesReserved <= HigherOf(MaxMemory, Largest)
  BY ReservedBytes
<1>2. BytesInHand \in Nat /\ BytesInHand <= Parallelism * Largest
  BY InHandWithin DEF MInv
<1>3. Parallelism \in Nat /\ Largest \in Nat /\ MaxMemory \in Nat
  BY Constants, LargestFacts DEF MInv, PInv, Typed
<1>4. HigherOf(MaxMemory, Largest) \in Nat /\ Parallelism * Largest \in Nat
  BY <1>3 DEF HigherOf
<1> QED BY <1>1, <1>2, <1>4, ReservedWithin DEF BytesInMemory

\* The readers' buffers and inserts never hold more than max_memory_bytes
\* together, a single batch larger than it aside; a reader that waits for
\* memory holds none in its buffer, and what it has decoded already takes what
\* is in memory beyond the ceiling by a batch for each of parallelism readers.
THEOREM MemoryHolds == Spec => []MemoryInv
<1>1. Init => MInv /\ FewRun
  <2> SUFFICES ASSUME Init PROVE MInv /\ FewRun
    OBVIOUS
  <2>1. PInv /\ run = "running"
    BY InitInv DEF Init
  <2>2. Empty /\ plan \in Reads
    BY DEF Init, Empty
  <2>3. Held = 0
    BY <2>2, NothingHeld
  <2>4. {p \in Readers : Running(p)} = {}
    BY DEF Init, Running
  <2>5. FewRun
    BY <2>1, <2>4, FS_EmptySet, Constants DEF FewRun
  <2> QED BY <2>1, <2>3, <2>5, Constants DEF MInv, WithinCeiling, Emptied
<1>2. MInv /\ PInv' /\ [Next]_vars => MInv'
  BY NextWithin
<1>3. MInv /\ FewRun /\ [Next]_vars => FewRun'
  BY FewKeeps DEF MInv
<1>4. MInv /\ FewRun => MemoryInv
  <2> SUFFICES ASSUME MInv, FewRun PROVE MemoryInv
    OBVIOUS
  <2>1. ASSUME NEW r \in Readers, step[r] = "waiting"
        PROVE  buf[r] = <<>>
    BY <2>1 DEF MInv, PInv, ReaderInv, InStatement, Emptied, Empty
  <2> QED BY <2>1, CeilingHolds DEF MInv, PInv, WithinCeiling, MemoryInv
<1> QED BY <1>1, <1>2, <1>3, <1>4, PipelineInvariant, PTL DEF Spec
=============================================================================
