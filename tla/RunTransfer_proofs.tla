-------------------------- MODULE RunTransfer_proofs --------------------------
(***************************************************************************)
(* Proofs about RunTransfer, for every set of transfers, number of         *)
(* batches, of attempts and of failures: IInv is an inductive invariant.   *)
(* One lemma per action, under it one step per conjunct of IInv.           *)
(***************************************************************************)
EXTENDS RunTransferInv, FiniteSetTheorems, TLAPS

\* What the proofs need of the numbers among the constants.
LEMMA Constants ==
  /\ N \in Nat /\ N > 0
  /\ MaxAttempts \in Nat /\ MaxAttempts > 0
  /\ MaxFaults \in Nat
  BY TransferConstants

\* The names an attempt makes are names, and not the destination's.
LEMMA NameFacts ==
  /\ Dest \in Names /\ NoName \notin Names /\ Dest # NoName /\ Dest[1] = 0
  /\ \A a \in 1..MaxAttempts, i \in 0..(N + 1) :
       <<a, i>> \in Names /\ <<a, i>> # Dest /\ <<a, i>> # NoName
  /\ \A t \in Names : t # Dest => t[1] \in 1..MaxAttempts
  /\ \A t \in Names : t[1] \in Nat /\ t[2] \in Nat
  BY Constants DEF Names, Dest, NoName

\* What a transfer is.
LEMMA ConfigFacts ==
  ASSUME cfg \in Configs
  PROVE  /\ cfg.append \in BOOLEAN /\ cfg.chunked \in BOOLEAN
         /\ cfg.promote = "append" => cfg.append
         /\ cfg.append => cfg.promote \in {"append", "direct"}
         /\ cfg.chunked => cfg.flow = "database" /\ cfg.promote \in {"merge", "insert", "direct"}
                       /\ ~cfg.append /\ ~cfg.gate /\ ~cfg.delete_stale
         /\ cfg.gate => cfg.promote \in {"swap", "merge", "insert"}
         /\ cfg.delete_stale => cfg.promote \in {"merge", "insert"}
         /\ cfg.append /\ cfg.promote = "direct" => cfg.flow \in {"api", "frame"}
         /\ cfg.counts => \/ cfg.promote \in {"swap", "merge"}
                          \/ cfg.append /\ cfg.promote = "direct"
         /\ cfg.old # {} => cfg.exists
         /\ cfg.old \subseteq Nat /\ IsFiniteSet(cfg.old)
         /\ cfg.flow \in {"database", "session", "api", "frame"}
         /\ cfg.promote \in {"swap", "merge", "insert", "append", "direct"}
  BY TransferConstants DEF Flows, Promotions

\* What a flow is.
LEMMA FlowFacts ==
  ASSUME cfg \in Configs
  PROVE  /\ Flow.counted <=> cfg.flow \in {"database", "session"}
         /\ Flow.cursor <=> cfg.promote # "swap" /\ cfg.flow # "frame"
         /\ Flow.last <=> cfg.flow = "frame" \/ (cfg.flow = "api" /\ cfg.append)
         /\ Flow.cursor \in BOOLEAN
         /\ "setup" \in Flow.retried => cfg.flow = "database"
         /\ "read" \in Flow.retried => cfg.flow \in {"database", "session"}
<1> USE DEF DatabaseFlow, SessionFlow, ApiFlow, FrameFlow
<1>1. CASE cfg.flow = "database"
  <2>1. Flow = DatabaseFlow
    BY <1>1 DEF Flow
  <2> QED BY <1>1, <2>1
<1>2. CASE cfg.flow = "session"
  <2>1. Flow = SessionFlow
    BY <1>2 DEF Flow
  <2> QED BY <1>2, <2>1
<1>3. CASE cfg.flow = "api"
  <2>1. Flow = ApiFlow
    BY <1>3 DEF Flow
  <2> QED BY <1>3, <2>1
<1>4. CASE cfg.flow = "frame"
  <2>1. Flow = FrameFlow
    BY <1>4 DEF Flow
  <2> QED BY <1>4, <2>1
<1> QED BY <1>1, <1>2, <1>3, <1>4, ConfigFacts

\* Only an append that writes straight into its destination misses a batch: it
\* resumes no chunks, is not retried, and checks once its cursor is saved.
LEMMA MissingFacts ==
  ASSUME TypeOK, ReadSoFar, Missing # {}
  PROVE  /\ ~Staged /\ cfg.append /\ ~cfg.chunked /\ marker = 0
         /\ "count" \in raised /\ Flow.last /\ ~Flow.counted
<1>1. ~Staged /\ short # {}
  BY DEF Missing
<1>2. "count" \in raised /\ cfg.counts /\ (marker # 0 => cfg.chunked)
  BY <1>1 DEF ReadSoFar
<1>3. cfg.append /\ ~cfg.chunked /\ cfg.flow \in {"api", "frame"}
  BY <1>1, <1>2, ConfigFacts DEF TypeOK, ControlTyped, Staged
<1> QED BY <1>1, <1>2, <1>3, FlowFacts DEF TypeOK, ControlTyped

\* An insert in flight is of a batch the marker does not vouch for, into a
\* table that is there: one of the attempt's own, or the destination.
LEMMA InFlight ==
  ASSUME IInv, NEW b \in inflight
  PROVE  /\ b \in Batches /\ pc \in {"read", "chunk"} /\ ~saved
         /\ marker < b /\ b <= at + 1
         /\ WriteTable \in tables /\ WriteTable \in Names
         /\ Staged => WriteTable[1] = attempt
         /\ ~Staged => WriteTable = Dest /\ <<attempt, b>> \notin rows[Dest]
<1> USE Constants, NameFacts DEF IInv, StagingKnown, TypeOK, StoreTyped, ControlTyped, Batches
<1>1. b \in Batches /\ pc \in {"read", "chunk"} /\ ~saved
  BY DEF ReadSoFar, Block
<1>2. marker < b /\ b <= at + 1
  BY <1>1 DEF ReadSoFar
<1>3. open = IF pc = "chunk" /\ Staged THEN ChunkTable ELSE NoName
  BY <1>1 DEF TablesThere
<1>4. Staged => Staging \in tables
  BY <1>1 DEF TablesThere, Block
<1>5. Dest \in tables
  BY <1>1 DEF TablesThere, Block
<1>6. WriteTable \in tables /\ WriteTable \in Names
  BY <1>3, <1>4, <1>5 DEF WriteTable, Target
<1>7. Staged => WriteTable[1] = attempt
  BY <1>3 DEF WriteTable, Target, ChunkTable, Staging
<1>8. ASSUME ~Staged
      PROVE  WriteTable = Dest /\ <<attempt, b>> \notin rows[Dest]
  <2>1. WriteTable = Dest /\ Target = Dest
    BY <1>3, <1>8 DEF WriteTable, Target
  <2>2. CASE pc = "read"
    BY <1>1, <1>8, <2>1, <2>2 DEF ReadSoFar, Partly
  <2>3. CASE pc = "chunk"
    <3>1. \A c \in Batches : <<attempt, c>> \in rows[Dest] => c \notin inflight
      BY <2>3 DEF ReadSoFar
    <3> QED BY <1>1, <2>1, <3>1
  <2> QED BY <1>1, <2>1, <2>2, <2>3
<1> QED BY <1>1, <1>2, <1>6, <1>7, <1>8

\* Inserts cut off by the end of their attempt are left apart from what it
\* wrote.
LEMMA AbortsApart ==
  ASSUME IInv, pc' \in {"cleanup", "dead"}, cfg' = cfg, attempt' = attempt,
         rows'[Dest] = rows[Dest], late' = late,
         aborted' = aborted \cup {<<WriteTable, <<attempt, b>>>> : b \in inflight}
  PROVE  AbortedApart'
<1> USE Constants DEF IInv, StagingKnown, TypeOK, ControlTyped
<1>1. ASSUME NEW w \in aborted'
      PROVE  /\ w[2][1] \in 1..attempt
             /\ IF Staged THEN w[1][1] = w[2][1] ELSE w[1] = Dest /\ w[2] \notin rows[Dest]
  <2>1. CASE w \in aborted
    BY <2>1 DEF AbortedApart
  <2>2. ASSUME NEW b \in inflight, w = <<WriteTable, <<attempt, b>>>>
        PROVE  /\ w[2][1] \in 1..attempt
               /\ IF Staged THEN w[1][1] = w[2][1] ELSE w[1] = Dest /\ w[2] \notin rows[Dest]
    BY <2>2, InFlight
  <2> QED BY <1>1, <2>1, <2>2
<1>2. Staged' <=> Staged
  BY DEF Staged
<1> QED BY <1>1, <1>2 DEF AbortedApart

\* They stay apart when another attempt begins, and when the run ends.
LEMMA ApartStays ==
  ASSUME IInv, attempt \in Nat, cfg' = cfg, rows'[Dest] = rows[Dest], late' = late,
         aborted' = aborted,
         \/ attempt' = attempt + 1
         \/ attempt' = attempt /\ pc' \in {"cleanup", "failed", "dead"}
  PROVE  AbortedApart'
<1> USE NameFacts DEF IInv
<1>1. Staged' <=> Staged
  BY DEF Staged
<1>2. ASSUME NEW w \in aborted
      PROVE  /\ w[2][1] \in 1..attempt'
             /\ pc' \notin {"cleanup", "failed", "dead"} => w[2][1] < attempt'
  BY DEF AbortedApart
<1>3. ASSUME NEW r \in late, pc' \notin {"cleanup", "failed", "dead"}
      PROVE  r[1] < attempt'
  BY <1>3 DEF AbortedApart, RowsMade
<1> QED BY <1>1, <1>2, <1>3 DEF AbortedApart

\* A batch that is settled stays so while the destination does, and no more
\* inserts of it are left in flight.
LEMMA SettledStays ==
  ASSUME NEW b \in Batches, Settled(b),
         \A r \in Ours \ late : r[2] = b => r \in Ours' \ late',
         \A r \in Ours' : r[2] = b => r \in Ours,
         \A w \in aborted' : w[2][2] = b => w \in aborted
  PROVE  Settled(b)'
<1>1. PICK s \in Ours \ late :
        /\ s[2] = b
        /\ \A r \in Ours : r[2] = b => r[1] <= s[1]
        /\ \A w \in aborted : w[2][2] = b => w[2][1] < s[1]
  BY DEF Settled
<1> QED BY <1>1 DEF Settled

\* What is vouched for stays so when an attempt is cut off.
LEMMA AbortsVouched ==
  ASSUME IInv, pc' \in {"cleanup", "dead"}, rows'[Dest] = rows[Dest], late' = late,
         cfg' = cfg, short' = short, marker' = marker, saved' = saved,
         aborted' = aborted \cup {<<WriteTable, <<attempt, b>>>> : b \in inflight}
  PROVE  Vouched'
<1>1. Ours' = Ours /\ Missing' = Missing
  BY DEF Ours, Missing, Staged
<1> SUFFICES ASSUME NEW b \in Batches, b <= marker \/ (saved /\ b \notin Missing)
             PROVE  Settled(b)'
  BY <1>1 DEF Vouched, Tail
<1>2. Settled(b)
  BY DEF IInv, Vouched
<1>3. ASSUME NEW w \in aborted', w[2][2] = b
      PROVE  w \in aborted
  <2>1. ASSUME NEW c \in inflight, w = <<WriteTable, <<attempt, c>>>>
        PROVE  FALSE
    <3>1. c = b
      BY <1>3, <2>1
    <3>2. ~saved /\ marker < b
      BY <3>1, InFlight
    <3>3. marker \in Nat /\ b \in Nat
      BY Constants DEF IInv, StagingKnown, TypeOK, StoreTyped, Batches
    <3> QED BY <3>2, <3>3
  <2> QED BY <1>3, <2>1
<1> QED BY <1>1, <1>2, <1>3, SettledStays

\* Rows of one attempt are no more than the batches.
LEMMA OfOneAttempt ==
  ASSUME NEW a, NEW S, S \subseteq {a} \X Batches
  PROVE  IsFiniteSet(S) /\ Cardinality(S) \in 0..N
<1> DEFINE f == [r \in S |-> r[2]]
<1>1. f \in Injection(S, Batches)
  BY DEF Injection, IsInjective
<1>2. IsFiniteSet(Batches) /\ Cardinality(Batches) = N
  BY FS_Interval, Constants DEF Batches
<1>3. IsFiniteSet(S) /\ Cardinality(S) <= N
  BY <1>1, <1>2, FS_Injection
<1> QED BY <1>3, FS_CardinalityType, Constants

\* The rows the run has written are finitely many.
LEMMA OursFinite ==
  ASSUME IInv, NEW S, S \subseteq Ours
  PROVE  IsFiniteSet(S) /\ Cardinality(S) \in Nat
<1>1. Ours \subseteq (1..MaxAttempts) \X Batches
  BY Constants, NameFacts DEF IInv, RowsMade, Ours
<1>2. IsFiniteSet((1..MaxAttempts) \X Batches)
  <2>1. IsFiniteSet(1..MaxAttempts) /\ IsFiniteSet(Batches)
    BY FS_Interval, Constants DEF Batches
  <2> QED BY <2>1, FS_Product
<1> QED BY <1>1, <1>2, FS_Subset, FS_CardinalityType

\* The destination begins with a row of each key it holds.
LEMMA OldAsMany ==
  ASSUME IsFiniteSet(cfg.old)
  PROVE  IsFiniteSet(Old) /\ Cardinality(Old) = Cardinality(cfg.old)
<1> DEFINE f == [b \in cfg.old |-> <<0, b>>]
<1>1. f \in Bijection(cfg.old, Old)
  BY DEF Bijection, Injection, IsInjective, Surjection, Old
<1> QED BY <1>1, FS_Bijection DEF ExistsBijection

\* The rows failed attempts wrote are counted once this attempt's have been
\* added to them.
LEMMA RepeatedOfNext ==
  ASSUME IInv, attempt' = attempt + 1, rows'[Dest] = rows[Dest], late' = late,
         marker' = marker
  PROVE  /\ Landed' = {}
         /\ Cardinality(Repeated') = Cardinality(Repeated) + Cardinality(Landed)
<1> USE Constants DEF IInv, StagingKnown, TypeOK, ControlTyped
<1>1. Ours' = Ours /\ Rewritten' = Rewritten
  BY DEF Ours, Rewritten
<1>2. \A r \in Ours : r[1] \in 1..attempt
  BY NameFacts DEF Ours, RowsMade
<1>3. Landed' = {}
  BY <1>1, <1>2 DEF Landed
<1>4. \A r \in Rewritten : r[1] < attempt
  BY <1>2 DEF Rewritten
<1>5. Repeated' = Repeated \cup Landed
  BY <1>1, <1>2, <1>4 DEF Landed, Repeated
<1>6. Repeated \cap Landed = {}
  BY <1>2 DEF Landed, Repeated
<1>7. /\ IsFiniteSet(Repeated) /\ Cardinality(Repeated) \in Nat
      /\ IsFiniteSet(Landed) /\ Cardinality(Landed) \in Nat
  BY OursFinite DEF Landed, Repeated
<1>8. Cardinality(Repeated \cup Landed) = Cardinality(Repeated) + Cardinality(Landed)
  <2>1. Cardinality(Repeated \cup Landed)
          = Cardinality(Repeated) + Cardinality(Landed) - Cardinality(Repeated \cap Landed)
    BY <1>7, FS_Union
  <2>2. Cardinality(Repeated \cap Landed) = 0
    BY <1>6, FS_EmptySet
  <2>3. \A m, n \in Nat : m + n - 0 = m + n
    OBVIOUS
  <2> HIDE DEF IInv, StagingKnown, TypeOK, ControlTyped, Repeated, Landed
  <2> QED BY ONLY <1>7, <2>1, <2>2, <2>3
<1> QED BY <1>3, <1>5, <1>8

\* Another attempt starts its own count, and adds the last one's to those of
\* the attempts that failed.
LEMMA CountsOfNext ==
  ASSUME IInv, Retriable, pc \in {"setup", "cleanup"}, Flow.counted, pc' = "setup",
         cfg' = cfg, Flow' = Flow, attempt' = attempt + 1, rows'[Dest] = rows[Dest],
         late' = late, marker' = marker, aborted' = aborted,
         partial' = partial + landed, landed' = 0
  PROVE  CountsKept'
<1> USE Constants DEF IInv, StagingKnown, TypeOK, ControlTyped
<1>1. Staged' <=> Staged
  BY DEF Staged
<1>2. CASE Staged
  BY <1>1, <1>2 DEF CountsKept, AbortedApart, CountsTyped
<1>3. CASE ~Staged
  <2>1. landed = Cardinality(Landed) /\ partial = Cardinality(Repeated)
    BY <1>3 DEF CountsKept
  <2>2. landed' = Cardinality(Landed') /\ partial' = Cardinality(Repeated')
    BY <2>1, RepeatedOfNext, FS_EmptySet
  <2>3. \A w \in aborted' : w[2][1] < attempt'
    BY DEF AbortedApart
  <2> QED BY <1>1, <1>3, <2>2, <2>3 DEF CountsKept
<1> QED BY <1>2, <1>3

\* A batch this attempt has in the destination is settled.
LEMMA SettledNow ==
  ASSUME IInv, pc \notin {"cleanup", "failed", "dead"}, NEW b \in Batches,
         <<attempt, b>> \in rows[Dest]
  PROVE  Settled(b)
<1> USE Constants, NameFacts DEF IInv, StagingKnown, TypeOK, ControlTyped
<1>1. <<attempt, b>> \in Ours \ late
  BY DEF Ours, AbortedApart
<1>2. \A r \in Ours : r[1] <= attempt
  BY DEF Ours, RowsMade
<1>3. \A w \in aborted : w[2][1] < attempt
  BY DEF AbortedApart
<1> QED BY <1>1, <1>2, <1>3 DEF Settled

\* Until a promotion is approved the destination is as it was.
LEMMA KeptUntilApproved ==
  ASSUME IInv, pc = "approve", Staged, ~cfg.chunked
  PROVE  /\ Dest \in tables /\ stopped = "none" /\ ~saved /\ rows[Dest] = Old
         /\ created => rows[Dest] = {}
         /\ ~created => Untouched
<1> USE DEF IInv, StagingKnown, TypeOK, ControlTyped
<1>1. Dest \in tables /\ stopped = "none" /\ ~saved
  BY DEF TablesThere, SaidSinceStopped, ReadSoFar, Block
<1>2. rows[Dest] = Old /\ before.rows = Old /\ (before.exists <=> ~created)
  BY DEF DestinationKept, Block
<1>3. created => Old = {}
  BY ConfigFacts DEF TablesThere, Old
<1>4. ~created => before.exists
  BY <1>2
<1>5. ~created => Untouched
  BY <1>1, <1>2, <1>4 DEF Untouched
<1> QED BY <1>1, <1>2, <1>3, <1>5

\* What a promotion finds, and what it can make of it.
LEMMA WhatIsPromoted ==
  ASSUME IInv, pc \in {"delete", "promote"}
  PROVE  /\ Staged /\ ~cfg.chunked /\ rows[Dest] \subseteq Old
         /\ rows[Staging] = RowsOf(attempt) /\ KeysOf(Staging) = Batches
         /\ {r \in Old : r[2] \in Batches \/ r[2] > N} \subseteq rows[Dest]
         /\ Stale(Staging) = {r \in rows[Dest] : r[2] = 0}
         /\ RowsOf(attempt) \subseteq Promoted(Staging)
         /\ Promoted(Staging) \subseteq Old \cup RowsOf(attempt)
         /\ cfg.promote # "swap" => {r \in Old : r[2] > N} \subseteq Promoted(Staging)
<1> USE Constants, NameFacts DEF IInv, StagingKnown, TypeOK, ControlTyped
<1>1. Staged /\ ~cfg.chunked /\ rows[Staging] = RowsOf(attempt)
  BY DEF ReadSoFar
<1>2. KeysOf(Staging) = Batches
  <2>1. \A b \in Batches : <<attempt, b>> \in rows[Staging] /\ <<attempt, b>>[2] = b
    BY <1>1 DEF RowsOf
  <2>2. \A r \in rows[Staging] : r[2] \in Batches
    BY <1>1 DEF RowsOf
  <2> QED BY <2>1, <2>2, Zenon DEF KeysOf
<1>3. rows[Dest] \subseteq Old /\ {r \in Old : r[2] \in Batches \/ r[2] > N} \subseteq rows[Dest]
  <2>1. \A r \in Old : r[2] > N => ~InWindow(r)
    BY ConfigFacts DEF InWindow, Old
  <2>2. \/ rows[Dest] = Old
        \/ rows[Dest] = {r \in Old : ~InWindow(r) \/ r[2] \in Batches}
    BY <1>1 DEF DestinationKept
  <2> QED BY <2>1, <2>2
<1>4. Stale(Staging) = {r \in rows[Dest] : r[2] = 0}
  BY <1>2, <1>3, ConfigFacts DEF Stale, InWindow, Old, Batches
<1>5. \A r \in Old : r[2] > N => r \notin Replaced(Staging) \cup Stale(Staging)
  BY <1>2, <1>4, ConfigFacts DEF Replaced, Old, Batches
<1>6. RowsOf(attempt) \subseteq Promoted(Staging)
  BY <1>1 DEF Promoted
<1>7. Promoted(Staging) \subseteq Old \cup RowsOf(attempt)
  BY <1>1, <1>3 DEF Promoted
<1>8. cfg.promote # "swap" => {r \in Old : r[2] > N} \subseteq Promoted(Staging)
  BY <1>3, <1>5 DEF Promoted
<1> QED BY <1>1, <1>2, <1>3, <1>4, <1>6, <1>7, <1>8


\* Setup, of any flow.
LEMMA BeginKeeps ==
  ASSUME IInv, Begin(marker)
  PROVE  IInv'
<1> USE Constants, NameFacts DEF IInv, StagingKnown, Begin, Fatal, Suspect, control, store,
    reading, warnings, counters, state, history, Staged, Missing, Staging, ChunkTable,
    Target, WriteTable
<1>1. TypeOK /\ cfg \in Configs /\ cfg' = cfg /\ Flow' = Flow
  BY DEF TypeOK, ControlTyped, Flow, DatabaseFlow, SessionFlow, ApiFlow, FrameFlow
<1>Control. ControlTyped'
  BY <1>1 DEF TypeOK, ControlTyped
<1>Store. StoreTyped'
  BY <1>1 DEF TypeOK, StoreTyped
<1>Counts. CountsTyped'
  BY <1>1 DEF TypeOK, CountsTyped, Kinds
<1>t. TypeOK'
  BY <1>Control, <1>Store, <1>Counts DEF TypeOK
<1>Known. StagingKnown'
  BY <1>1, <1>t, ConfigFacts, FlowFacts DEF TypeOK, ControlTyped, StoreTyped, ToDrop,
     StagingReclaimed, TablesThere, Tail, Block
<1>RowsMade. RowsMade'
  BY <1>1 DEF RowsMade, Old, Early
<1>TablesThere. TablesThere'
  BY <1>1 DEF TablesThere, Early, Block, Tail
<1>AbortedApart. AbortedApart'
  BY <1>1 DEF AbortedApart
<1>ReadSoFar. ReadSoFar'
  BY <1>1 DEF ReadSoFar, Partly, RowsOf, Retriable, Early, Block, Tail
<1>Vouched. Vouched'
  <2>1. saved' = saved /\ ~saved /\ pc' \notin Tail /\ marker' = marker
    BY <1>1 DEF Tail, ReadSoFar, Early, Retriable
  <2> HIDE DEF Missing
  <2> QED BY <1>1, <2>1 DEF Vouched, Settled, Ours
<1>DestinationKept. DestinationKept'
  BY <1>1, <1>t, ConfigFacts, FlowFacts DEF TypeOK, ControlTyped, StoreTyped, DestinationKept,
     Old, Ours, InWindow, Batches, Block, Retriable, ReadSoFar, RowsMade, TablesThere,
     AbortedApart
<1>SaidSinceStopped. SaidSinceStopped'
  BY <1>1, <1>t, ConfigFacts, FlowFacts DEF TypeOK, ControlTyped, StoreTyped, SaidSinceStopped,
     Untouched, Ours, KeysOf, Batches, Retriable, DestinationKept, ReadSoFar, AbortedApart,
     TablesThere
<1>ShrinkSeen. ShrinkSeen'
  BY <1>1 DEF ShrinkSeen
<1>CountsKept. CountsKept'
  <2>1. pc = "setup" /\ pc' \in {"prepare", "failed"} /\ carried \subseteq raised'
    BY <1>1
  <2>2. partial > 0 /\ "partial" \in cfg.fail => pc' = "failed"
    BY <1>1, <2>1 DEF CountsTyped, TypeOK
  <2>3. Landed' = Landed /\ Repeated' = Repeated
    BY <1>1 DEF Landed, Repeated, Rewritten, Ours
  <2> QED BY <1>1, <2>1, <2>2, <2>3 DEF CountsKept, Retriable, Block
<1>PromotedWhole. PromotedWhole'
  BY <1>1 DEF PromotedWhole, Failing, Ours, Theirs, RowsOf
<1>WrittenOnce. WrittenOnce'
  BY <1>1 DEF WrittenOnce, Ours
<1>NoSilentShrink. NoSilentShrink'
  BY <1>1, ConfigFacts DEF TypeOK, ControlTyped, StoreTyped, NoSilentShrink, Ours, ShrinkSeen,
     DestinationKept, Retriable, Early, Old
<1>PartialCounted. PartialCounted'
  BY <1>1 DEF PartialCounted, Rewritten, Ours
<1> QED BY <1>t, <1>Known, <1>RowsMade, <1>TablesThere, <1>AbortedApart, <1>ReadSoFar,
    <1>Vouched, <1>DestinationKept, <1>SaidSinceStopped, <1>ShrinkSeen, <1>CountsKept,
    <1>PromotedWhole, <1>WrittenOnce, <1>NoSilentShrink, <1>PartialCounted

\* Setup fails, and another attempt may come after.
LEMMA SetupFailsKeeps ==
  ASSUME IInv, SetupFails
  PROVE  IInv'
<1> USE Constants, NameFacts DEF IInv, StagingKnown, SetupFails, Transient, EndAttempt, Fault,
    control, store, reading, warnings, counters, state, history, Staged, Missing, Staging,
    ChunkTable,
    Target, WriteTable
<1>1. TypeOK /\ cfg \in Configs /\ cfg' = cfg /\ Flow' = Flow
  BY DEF TypeOK, ControlTyped, Flow, DatabaseFlow, SessionFlow, ApiFlow, FrameFlow
<1>s. PICK transient \in Transient("setup") : EndAttempt(transient)
  OBVIOUS
<1>r. transient => "setup" \in Flow.retried
  BY <1>s
<1>e. /\ pc = "setup" /\ cfg' = cfg /\ rows' = rows /\ late' = late /\ aborted' = aborted
      /\ marker' = marker /\ saved' = saved
      /\ \/ /\ pc' = "setup" /\ attempt' = attempt + 1 /\ attempt' \in 1..MaxAttempts
            /\ partial' = partial + landed /\ landed' = 0 /\ "setup" \in Flow.retried
         \/ pc' = "failed" /\ attempt' = attempt /\ partial' = partial /\ landed' = landed
  BY <1>1, <1>s, <1>r DEF TypeOK, ControlTyped
<1>Control. ControlTyped'
  BY <1>1 DEF TypeOK, ControlTyped
<1>Store. StoreTyped'
  BY <1>1 DEF TypeOK, StoreTyped
<1>Counts. CountsTyped'
  BY <1>1 DEF TypeOK, CountsTyped, Kinds
<1>t. TypeOK'
  BY <1>Control, <1>Store, <1>Counts DEF TypeOK
<1>Known. StagingKnown'
  BY <1>1, <1>t, ConfigFacts, FlowFacts DEF TypeOK, ControlTyped, StoreTyped, ToDrop,
     StagingReclaimed, TablesThere, Tail, Block
<1>RowsMade. RowsMade'
  BY <1>1 DEF RowsMade, Old, Early, TypeOK, ControlTyped, StoreTyped
<1>TablesThere. TablesThere'
  BY <1>1 DEF TablesThere, Early, Block, Tail, TypeOK, ControlTyped, StoreTyped
<1>AbortedApart. AbortedApart'
  BY <1>1, <1>e, ApartStays DEF TypeOK, ControlTyped
<1>ReadSoFar. ReadSoFar'
  <2>1. /\ carried' \subseteq {"partial"} /\ ("count" \in raised' => cfg'.counts)
        /\ (short' # {} => "count" \in raised') /\ (marker' # 0 => cfg'.chunked)
    BY <1>1, <1>s DEF ReadSoFar
  <2>2. pc' \in {"setup", "failed"}
    BY <1>e
  <2>3. ~saved'
    BY <1>e DEF ReadSoFar, Early, TypeOK, ControlTyped
  <2> QED BY ONLY <2>1, <2>2, <2>3 DEF ReadSoFar, Tail
<1>Vouched. Vouched'
  <2>1. Ours' = Ours /\ \A b \in Batches : Settled(b) => Settled(b)'
    BY <1>e, SettledStays DEF Ours
  <2>2. Missing' = Missing
    OBVIOUS
  <2> HIDE DEF Missing
  <2> QED BY <1>e, <2>1, <2>2 DEF Vouched, Tail
<1>DestinationKept. DestinationKept'
  BY <1>1 DEF DestinationKept, Old, Ours, InWindow, Block, Retriable
<1>SaidSinceStopped. SaidSinceStopped'
  BY <1>1 DEF SaidSinceStopped, Untouched, Ours, KeysOf, Retriable
<1>ShrinkSeen. ShrinkSeen'
  BY <1>1 DEF ShrinkSeen
<1>CountsKept. CountsKept'
  <2>1. CASE pc' = "setup"
    <3>1. Retriable /\ Flow.counted
      BY <1>1, <1>e, <2>1, FlowFacts DEF Retriable, CountsKept
    <3> QED BY <1>1, <1>e, <2>1, <3>1, CountsOfNext
  <2>2. CASE pc' = "failed"
    BY <1>1, <1>e, <2>2 DEF CountsKept, Retriable, Block, Landed, Repeated, Rewritten, Ours
  <2> QED BY <1>e, <2>1, <2>2
<1>PromotedWhole. PromotedWhole'
  BY <1>1 DEF PromotedWhole, Failing, Ours, Theirs, RowsOf, TypeOK, ControlTyped, StoreTyped
<1>WrittenOnce. WrittenOnce'
  BY <1>1 DEF WrittenOnce, Ours
<1>NoSilentShrink. NoSilentShrink'
  BY <1>1 DEF NoSilentShrink, Ours
<1>PartialCounted. PartialCounted'
  BY <1>1, ConfigFacts DEF TypeOK, ControlTyped, StoreTyped, PartialCounted, Rewritten, Ours,
     CountsKept, ReadSoFar, RowsMade
<1> QED BY <1>t, <1>Known, <1>RowsMade, <1>TablesThere, <1>AbortedApart, <1>ReadSoFar,
    <1>Vouched, <1>DestinationKept, <1>SaidSinceStopped, <1>ShrinkSeen, <1>CountsKept,
    <1>PromotedWhole, <1>WrittenOnce, <1>NoSilentShrink, <1>PartialCounted

\* The tables are made.
LEMMA PrepareKeeps ==
  ASSUME IInv, Prepare
  PROVE  IInv'
<1> USE Constants, NameFacts DEF IInv, StagingKnown, Prepare, control, store, reading, warnings,
    counters, state, history, Staged, Missing, Staging, ChunkTable, Target, WriteTable
<1>1. TypeOK /\ cfg \in Configs /\ cfg' = cfg /\ Flow' = Flow
  BY DEF TypeOK, ControlTyped, Flow, DatabaseFlow, SessionFlow, ApiFlow, FrameFlow
<1>Control. ControlTyped'
  BY <1>1 DEF TypeOK, ControlTyped
<1>Store. StoreTyped'
  BY <1>1 DEF TypeOK, StoreTyped, ControlTyped
<1>Counts. CountsTyped'
  BY <1>1 DEF TypeOK, CountsTyped, Kinds
<1>t. TypeOK'
  BY <1>Control, <1>Store, <1>Counts DEF TypeOK
<1>Known. StagingKnown'
  BY <1>1, <1>t, ConfigFacts, FlowFacts DEF TypeOK, ControlTyped, StoreTyped, ToDrop,
     StagingReclaimed, TablesThere, Tail, Block
<1>RowsMade. RowsMade'
  BY <1>1 DEF RowsMade, Old, Early
<1>TablesThere. TablesThere'
  BY <1>1 DEF TablesThere, Early, Block, Tail, TypeOK, ControlTyped, StoreTyped, ReadSoFar
<1>AbortedApart. AbortedApart'
  BY <1>1 DEF AbortedApart
<1>ReadSoFar. ReadSoFar'
  BY <1>1, ConfigFacts DEF TypeOK, ControlTyped, StoreTyped, ReadSoFar, Partly, RowsOf, Batches,
     Early, Block, Tail, Retriable, RowsMade, TablesThere
<1>Vouched. Vouched'
  BY <1>1 DEF Vouched, Settled, Ours, Tail
<1>DestinationKept. DestinationKept'
  <2>1. before.exists <=> ~created'
    BY DEF DestinationKept
  <2> QED BY <1>1, <1>t, <2>1, ConfigFacts DEF TypeOK, ControlTyped, DestinationKept, Old, Ours,
      Block, Retriable, ReadSoFar
<1>SaidSinceStopped. SaidSinceStopped'
  BY <1>1 DEF SaidSinceStopped, Untouched, Ours, KeysOf, Retriable
<1>ShrinkSeen. ShrinkSeen'
  BY <1>1 DEF ShrinkSeen
<1>CountsKept. CountsKept'
  BY <1>1 DEF CountsKept, Landed, Repeated, Rewritten, Ours, Retriable, Block
<1>PromotedWhole. PromotedWhole'
  BY <1>1 DEF PromotedWhole, Failing, Ours, Theirs, RowsOf
<1>WrittenOnce. WrittenOnce'
  BY <1>1 DEF WrittenOnce, Ours
<1>NoSilentShrink. NoSilentShrink'
  BY <1>1 DEF NoSilentShrink, Ours
<1>PartialCounted. PartialCounted'
  BY <1>1 DEF PartialCounted, Rewritten, Ours
<1> QED BY <1>t, <1>Known, <1>RowsMade, <1>TablesThere, <1>AbortedApart, <1>ReadSoFar,
    <1>Vouched, <1>DestinationKept, <1>SaidSinceStopped, <1>ShrinkSeen, <1>CountsKept,
    <1>PromotedWhole, <1>WrittenOnce, <1>NoSilentShrink, <1>PartialCounted

\* Some of the tables are made.
LEMMA PrepareFailsKeeps ==
  ASSUME IInv, PrepareFails
  PROVE  IInv'
<1> USE Constants, NameFacts DEF IInv, StagingKnown, PrepareFails, EndAttempt, Fault, control,
    store, reading, warnings, counters, state, history, Staged, Missing, Staging,
    ChunkTable, Target,
    WriteTable
<1>1. TypeOK /\ cfg \in Configs /\ cfg' = cfg /\ Flow' = Flow
  BY DEF TypeOK, ControlTyped, Flow, DatabaseFlow, SessionFlow, ApiFlow, FrameFlow
<1>Control. ControlTyped'
  BY <1>1 DEF TypeOK, ControlTyped
<1>Store. StoreTyped'
  BY <1>1 DEF TypeOK, StoreTyped, ControlTyped
<1>Counts. CountsTyped'
  BY <1>1 DEF TypeOK, CountsTyped, Kinds
<1>t. TypeOK'
  BY <1>Control, <1>Store, <1>Counts DEF TypeOK
<1>Known. StagingKnown'
  BY <1>1, <1>t, ConfigFacts, FlowFacts DEF TypeOK, ControlTyped, StoreTyped, ToDrop,
     StagingReclaimed, TablesThere, Tail, Block
<1>RowsMade. RowsMade'
  BY <1>1 DEF RowsMade, Old, Early
<1>TablesThere. TablesThere'
  BY <1>1 DEF TablesThere, Early, Block, Tail, TypeOK, ControlTyped, StoreTyped
<1>AbortedApart. AbortedApart'
  BY <1>1 DEF AbortedApart
<1>ReadSoFar. ReadSoFar'
  BY <1>1, <1>t, ConfigFacts, FlowFacts DEF TypeOK, ControlTyped, StoreTyped, ReadSoFar, Partly,
     RowsOf, Batches, Early, Block, Tail, Retriable, RowsMade, TablesThere
<1>Vouched. Vouched'
  BY <1>1 DEF Vouched, Settled, Ours, Tail
<1>DestinationKept. DestinationKept'
  BY <1>1 DEF DestinationKept, Old, Ours, InWindow, Block, Retriable
<1>SaidSinceStopped. SaidSinceStopped'
  BY <1>1 DEF SaidSinceStopped, Untouched, Ours, KeysOf, Retriable
<1>ShrinkSeen. ShrinkSeen'
  BY <1>1 DEF ShrinkSeen
<1>CountsKept. CountsKept'
  BY <1>1 DEF CountsKept, Landed, Repeated, Rewritten, Ours, Retriable, Block
<1>PromotedWhole. PromotedWhole'
  BY <1>1 DEF PromotedWhole, Failing, Ours, Theirs, RowsOf
<1>WrittenOnce. WrittenOnce'
  BY <1>1 DEF WrittenOnce, Ours
<1>NoSilentShrink. NoSilentShrink'
  BY <1>1 DEF NoSilentShrink, Ours
<1>PartialCounted. PartialCounted'
  BY <1>1 DEF PartialCounted, Rewritten, Ours
<1> QED BY <1>t, <1>Known, <1>RowsMade, <1>TablesThere, <1>AbortedApart, <1>ReadSoFar,
    <1>Vouched, <1>DestinationKept, <1>SaidSinceStopped, <1>ShrinkSeen, <1>CountsKept,
    <1>PromotedWhole, <1>WrittenOnce, <1>NoSilentShrink, <1>PartialCounted

\* A batch is sent.
LEMMA SendKeeps ==
  ASSUME IInv, Send
  PROVE  IInv'
<1> USE Constants, NameFacts DEF IInv, StagingKnown, Send, control, store, reading, warnings,
    counters, state, history, Staged, Missing, Staging, ChunkTable, Target, WriteTable
<1>1. TypeOK /\ cfg \in Configs /\ cfg' = cfg /\ Flow' = Flow
  BY DEF TypeOK, ControlTyped, Flow, DatabaseFlow, SessionFlow, ApiFlow, FrameFlow
<1>Control. ControlTyped'
  BY <1>1 DEF TypeOK, ControlTyped
<1>Store. StoreTyped'
  BY <1>1, ConfigFacts DEF TypeOK, ControlTyped, StoreTyped, Batches, TablesThere, ReadSoFar,
     Early, Block, Tail
<1>Counts. CountsTyped'
  BY <1>1 DEF TypeOK, CountsTyped, Kinds
<1>t. TypeOK'
  BY <1>Control, <1>Store, <1>Counts DEF TypeOK
<1>Known. StagingKnown'
  BY <1>1, <1>t, ConfigFacts, FlowFacts DEF TypeOK, ControlTyped, StoreTyped, ToDrop,
     StagingReclaimed, TablesThere, Tail, Block
<1>RowsMade. RowsMade'
  BY <1>1 DEF RowsMade, Old, Early
<1>TablesThere. TablesThere'
  BY <1>1 DEF TablesThere, Early, Block, Tail, TypeOK, ControlTyped, StoreTyped
<1>AbortedApart. AbortedApart'
  BY <1>1 DEF AbortedApart
<1>ReadSoFar. ReadSoFar'
  BY <1>1, ConfigFacts DEF TypeOK, ControlTyped, StoreTyped, ReadSoFar, Partly, RowsOf, Batches,
     Early, Block, Tail, Retriable, RowsMade, TablesThere
<1>Vouched. Vouched'
  BY <1>1 DEF Vouched, Settled, Ours, Tail
<1>DestinationKept. DestinationKept'
  BY <1>1 DEF DestinationKept, Old, Ours, InWindow, Block, Retriable
<1>SaidSinceStopped. SaidSinceStopped'
  BY <1>1 DEF SaidSinceStopped, Untouched, Ours, KeysOf, Retriable
<1>ShrinkSeen. ShrinkSeen'
  BY <1>1 DEF ShrinkSeen
<1>CountsKept. CountsKept'
  BY <1>1 DEF CountsKept, Landed, Repeated, Rewritten, Ours, Retriable, Block
<1>PromotedWhole. PromotedWhole'
  BY <1>1 DEF PromotedWhole, Failing, Ours, Theirs, RowsOf
<1>WrittenOnce. WrittenOnce'
  BY <1>1 DEF WrittenOnce, Ours
<1>NoSilentShrink. NoSilentShrink'
  BY <1>1 DEF NoSilentShrink, Ours
<1>PartialCounted. PartialCounted'
  BY <1>1 DEF PartialCounted, Rewritten, Ours
<1> QED BY <1>t, <1>Known, <1>RowsMade, <1>TablesThere, <1>AbortedApart, <1>ReadSoFar,
    <1>Vouched, <1>DestinationKept, <1>SaidSinceStopped, <1>ShrinkSeen, <1>CountsKept,
    <1>PromotedWhole, <1>WrittenOnce, <1>NoSilentShrink, <1>PartialCounted

\* A chunk is begun.
LEMMA OpenChunkKeeps ==
  ASSUME IInv, OpenChunk
  PROVE  IInv'
<1> USE Constants, NameFacts DEF IInv, StagingKnown, OpenChunk, control, store, reading,
    warnings, counters, state, history, Staged, Missing, Staging, ChunkTable, Target, WriteTable
<1>1. TypeOK /\ cfg \in Configs /\ cfg' = cfg /\ Flow' = Flow
  BY DEF TypeOK, ControlTyped, Flow, DatabaseFlow, SessionFlow, ApiFlow, FrameFlow
<1>Control. ControlTyped'
  BY <1>1 DEF TypeOK, ControlTyped
<1>Store. StoreTyped'
  BY <1>1 DEF TypeOK, StoreTyped, ControlTyped
<1>Counts. CountsTyped'
  BY <1>1 DEF TypeOK, CountsTyped, Kinds
<1>t. TypeOK'
  BY <1>Control, <1>Store, <1>Counts DEF TypeOK
<1>Known. StagingKnown'
  BY <1>1, <1>t, ConfigFacts, FlowFacts DEF TypeOK, ControlTyped, StoreTyped, ToDrop,
     StagingReclaimed, TablesThere, Tail, Block
<1>RowsMade. RowsMade'
  BY <1>1 DEF RowsMade, Old, Early
<1>TablesThere. TablesThere'
  BY <1>1 DEF TablesThere, Early, Block, Tail, TypeOK, ControlTyped, StoreTyped
<1>AbortedApart. AbortedApart'
  BY <1>1 DEF AbortedApart
<1>ReadSoFar. ReadSoFar'
  BY <1>1, ConfigFacts DEF TypeOK, ControlTyped, StoreTyped, ReadSoFar, Partly, RowsOf, Batches,
     Early, Block, Tail, Retriable, RowsMade, TablesThere
<1>Vouched. Vouched'
  BY <1>1 DEF Vouched, Settled, Ours, Tail
<1>DestinationKept. DestinationKept'
  BY <1>1 DEF DestinationKept, Old, Ours, InWindow, Block, Retriable
<1>SaidSinceStopped. SaidSinceStopped'
  BY <1>1 DEF SaidSinceStopped, Untouched, Ours, KeysOf, Retriable
<1>ShrinkSeen. ShrinkSeen'
  BY <1>1 DEF ShrinkSeen
<1>CountsKept. CountsKept'
  BY <1>1 DEF CountsKept, Landed, Repeated, Rewritten, Ours, Retriable, Block
<1>PromotedWhole. PromotedWhole'
  BY <1>1 DEF PromotedWhole, Failing, Ours, Theirs, RowsOf
<1>WrittenOnce. WrittenOnce'
  BY <1>1 DEF WrittenOnce, Ours
<1>NoSilentShrink. NoSilentShrink'
  BY <1>1 DEF NoSilentShrink, Ours
<1>PartialCounted. PartialCounted'
  BY <1>1 DEF PartialCounted, Rewritten, Ours
<1> QED BY <1>t, <1>Known, <1>RowsMade, <1>TablesThere, <1>AbortedApart, <1>ReadSoFar,
    <1>Vouched, <1>DestinationKept, <1>SaidSinceStopped, <1>ShrinkSeen, <1>CountsKept,
    <1>PromotedWhole, <1>WrittenOnce, <1>NoSilentShrink, <1>PartialCounted

\* A chunk's table may be made and not noted.
LEMMA OpenFailsKeeps ==
  ASSUME IInv, OpenFails
  PROVE  IInv'
<1> USE Constants, NameFacts DEF IInv, StagingKnown, OpenFails, Break, Fault, control, store,
    reading, warnings, counters, state, history, Staged, Missing, Staging, ChunkTable,
    Target, WriteTable
<1>1. TypeOK /\ cfg \in Configs /\ cfg' = cfg /\ Flow' = Flow
  BY DEF TypeOK, ControlTyped, Flow, DatabaseFlow, SessionFlow, ApiFlow, FrameFlow
<1>Control. ControlTyped'
  <2>1. retry' \in BOOLEAN
    BY <1>1 DEF TypeOK, ControlTyped
  <2>2. faults' \in 0..MaxFaults
    BY <1>1 DEF TypeOK, ControlTyped
  <2> QED BY <1>1, <2>1, <2>2 DEF TypeOK, ControlTyped
<1>Store. StoreTyped'
  BY <1>1 DEF TypeOK, StoreTyped, ControlTyped
<1>Counts. CountsTyped'
  BY <1>1 DEF TypeOK, CountsTyped, Kinds
<1>t. TypeOK'
  BY <1>Control, <1>Store, <1>Counts DEF TypeOK
<1>Known. StagingKnown'
  BY <1>1, <1>t, ConfigFacts, FlowFacts DEF TypeOK, ControlTyped, StoreTyped, ToDrop,
     StagingReclaimed, TablesThere, Tail, Block
<1>RowsMade. RowsMade'
  BY <1>1 DEF RowsMade, Old, Early
<1>TablesThere. TablesThere'
  BY <1>1 DEF TablesThere, Early, Block, Tail
<1>AbortedApart. AbortedApart'
  BY <1>1, AbortsApart DEF TypeOK, StoreTyped
<1>ReadSoFar. ReadSoFar'
  BY <1>1 DEF ReadSoFar, Partly, RowsOf, Retriable, Early, Block, Tail
<1>Vouched. Vouched'
  BY <1>1, AbortsVouched DEF TypeOK, StoreTyped
<1>DestinationKept. DestinationKept'
  BY <1>1 DEF DestinationKept, Old, Ours, InWindow, Block, Retriable
<1>SaidSinceStopped. SaidSinceStopped'
  BY <1>1 DEF SaidSinceStopped, Untouched, Ours, KeysOf, Retriable
<1>ShrinkSeen. ShrinkSeen'
  BY <1>1 DEF ShrinkSeen
<1>CountsKept. CountsKept'
  BY <1>1 DEF CountsKept, Landed, Repeated, Rewritten, Ours, Retriable, Block
<1>PromotedWhole. PromotedWhole'
  BY <1>1 DEF PromotedWhole, Failing, Ours, Theirs, RowsOf
<1>WrittenOnce. WrittenOnce'
  BY <1>1 DEF WrittenOnce, Ours
<1>NoSilentShrink. NoSilentShrink'
  BY <1>1 DEF NoSilentShrink, Ours
<1>PartialCounted. PartialCounted'
  BY <1>1 DEF PartialCounted, Rewritten, Ours
<1> QED BY <1>t, <1>Known, <1>RowsMade, <1>TablesThere, <1>AbortedApart, <1>ReadSoFar,
    <1>Vouched, <1>DestinationKept, <1>SaidSinceStopped, <1>ShrinkSeen, <1>CountsKept,
    <1>PromotedWhole, <1>WrittenOnce, <1>NoSilentShrink, <1>PartialCounted

\* An insert is acknowledged.
LEMMA LandsKeeps ==
  ASSUME IInv, NEW b \in Batches, Lands(b)
  PROVE  IInv'
<1> USE Constants, NameFacts DEF IInv, StagingKnown, Lands, Adding, control, store, reading,
    warnings, counters, state, history, Staged, Missing, Staging, ChunkTable, Target, WriteTable
<1>1. TypeOK /\ cfg \in Configs /\ cfg' = cfg /\ Flow' = Flow
  BY DEF TypeOK, ControlTyped, Flow, DatabaseFlow, SessionFlow, ApiFlow, FrameFlow
<1>i. /\ pc \in {"read", "chunk"} /\ ~saved /\ marker < b /\ b <= at + 1
      /\ WriteTable \in Names
      /\ Staged => WriteTable # Dest /\ rows'[Dest] = rows[Dest]
      /\ ~Staged => /\ WriteTable = Dest /\ <<attempt, b>> \notin rows[Dest]
                    /\ rows'[Dest] = rows[Dest] \cup {<<attempt, b>>}
  BY <1>1, InFlight DEF TypeOK, ControlTyped, StoreTyped
<1>w. Staged => Ours' = Ours /\ Theirs' = Theirs
  BY <1>1, <1>i DEF Ours, Theirs
<1>n. ~Staged => Landed' = Landed \cup {<<attempt, b>>} /\ <<attempt, b>> \notin Landed
  BY <1>1, <1>i DEF Landed, Ours, TypeOK, ControlTyped, AbortedApart
<1>h. ~Staged => Cardinality(Landed') = Cardinality(Landed) + 1
  BY <1>n, OursFinite, FS_AddElement DEF Landed
<1>o. Cardinality(Landed') \in 0..N
  <2>1. Landed' \subseteq {attempt} \X Batches
    BY <1>1, <1>i, <1>w, <1>n DEF TypeOK, ControlTyped, StoreTyped, Landed, Ours, RowsMade
  <2> QED BY <2>1, OfOneAttempt
<1>Control. ControlTyped'
  BY <1>1 DEF TypeOK, ControlTyped
<1>Store. StoreTyped'
  BY <1>1, ConfigFacts DEF TypeOK, ControlTyped, StoreTyped, Batches, TablesThere, ReadSoFar,
     Early, Block, Tail
<1>Counts. CountsTyped'
  <2>1. landed' \in 0..N
    BY <1>1, <1>i, <1>h, <1>o DEF TypeOK, CountsTyped, CountsKept, Retriable
  <2> QED BY <1>1, <2>1 DEF TypeOK, CountsTyped
<1>t. TypeOK'
  BY <1>Control, <1>Store, <1>Counts DEF TypeOK
<1>Known. StagingKnown'
  BY <1>1, <1>t, ConfigFacts, FlowFacts DEF TypeOK, ControlTyped, StoreTyped, ToDrop,
     StagingReclaimed, TablesThere, Tail, Block
<1>RowsMade. RowsMade'
  BY <1>1 DEF RowsMade, Old, Early, TypeOK, ControlTyped, StoreTyped, ReadSoFar, Block, Tail
<1>TablesThere. TablesThere'
  BY <1>1 DEF TablesThere, Early, Block, Tail
<1>AbortedApart. AbortedApart'
  BY <1>1 DEF AbortedApart
<1>ReadSoFar. ReadSoFar'
  <2>1. /\ Missing' = Missing /\ pc' = pc /\ at' = at /\ attempt' = attempt
        /\ marker' = marker /\ raised' = raised /\ carried' = carried /\ short' = short
        /\ saved' = saved /\ retry' = retry /\ Batches' = Batches
    BY <1>1 DEF Batches
  <2>2. pc = "read" /\ ~cfg.chunked => inflight' \subseteq 1..at /\ Partly(Target)'
    <3> SUFFICES ASSUME pc = "read", ~cfg.chunked
                 PROVE  inflight' \subseteq 1..at /\ Partly(Target)'
      OBVIOUS
    <3>1. open = NoName
      BY DEF TablesThere
    <3>2. WriteTable = Target /\ Target' = Target /\ Target \in Names
      BY <1>1, <1>i, <3>1
    <3> HIDE DEF Target
    <3>3. rows'[Target] = rows[Target] \cup {<<attempt, b>>}
      BY <1>1, <3>2 DEF TypeOK, StoreTyped
    <3>4. inflight \subseteq 1..at /\ Partly(Target) /\ inflight' = inflight \ {b}
      BY DEF ReadSoFar
    <3> QED BY <1>1, <2>1, <3>2, <3>3, <3>4 DEF TypeOK, ControlTyped, StoreTyped, Partly, Batches
  <2>3. pc = "read" => ~cfg.chunked
    BY DEF ReadSoFar
  <2>4. pc = "chunk" =>
          /\ inflight' \subseteq {at + 1}
          /\ \A c \in Batches : <<attempt, c>> \in rows'[Dest] => c <= at + 1 /\ c \notin inflight'
          /\ at < N => \/ at + 1 \in inflight' \/ <<attempt, at + 1>> \in rows'[WriteTable]
                       \/ "count" \in raised
    BY <1>1, <1>i DEF TypeOK, ControlTyped, StoreTyped, ReadSoFar, Batches
  <2>5. pc = "chunk" /\ Staged => rows'[open] \subseteq {<<attempt, at + 1>>}
    BY <1>1, <1>i DEF TypeOK, ControlTyped, StoreTyped, ReadSoFar, TablesThere
  <2>6. pc = "read" /\ Staged => rows'[Staging] \subseteq RowsOf(attempt)
    BY <1>1, <1>i, <2>3 DEF TypeOK, ControlTyped, StoreTyped, ReadSoFar, RowsOf
  <2> HIDE DEF Missing
  <2> QED BY <1>1, <1>i, <2>1, <2>2, <2>3, <2>4, <2>5, <2>6
      DEF TypeOK, ControlTyped, ReadSoFar, Early, Block, Tail, Retriable, RowsOf
<1>Vouched. Vouched'
  BY <1>1 DEF Vouched, Settled, Ours, Tail, TypeOK, ControlTyped, StoreTyped, ReadSoFar, Block
<1>DestinationKept. DestinationKept'
  BY <1>1, ConfigFacts DEF DestinationKept, Old, Ours, InWindow, Block, Retriable, TypeOK,
     ControlTyped, ReadSoFar, TablesThere
<1>SaidSinceStopped. SaidSinceStopped'
  BY <1>1 DEF SaidSinceStopped, Untouched, Ours, KeysOf, Retriable
<1>ShrinkSeen. ShrinkSeen'
  BY <1>1 DEF ShrinkSeen
<1>CountsKept. CountsKept'
  <2>1. CASE Staged
    BY <1>1, <1>i, <2>1 DEF CountsKept, Retriable, Block
  <2>2. CASE ~Staged
    <3>1. Repeated' = Repeated
      BY <1>1, <1>i, <2>2 DEF Repeated, Rewritten, Ours, TypeOK, ControlTyped, AbortedApart,
         RowsMade
    <3> QED BY <1>1, <1>i, <1>h, <2>2, <3>1 DEF CountsKept, Retriable, Block
  <2> QED BY <2>1, <2>2
<1>PromotedWhole. PromotedWhole'
  BY <1>1, <1>i, <1>w, ConfigFacts DEF TypeOK, ControlTyped, PromotedWhole, Failing, RowsOf
<1>WrittenOnce. WrittenOnce'
  BY <1>1, <1>i, <1>w, ConfigFacts DEF TypeOK, ControlTyped, WrittenOnce, Failing, RowsOf
<1>NoSilentShrink. NoSilentShrink'
  BY <1>1, <1>i, <1>w, ConfigFacts DEF TypeOK, ControlTyped, NoSilentShrink, Failing, RowsOf
<1>PartialCounted. PartialCounted'
  BY <1>1, ConfigFacts DEF TypeOK, ControlTyped, StoreTyped, PartialCounted, Rewritten, Ours,
     CountsKept, ReadSoFar, RowsMade
<1> QED BY <1>t, <1>Known, <1>RowsMade, <1>TablesThere, <1>AbortedApart, <1>ReadSoFar,
    <1>Vouched, <1>DestinationKept, <1>SaidSinceStopped, <1>ShrinkSeen, <1>CountsKept,
    <1>PromotedWhole, <1>WrittenOnce, <1>NoSilentShrink, <1>PartialCounted

\* An insert's rows are short.
LEMMA LandsShortKeeps ==
  ASSUME IInv, NEW b \in Batches, LandsShort(b)
  PROVE  IInv'
<1> USE Constants, NameFacts DEF IInv, StagingKnown, LandsShort, Fault, control, store, reading,
    warnings, counters, state, history, Staged, Missing, Staging, ChunkTable, Target, WriteTable
<1>1. TypeOK /\ cfg \in Configs /\ cfg' = cfg /\ Flow' = Flow
  BY DEF TypeOK, ControlTyped, Flow, DatabaseFlow, SessionFlow, ApiFlow, FrameFlow
<1>Control. ControlTyped'
  BY <1>1 DEF TypeOK, ControlTyped
<1>Store. StoreTyped'
  BY <1>1 DEF TypeOK, StoreTyped
<1>Counts. CountsTyped'
  BY <1>1 DEF TypeOK, CountsTyped, Kinds
<1>t. TypeOK'
  BY <1>Control, <1>Store, <1>Counts DEF TypeOK
<1>Known. StagingKnown'
  BY <1>1, <1>t, ConfigFacts, FlowFacts DEF TypeOK, ControlTyped, StoreTyped, ToDrop,
     StagingReclaimed, TablesThere, Tail, Block
<1>RowsMade. RowsMade'
  BY <1>1 DEF RowsMade, Old, Early
<1>TablesThere. TablesThere'
  BY <1>1 DEF TablesThere, Early, Block, Tail
<1>AbortedApart. AbortedApart'
  BY <1>1 DEF AbortedApart
<1>ReadSoFar. ReadSoFar'
  BY <1>1 DEF ReadSoFar, Partly, RowsOf, Retriable, Early, Block, Tail
<1>Vouched. Vouched'
  BY <1>1 DEF Vouched, Settled, Ours, Tail
<1>DestinationKept. DestinationKept'
  BY <1>1 DEF DestinationKept, Old, Ours, InWindow, Block, Retriable
<1>SaidSinceStopped. SaidSinceStopped'
  BY <1>1 DEF SaidSinceStopped, Untouched, Ours, KeysOf, Retriable
<1>ShrinkSeen. ShrinkSeen'
  BY <1>1 DEF ShrinkSeen
<1>CountsKept. CountsKept'
  BY <1>1 DEF CountsKept, Landed, Repeated, Rewritten, Ours, Retriable, Block
<1>PromotedWhole. PromotedWhole'
  BY <1>1 DEF PromotedWhole, Failing, Ours, Theirs, RowsOf
<1>WrittenOnce. WrittenOnce'
  BY <1>1 DEF WrittenOnce, Ours
<1>NoSilentShrink. NoSilentShrink'
  BY <1>1 DEF NoSilentShrink, Ours
<1>PartialCounted. PartialCounted'
  BY <1>1 DEF PartialCounted, Rewritten, Ours
<1> QED BY <1>t, <1>Known, <1>RowsMade, <1>TablesThere, <1>AbortedApart, <1>ReadSoFar,
    <1>Vouched, <1>DestinationKept, <1>SaidSinceStopped, <1>ShrinkSeen, <1>CountsKept,
    <1>PromotedWhole, <1>WrittenOnce, <1>NoSilentShrink, <1>PartialCounted

\* The read fails, with inserts in flight.
LEMMA ReadFailsKeeps ==
  ASSUME IInv, ReadFails
  PROVE  IInv'
<1> USE Constants, NameFacts DEF IInv, StagingKnown, ReadFails, Break, Fault, Transient,
    control, store, reading, warnings, counters, state, history, Staged, Missing, Staging,
    ChunkTable,
    Target, WriteTable
<1>1. TypeOK /\ cfg \in Configs /\ cfg' = cfg /\ Flow' = Flow
  BY DEF TypeOK, ControlTyped, Flow, DatabaseFlow, SessionFlow, ApiFlow, FrameFlow
<1>r. retry' => "read" \in Flow.retried
  BY Zenon
<1>Control. ControlTyped'
  <2>1. retry' \in BOOLEAN
    BY <1>1 DEF TypeOK, ControlTyped
  <2>2. faults' \in 0..MaxFaults
    BY <1>1 DEF TypeOK, ControlTyped
  <2> QED BY <1>1, <2>1, <2>2 DEF TypeOK, ControlTyped
<1>Store. StoreTyped'
  BY <1>1 DEF TypeOK, StoreTyped, ControlTyped
<1>Counts. CountsTyped'
  BY <1>1 DEF TypeOK, CountsTyped, Kinds
<1>t. TypeOK'
  BY <1>Control, <1>Store, <1>Counts DEF TypeOK
<1>Known. StagingKnown'
  BY <1>1, <1>t, ConfigFacts, FlowFacts DEF TypeOK, ControlTyped, StoreTyped, ToDrop,
     StagingReclaimed, TablesThere, Tail, Block
<1>RowsMade. RowsMade'
  BY <1>1 DEF RowsMade, Old, Early
<1>TablesThere. TablesThere'
  BY <1>1 DEF TablesThere, Early, Block, Tail
<1>AbortedApart. AbortedApart'
  BY <1>1, AbortsApart DEF TypeOK, StoreTyped
<1>ReadSoFar. ReadSoFar'
  BY <1>1 DEF ReadSoFar, Partly, RowsOf, Retriable, Early, Block, Tail
<1>Vouched. Vouched'
  BY <1>1, AbortsVouched DEF TypeOK, StoreTyped
<1>DestinationKept. DestinationKept'
  BY <1>1 DEF DestinationKept, Old, Ours, InWindow, Block, Retriable
<1>SaidSinceStopped. SaidSinceStopped'
  BY <1>1 DEF SaidSinceStopped, Untouched, Ours, KeysOf, Retriable
<1>ShrinkSeen. ShrinkSeen'
  BY <1>1 DEF ShrinkSeen
<1>CountsKept. CountsKept'
  BY <1>1, <1>r, FlowFacts DEF TypeOK, ControlTyped, CountsKept, Landed, Repeated, Rewritten,
     Ours, Retriable, Block
<1>PromotedWhole. PromotedWhole'
  BY <1>1 DEF PromotedWhole, Failing, Ours, Theirs, RowsOf
<1>WrittenOnce. WrittenOnce'
  BY <1>1 DEF WrittenOnce, Ours
<1>NoSilentShrink. NoSilentShrink'
  BY <1>1 DEF NoSilentShrink, Ours
<1>PartialCounted. PartialCounted'
  BY <1>1 DEF PartialCounted, Rewritten, Ours
<1> QED BY <1>t, <1>Known, <1>RowsMade, <1>TablesThere, <1>AbortedApart, <1>ReadSoFar,
    <1>Vouched, <1>DestinationKept, <1>SaidSinceStopped, <1>ShrinkSeen, <1>CountsKept,
    <1>PromotedWhole, <1>WrittenOnce, <1>NoSilentShrink, <1>PartialCounted

\* An insert of a failed attempt is applied.
LEMMA LandsLateKeeps ==
  ASSUME IInv, NEW w \in aborted, LandsLate(w)
  PROVE  IInv'
<1> USE Constants, NameFacts DEF IInv, StagingKnown, LandsLate, Adding, control, store, reading,
    warnings, counters, state, history, Staged, Missing, Staging, ChunkTable, Target, WriteTable
<1>1. TypeOK /\ cfg \in Configs /\ cfg' = cfg /\ Flow' = Flow
  BY DEF TypeOK, ControlTyped, Flow, DatabaseFlow, SessionFlow, ApiFlow, FrameFlow
<1>i. /\ w[2] \in (1..attempt) \X Batches /\ w[1] \in Names
      /\ pc \notin {"cleanup", "failed", "dead"} => w[2][1] < attempt
      /\ Staged => w[1] # Dest /\ w[1][1] = w[2][1] /\ rows'[Dest] = rows[Dest] /\ late' = late
      /\ ~Staged => /\ w[1] = Dest /\ w[2] \notin rows[Dest] /\ late' = late \cup {w[2]}
                    /\ rows'[Dest] = rows[Dest] \cup {w[2]}
  BY <1>1 DEF TypeOK, ControlTyped, StoreTyped, AbortedApart
<1>l. \A t \in Names : \A b \in Batches : pc \notin {"cleanup", "failed", "dead"} =>
        /\ <<attempt, b>> \in rows'[t] <=> <<attempt, b>> \in rows[t]
        /\ t[1] = attempt => rows'[t] = rows[t]
  BY <1>1, <1>i DEF TypeOK, ControlTyped, StoreTyped
<1>w. Ours' \ late' = Ours \ late /\ (Staged => Ours' = Ours /\ Theirs' = Theirs)
  BY <1>1, <1>i DEF Ours, Theirs, AbortedApart
<1>x. ASSUME ~Staged, NEW r \in Ours \ late, Settled(r[2])
      PROVE  r \in Rewritten' <=> r \in Rewritten
  <2>1. PICK s \in Ours \ late : s[2] = r[2] /\ (w[2][2] = r[2] => w[2][1] < s[1])
    BY <1>x DEF Settled
  <2>2. Ours' = Ours \cup {w[2]}
    BY <1>i, <1>x DEF Ours
  <2>3. \A q \in Ours \cup {w[2]} : q[1] \in Nat
    BY <1>i DEF Ours, RowsMade
  <2> QED BY <1>x, <2>1, <2>2, <2>3 DEF Rewritten
<1>Control. ControlTyped'
  BY <1>1 DEF TypeOK, ControlTyped
<1>Store. StoreTyped'
  BY <1>1 DEF TypeOK, StoreTyped
<1>Counts. CountsTyped'
  BY <1>1 DEF TypeOK, CountsTyped, Kinds
<1>t. TypeOK'
  BY <1>Control, <1>Store, <1>Counts DEF TypeOK
<1>Known. StagingKnown'
  BY <1>1, <1>t, ConfigFacts, FlowFacts DEF TypeOK, ControlTyped, StoreTyped, ToDrop,
     StagingReclaimed, TablesThere, Tail, Block
<1>RowsMade. RowsMade'
  BY <1>1, <1>i DEF TypeOK, ControlTyped, StoreTyped, RowsMade, Old, Batches, Early
<1>TablesThere. TablesThere'
  BY <1>1 DEF TablesThere, Early, Block, Tail
<1>AbortedApart. AbortedApart'
  BY <1>1 DEF AbortedApart, TypeOK, ControlTyped, StoreTyped
<1>ReadSoFar. ReadSoFar'
  BY <1>1, <1>i, <1>l, ConfigFacts DEF TypeOK, ControlTyped, StoreTyped, ReadSoFar, Partly,
     RowsOf, Retriable, TablesThere, Early, Block, Tail
<1>Vouched. Vouched'
  <2>1. ASSUME NEW b \in Batches, Settled(b)
        PROVE  Settled(b)'
    <3>1. PICK s \in Ours \ late :
            /\ s[2] = b
            /\ \A r \in Ours : r[2] = b => r[1] <= s[1]
            /\ \A v \in aborted : v[2][2] = b => v[2][1] < s[1]
      BY <2>1 DEF Settled
    <3>2. s \in Ours' \ late' /\ aborted' \subseteq aborted
      BY <1>w, <3>1
    <3>3. \A r \in Ours' : r[2] = b => r[1] <= s[1]
      <4>1. CASE Staged
        BY <1>w, <3>1, <4>1
      <4>2. CASE ~Staged
        <5>1. Ours' = Ours \cup {w[2]}
          BY <1>i, <4>2 DEF Ours
        <5>2. \A q \in Ours \cup {w[2]} : q[1] \in Nat
          BY <1>i DEF Ours, RowsMade
        <5> QED BY <3>1, <5>1, <5>2
      <4> QED BY <4>1, <4>2
    <3> QED BY <3>1, <3>2, <3>3 DEF Settled
  <2>2. Batches' = Batches /\ UNCHANGED <<marker, saved, pc>> /\ Missing' = Missing
    BY <1>1 DEF Batches
  <2> HIDE DEF Missing
  <2> QED BY <2>1, <2>2 DEF Vouched, Tail
<1>DestinationKept. DestinationKept'
  BY <1>1, ConfigFacts DEF TypeOK, ControlTyped, StoreTyped, DestinationKept, Old, Ours,
     InWindow, Batches, Block, Retriable, ReadSoFar, RowsMade, TablesThere, AbortedApart
<1>SaidSinceStopped. SaidSinceStopped'
  BY <1>1, ConfigFacts DEF TypeOK, ControlTyped, StoreTyped, SaidSinceStopped, Untouched, Ours,
     KeysOf, Batches, Retriable, DestinationKept, ReadSoFar, AbortedApart, TablesThere
<1>ShrinkSeen. ShrinkSeen'
  BY <1>1 DEF ShrinkSeen
<1>CountsKept. CountsKept'
  <2>1. CASE Staged \/ ~Flow.counted
    BY <1>1, <1>i, <2>1 DEF CountsKept, Retriable, Block
  <2>2. CASE ~Staged /\ Flow.counted
    <3>1. Landed' = Landed
      BY <1>1, <1>w DEF Landed
    <3>2. \A r \in Ours \ late : r[2] <= marker => (r \in Rewritten' <=> r \in Rewritten)
      BY <1>x, <2>2 DEF Vouched, Ours, RowsMade
    <3>3. Repeated' = Repeated
      BY <1>1, <1>w, <3>2 DEF Repeated, TypeOK, StoreTyped, Ours, RowsMade
    <3>4. ASSUME pc \in Tail
          PROVE  Rewritten' \ late' = Rewritten \ late
      <4>1. \A r \in Ours \ late : r \in Rewritten' <=> r \in Rewritten
        <5>1. Missing = {}
          BY <2>2, MissingFacts
        <5>2. \A b \in Batches : Settled(b)
          BY <3>4, <5>1 DEF Vouched
        <5>3. \A r \in Ours : r[2] \in Batches
          BY DEF Ours, RowsMade
        <5> QED BY <1>x, <2>2, <5>2, <5>3
      <4> QED BY <1>w, <4>1 DEF Rewritten
    <3> QED BY <1>1, <1>i, <2>2, <3>1, <3>3, <3>4 DEF CountsKept, Retriable, Block, Tail
  <2> QED BY <2>1, <2>2
<1>PromotedWhole. PromotedWhole'
  BY <1>1, <1>i, <1>w, ConfigFacts DEF TypeOK, ControlTyped, PromotedWhole, Failing, RowsOf
<1>WrittenOnce. WrittenOnce'
  BY <1>1, <1>i, <1>w, ConfigFacts DEF TypeOK, ControlTyped, WrittenOnce, Failing, RowsOf
<1>NoSilentShrink. NoSilentShrink'
  BY <1>1, <1>i, <1>w, ConfigFacts DEF TypeOK, ControlTyped, NoSilentShrink, Failing, RowsOf
<1>PartialCounted. PartialCounted'
  <2>1. partial > 0 /\ "partial" \in cfg.fail => \A r \in Ours' : r[1] < attempt
    BY <1>1, <1>i DEF PartialCounted, CountsKept, Ours
  <2>2. CASE ~Staged /\ Flow.counted
    BY <1>1, <1>CountsKept, <2>1, <2>2 DEF PartialCounted, CountsKept
  <2>3. CASE Staged
    BY <1>1, <1>i, <1>w, <2>1, <2>3 DEF PartialCounted, Rewritten
  <2>4. CASE ~Flow.counted
    BY <1>1, <1>i, <2>1, <2>4 DEF PartialCounted, CountsKept, Tail
  <2> QED BY <2>2, <2>3, <2>4
<1> QED BY <1>t, <1>Known, <1>RowsMade, <1>TablesThere, <1>AbortedApart, <1>ReadSoFar,
    <1>Vouched, <1>DestinationKept, <1>SaidSinceStopped, <1>ShrinkSeen, <1>CountsKept,
    <1>PromotedWhole, <1>WrittenOnce, <1>NoSilentShrink, <1>PartialCounted

\* The read is over.
LEMMA EndReadKeeps ==
  ASSUME IInv, EndRead
  PROVE  IInv'
<1> USE Constants, NameFacts DEF IInv, StagingKnown, EndRead, Reaped, control, store, reading,
    warnings, counters, state, history, Staged, Missing, Staging, ChunkTable, Target, WriteTable
<1>1. TypeOK /\ cfg \in Configs /\ cfg' = cfg /\ Flow' = Flow
  BY DEF TypeOK, ControlTyped, Flow, DatabaseFlow, SessionFlow, ApiFlow, FrameFlow
<1>Control. ControlTyped'
  BY <1>1 DEF TypeOK, ControlTyped
<1>Store. StoreTyped'
  BY <1>1 DEF TypeOK, StoreTyped
<1>Counts. CountsTyped'
  BY <1>1 DEF TypeOK, CountsTyped, Kinds
<1>t. TypeOK'
  BY <1>Control, <1>Store, <1>Counts DEF TypeOK
<1>Known. StagingKnown'
  BY <1>1, <1>t, ConfigFacts, FlowFacts DEF TypeOK, ControlTyped, StoreTyped, ToDrop,
     StagingReclaimed, TablesThere, Tail, Block
<1>RowsMade. RowsMade'
  BY <1>1 DEF RowsMade, Old, Early
<1>TablesThere. TablesThere'
  BY <1>1 DEF TablesThere, Early, Block, Tail
<1>AbortedApart. AbortedApart'
  BY <1>1 DEF AbortedApart
<1>ReadSoFar. ReadSoFar'
  BY <1>1, ConfigFacts DEF TypeOK, ControlTyped, StoreTyped, ReadSoFar, Partly, RowsOf, Batches,
     Early, Block, Tail, Retriable, RowsMade, TablesThere
<1>Vouched. Vouched'
  BY <1>1 DEF Vouched, Settled, Ours, Tail
<1>DestinationKept. DestinationKept'
  BY <1>1 DEF DestinationKept, Old, Ours, InWindow, Block, Retriable
<1>SaidSinceStopped. SaidSinceStopped'
  BY <1>1 DEF SaidSinceStopped, Untouched, Ours, KeysOf, Retriable
<1>ShrinkSeen. ShrinkSeen'
  BY <1>1 DEF ShrinkSeen
<1>CountsKept. CountsKept'
  BY <1>1 DEF CountsKept, Landed, Repeated, Rewritten, Ours, Retriable, Block
<1>PromotedWhole. PromotedWhole'
  BY <1>1 DEF PromotedWhole, Failing, Ours, Theirs, RowsOf
<1>WrittenOnce. WrittenOnce'
  BY <1>1 DEF WrittenOnce, Ours
<1>NoSilentShrink. NoSilentShrink'
  BY <1>1 DEF NoSilentShrink, Ours
<1>PartialCounted. PartialCounted'
  BY <1>1 DEF PartialCounted, Rewritten, Ours
<1> QED BY <1>t, <1>Known, <1>RowsMade, <1>TablesThere, <1>AbortedApart, <1>ReadSoFar,
    <1>Vouched, <1>DestinationKept, <1>SaidSinceStopped, <1>ShrinkSeen, <1>CountsKept,
    <1>PromotedWhole, <1>WrittenOnce, <1>NoSilentShrink, <1>PartialCounted

\* A chunk is over.
LEMMA CheckChunkKeeps ==
  ASSUME IInv, CheckChunk
  PROVE  IInv'
<1> USE Constants, NameFacts DEF IInv, StagingKnown, CheckChunk, Reaped, Check, Stop, Proceed,
    Fatal, Suspect, control, store, reading, warnings, counters, state, history, Staged, Missing,
    Staging, ChunkTable, Target, WriteTable
<1>1. TypeOK /\ cfg \in Configs /\ cfg' = cfg /\ Flow' = Flow
  BY DEF TypeOK, ControlTyped, Flow, DatabaseFlow, SessionFlow, ApiFlow, FrameFlow
<1>Control. ControlTyped'
  BY <1>1, ConfigFacts, FlowFacts DEF TypeOK, ControlTyped, StoreTyped, TablesThere, ReadSoFar
<1>Store. StoreTyped'
  BY <1>1 DEF TypeOK, StoreTyped
<1>Counts. CountsTyped'
  BY <1>1 DEF TypeOK, CountsTyped, Kinds
<1>t. TypeOK'
  BY <1>Control, <1>Store, <1>Counts DEF TypeOK
<1>Known. StagingKnown'
  BY <1>1, <1>t, ConfigFacts, FlowFacts DEF TypeOK, ControlTyped, StoreTyped, ToDrop,
     StagingReclaimed, TablesThere, Tail, Block
<1>RowsMade. RowsMade'
  BY <1>1 DEF RowsMade, Old, Early
<1>TablesThere. TablesThere'
  BY <1>1 DEF TablesThere, Early, Block, Tail
<1>AbortedApart. AbortedApart'
  BY <1>1 DEF AbortedApart
<1>ReadSoFar. ReadSoFar'
  BY <1>1 DEF ReadSoFar, Partly, RowsOf, Retriable, Early, Block, Tail
<1>Vouched. Vouched'
  BY <1>1 DEF Vouched, Settled, Ours, Tail
<1>DestinationKept. DestinationKept'
  BY <1>1 DEF DestinationKept, Old, Ours, InWindow, Block, Retriable
<1>SaidSinceStopped. SaidSinceStopped'
  BY <1>1, ConfigFacts DEF TypeOK, ControlTyped, StoreTyped, SaidSinceStopped, Untouched, Ours,
     KeysOf, Batches, Retriable, DestinationKept, ReadSoFar, AbortedApart, TablesThere
<1>ShrinkSeen. ShrinkSeen'
  BY <1>1 DEF ShrinkSeen
<1>CountsKept. CountsKept'
  BY <1>1 DEF CountsKept, Landed, Repeated, Rewritten, Ours, Retriable, Block
<1>PromotedWhole. PromotedWhole'
  BY <1>1 DEF PromotedWhole, Failing, Ours, Theirs, RowsOf
<1>WrittenOnce. WrittenOnce'
  BY <1>1 DEF WrittenOnce, Ours
<1>NoSilentShrink. NoSilentShrink'
  BY <1>1 DEF NoSilentShrink, Ours
<1>PartialCounted. PartialCounted'
  BY <1>1 DEF PartialCounted, Rewritten, Ours
<1> QED BY <1>t, <1>Known, <1>RowsMade, <1>TablesThere, <1>AbortedApart, <1>ReadSoFar,
    <1>Vouched, <1>DestinationKept, <1>SaidSinceStopped, <1>ShrinkSeen, <1>CountsKept,
    <1>PromotedWhole, <1>WrittenOnce, <1>NoSilentShrink, <1>PartialCounted

\* A chunk is committed.
LEMMA CommitChunkKeeps ==
  ASSUME IInv, CommitChunk
  PROVE  IInv'
<1> USE Constants, NameFacts DEF IInv, StagingKnown, CommitChunk, Warned, Promoted, Replaced,
    Stale, KeysOf, InWindow, control, store, reading, warnings, counters, state, history,
    Staged, Missing, Staging, ChunkTable, Target, WriteTable
<1>1. TypeOK /\ cfg \in Configs /\ cfg' = cfg /\ Flow' = Flow
  BY DEF TypeOK, ControlTyped, Flow, DatabaseFlow, SessionFlow, ApiFlow, FrameFlow
<1>o. /\ pc = "commit" /\ cfg.chunked /\ marker = at /\ inflight = {}
      /\ open = (IF Staged THEN ChunkTable ELSE NoName) /\ Dest # open
      /\ Staged => rows[open] \subseteq {<<attempt, at + 1>>} /\ open \in Names
      /\ ~Staged => rows'[Dest] = rows[Dest]
  BY <1>1 DEF TypeOK, ControlTyped, StoreTyped, ReadSoFar, TablesThere
<1>i. /\ Staged => landed = 0 /\ IsFiniteSet(rows[open]) /\ Cardinality(rows[open]) \in 0..1
      /\ Staged /\ at = N => rows[open] = {} /\ Cardinality(rows[open]) = 0
  <2>1. Staged => landed = 0
    BY <1>o DEF CountsKept, Block
  <2>2. Staged => IsFiniteSet(rows[open]) /\ Cardinality(rows[open]) \in 0..1
    <3>1. IsFiniteSet({<<attempt, at + 1>>}) /\ Cardinality({<<attempt, at + 1>>}) = 1
      BY FS_Singleton
    <3>2. Staged => IsFiniteSet(rows[open]) /\ Cardinality(rows[open]) <= 1
      BY <1>o, <3>1, FS_Subset
    <3> QED BY <3>2, FS_CardinalityType
  <2>3. Staged /\ at = N => rows[open] = {}
    BY <1>1, <1>o DEF RowsMade, Batches, TypeOK, ControlTyped
  <2> QED BY <2>1, <2>2, <2>3, FS_EmptySet
<1>Control. ControlTyped'
  BY <1>1 DEF TypeOK, ControlTyped
<1>Store. StoreTyped'
  BY <1>1, ConfigFacts DEF TypeOK, ControlTyped, StoreTyped, Batches, TablesThere, ReadSoFar,
     Early, Block, Tail
<1>Counts. CountsTyped'
  <2>1. landed' \in 0..N
    BY <1>1, <1>i, ConfigFacts DEF TypeOK, CountsTyped
  <2> QED BY <1>1, <2>1 DEF TypeOK, CountsTyped, Kinds
<1>t. TypeOK'
  BY <1>Control, <1>Store, <1>Counts DEF TypeOK
<1>Known. StagingKnown'
  BY <1>1, <1>t, ConfigFacts, FlowFacts DEF TypeOK, ControlTyped, StoreTyped, ToDrop,
     StagingReclaimed, TablesThere, Tail, Block
<1>RowsMade. RowsMade'
  BY <1>1, ConfigFacts DEF TypeOK, ControlTyped, StoreTyped, RowsMade, Old, Batches, Early,
     ReadSoFar, TablesThere
<1>TablesThere. TablesThere'
  BY <1>1 DEF TablesThere, Early, Block, Tail, TypeOK, ControlTyped, StoreTyped
<1>AbortedApart. AbortedApart'
  BY <1>1, ConfigFacts DEF AbortedApart, TypeOK, ControlTyped, ReadSoFar, TablesThere
<1>ReadSoFar. ReadSoFar'
  BY <1>1, ConfigFacts DEF TypeOK, ControlTyped, StoreTyped, ReadSoFar, Partly, RowsOf, Batches,
     Early, Block, Tail, Retriable, RowsMade, TablesThere
<1>Vouched. Vouched'
  <2> SUFFICES ASSUME NEW b \in Batches, b <= at
               PROVE  Settled(b)'
    BY <1>1, <1>o DEF Vouched, ReadSoFar, Block, Tail
  <2>1. Settled(b) /\ b # at + 1
    BY <1>1, <1>o DEF Vouched, TypeOK, StoreTyped, Batches
  <2>2. \A r : r[2] = b => (r \in rows'[Dest] <=> r \in rows[Dest])
    <3>1. CASE Staged
      <4>1. rows'[Dest] = Promoted(open)
        BY <1>1, <1>o, <3>1 DEF TypeOK, ControlTyped
      <4>2. \A r \in Replaced(open) \cup rows[open] : r[2] = at + 1
        BY <1>o, <3>1
      <4> QED BY <1>o, <2>1, <3>1, <4>1, <4>2, <1>1, ConfigFacts
    <3>2. CASE ~Staged
      BY <1>o, <3>2
    <3> QED BY <3>1, <3>2
  <2> QED BY <1>1, <2>1, <2>2, SettledStays DEF Ours
<1>DestinationKept. DestinationKept'
  BY <1>1, ConfigFacts DEF TypeOK, ControlTyped, StoreTyped, DestinationKept, Old, Ours,
     InWindow, Batches, Block, Retriable, ReadSoFar, RowsMade, TablesThere, AbortedApart
<1>SaidSinceStopped. SaidSinceStopped'
  BY <1>1 DEF SaidSinceStopped, Untouched, Ours, KeysOf, Retriable
<1>ShrinkSeen. ShrinkSeen'
  BY <1>1 DEF ShrinkSeen
<1>CountsKept. CountsKept'
  <2>1. CASE Staged \/ ~Flow.counted
    BY <1>1, <1>o, <1>i, <2>1, ConfigFacts, FlowFacts DEF CountsKept, Retriable, Block, TypeOK,
       ControlTyped, StoreTyped
  <2>2. CASE ~Staged /\ Flow.counted
    <3>1. Landed' = Landed /\ Repeated' = Repeated
      BY <1>1, <1>o, <2>2 DEF Landed, Repeated, Rewritten, Ours
    <3> QED BY <1>1, <1>o, <2>2, <3>1, ConfigFacts DEF CountsKept, Retriable, Block
  <2> QED BY <2>1, <2>2
<1>PromotedWhole. PromotedWhole'
  BY <1>1 DEF PromotedWhole, Failing, Ours, Theirs, RowsOf, TypeOK, ControlTyped, StoreTyped,
     ReadSoFar, Block, Tail
<1>WrittenOnce. WrittenOnce'
  BY <1>1, ConfigFacts DEF TypeOK, ControlTyped, StoreTyped, WrittenOnce, Ours, DestinationKept,
     ReadSoFar
<1>NoSilentShrink. NoSilentShrink'
  BY <1>1, ConfigFacts DEF NoSilentShrink, Ours, TypeOK, ControlTyped, ReadSoFar, TablesThere
<1>PartialCounted. PartialCounted'
  BY <1>1, ConfigFacts DEF TypeOK, ControlTyped, StoreTyped, PartialCounted, Rewritten, Ours,
     CountsKept, ReadSoFar, RowsMade
<1> QED BY <1>t, <1>Known, <1>RowsMade, <1>TablesThere, <1>AbortedApart, <1>ReadSoFar,
    <1>Vouched, <1>DestinationKept, <1>SaidSinceStopped, <1>ShrinkSeen, <1>CountsKept,
    <1>PromotedWhole, <1>WrittenOnce, <1>NoSilentShrink, <1>PartialCounted

\* A chunk's commit fails.
LEMMA CommitFailsKeeps ==
  ASSUME IInv, CommitFails
  PROVE  IInv'
<1> USE Constants, NameFacts DEF IInv, StagingKnown, CommitFails, HalfPromoted, Break, Fault,
    Promoted, Replaced, Stale, KeysOf, InWindow, control, store, reading, warnings, counters,
    state, history, Staged, Missing, Staging, ChunkTable, Target, WriteTable
<1>1. TypeOK /\ cfg \in Configs /\ cfg' = cfg /\ Flow' = Flow
  BY DEF TypeOK, ControlTyped, Flow, DatabaseFlow, SessionFlow, ApiFlow, FrameFlow
<1>Control. ControlTyped'
  <2>1. retry' \in BOOLEAN
    BY <1>1 DEF TypeOK, ControlTyped
  <2>2. faults' \in 0..MaxFaults
    BY <1>1 DEF TypeOK, ControlTyped
  <2> QED BY <1>1, <2>1, <2>2 DEF TypeOK, ControlTyped
<1>Store. StoreTyped'
  BY <1>1, ConfigFacts DEF TypeOK, ControlTyped, StoreTyped, Batches, TablesThere, ReadSoFar,
     Early, Block, Tail
<1>Counts. CountsTyped'
  BY <1>1 DEF TypeOK, CountsTyped, Kinds
<1>t. TypeOK'
  BY <1>Control, <1>Store, <1>Counts DEF TypeOK
<1>Known. StagingKnown'
  BY <1>1, <1>t, ConfigFacts, FlowFacts DEF TypeOK, ControlTyped, StoreTyped, ToDrop,
     StagingReclaimed, TablesThere, Tail, Block
<1>RowsMade. RowsMade'
  BY <1>1, ConfigFacts DEF TypeOK, ControlTyped, StoreTyped, RowsMade, Old, Batches, Early,
     ReadSoFar, TablesThere
<1>TablesThere. TablesThere'
  BY <1>1 DEF TablesThere, Early, Block, Tail
<1>AbortedApart. AbortedApart'
  BY <1>1 DEF AbortedApart, TypeOK, ControlTyped, StoreTyped
<1>ReadSoFar. ReadSoFar'
  BY <1>1 DEF ReadSoFar, Partly, RowsOf, Retriable, Early, Block, Tail
<1>Vouched. Vouched'
  BY <1>1, ConfigFacts DEF TypeOK, ControlTyped, StoreTyped, Vouched, Settled, Ours, Tail,
     Batches, ReadSoFar, RowsMade, AbortedApart, Early, Block, Retriable
<1>DestinationKept. DestinationKept'
  BY <1>1 DEF DestinationKept, Old, Ours, InWindow, Block, Retriable
<1>SaidSinceStopped. SaidSinceStopped'
  BY <1>1 DEF SaidSinceStopped, Untouched, Ours, KeysOf, Retriable
<1>ShrinkSeen. ShrinkSeen'
  BY <1>1 DEF ShrinkSeen
<1>CountsKept. CountsKept'
  BY <1>1 DEF CountsKept, Landed, Repeated, Rewritten, Ours, Retriable, Block
<1>PromotedWhole. PromotedWhole'
  BY <1>1 DEF PromotedWhole, Failing, Ours, Theirs, RowsOf, TypeOK, ControlTyped, StoreTyped,
     ReadSoFar, Block, Tail
<1>WrittenOnce. WrittenOnce'
  BY <1>1, ConfigFacts DEF TypeOK, ControlTyped, StoreTyped, WrittenOnce, Ours, DestinationKept,
     ReadSoFar
<1>NoSilentShrink. NoSilentShrink'
  BY <1>1, ConfigFacts DEF NoSilentShrink, Ours, TypeOK, ControlTyped, ReadSoFar, TablesThere
<1>PartialCounted. PartialCounted'
  BY <1>1, ConfigFacts DEF TypeOK, ControlTyped, StoreTyped, PartialCounted, Rewritten, Ours,
     CountsKept, ReadSoFar, RowsMade
<1> QED BY <1>t, <1>Known, <1>RowsMade, <1>TablesThere, <1>AbortedApart, <1>ReadSoFar,
    <1>Vouched, <1>DestinationKept, <1>SaidSinceStopped, <1>ShrinkSeen, <1>CountsKept,
    <1>PromotedWhole, <1>WrittenOnce, <1>NoSilentShrink, <1>PartialCounted

\* A chunk is marked.
LEMMA MarkKeeps ==
  ASSUME IInv, Mark
  PROVE  IInv'
<1> USE Constants, NameFacts DEF IInv, StagingKnown, Mark, CountAfterMark, control, store,
    reading, warnings, counters, state, history, Staged, Missing, Staging, ChunkTable,
    Target, WriteTable
<1>1. TypeOK /\ cfg \in Configs /\ cfg' = cfg /\ Flow' = Flow
  BY DEF TypeOK, ControlTyped, Flow, DatabaseFlow, SessionFlow, ApiFlow, FrameFlow
<1>Control. ControlTyped'
  BY <1>1 DEF TypeOK, ControlTyped
<1>Store. StoreTyped'
  BY <1>1 DEF TypeOK, StoreTyped, ControlTyped, ReadSoFar, Block, Tail
<1>Counts. CountsTyped'
  BY <1>1 DEF TypeOK, CountsTyped, Kinds
<1>t. TypeOK'
  BY <1>Control, <1>Store, <1>Counts DEF TypeOK
<1>Known. StagingKnown'
  BY <1>1, <1>t, ConfigFacts, FlowFacts DEF TypeOK, ControlTyped, StoreTyped, ToDrop,
     StagingReclaimed, TablesThere, Tail, Block
<1>RowsMade. RowsMade'
  BY <1>1 DEF RowsMade, Old, Early
<1>TablesThere. TablesThere'
  BY <1>1 DEF TablesThere, Early, Block, Tail
<1>AbortedApart. AbortedApart'
  BY <1>1 DEF AbortedApart
<1>ReadSoFar. ReadSoFar'
  BY <1>1 DEF ReadSoFar, Partly, RowsOf, Retriable, Early, Block, Tail, TypeOK, ControlTyped,
     StoreTyped
<1>Vouched. Vouched'
  BY <1>1, ConfigFacts DEF TypeOK, ControlTyped, StoreTyped, Vouched, Settled, Ours, Tail,
     Batches, ReadSoFar, RowsMade, AbortedApart, Early, Block, Retriable
<1>DestinationKept. DestinationKept'
  BY <1>1 DEF DestinationKept, Old, Ours, InWindow, Block, Retriable, TypeOK, ControlTyped,
     StoreTyped, ReadSoFar, Tail
<1>SaidSinceStopped. SaidSinceStopped'
  BY <1>1 DEF SaidSinceStopped, Untouched, Ours, KeysOf, Retriable
<1>ShrinkSeen. ShrinkSeen'
  BY <1>1 DEF ShrinkSeen
<1>CountsKept. CountsKept'
  <2>1. /\ pc = "mark" /\ marker = at /\ at < N
        /\ <<attempt, at + 1>> \in Ours /\ \A r \in Ours : r[1] = attempt => r[2] <= at + 1
    BY <1>1 DEF TypeOK, ControlTyped, ReadSoFar, Ours, RowsMade
  <2>2. CASE Staged \/ ~Flow.counted
    BY <1>1, <2>1, <2>2 DEF CountsKept, Retriable, Block
  <2>3. CASE ~Staged /\ Flow.counted
    <3>1. Ours' = Ours /\ Rewritten' = Rewritten
      BY <1>1 DEF Ours, Rewritten
    <3>2. \A r \in Ours : r[1] \in Nat /\ r[2] \in Nat
      BY DEF Ours, RowsMade
    <3>3. Landed' = {}
      BY <1>1, <2>1, <3>1, <3>2 DEF Landed, TypeOK, StoreTyped
    <3>4. \A r \in Ours : r[2] = at + 1 /\ r[1] < attempt => r \in Rewritten
      BY <2>1 DEF Rewritten
    <3>5. Repeated' = Repeated
      BY <1>1, <2>1, <3>1, <3>2, <3>4 DEF Repeated, TypeOK, StoreTyped
    <3> QED BY <1>1, <2>1, <2>3, <3>3, <3>5, FS_EmptySet DEF CountsKept, Retriable, Block
  <2> QED BY <2>2, <2>3
<1>PromotedWhole. PromotedWhole'
  BY <1>1 DEF PromotedWhole, Failing, Ours, Theirs, RowsOf
<1>WrittenOnce. WrittenOnce'
  BY <1>1 DEF WrittenOnce, Ours
<1>NoSilentShrink. NoSilentShrink'
  BY <1>1 DEF NoSilentShrink, Ours
<1>PartialCounted. PartialCounted'
  BY <1>1 DEF PartialCounted, Rewritten, Ours
<1> QED BY <1>t, <1>Known, <1>RowsMade, <1>TablesThere, <1>AbortedApart, <1>ReadSoFar,
    <1>Vouched, <1>DestinationKept, <1>SaidSinceStopped, <1>ShrinkSeen, <1>CountsKept,
    <1>PromotedWhole, <1>WrittenOnce, <1>NoSilentShrink, <1>PartialCounted

\* A chunk's mark may have been saved.
LEMMA MarkFailsKeeps ==
  ASSUME IInv, MarkFails
  PROVE  IInv'
<1> USE Constants, NameFacts DEF IInv, StagingKnown, MarkFails, Break, Fault, control, store,
    reading, warnings, counters, state, history, Staged, Missing, Staging, ChunkTable,
    Target, WriteTable
<1>1. TypeOK /\ cfg \in Configs /\ cfg' = cfg /\ Flow' = Flow
  BY DEF TypeOK, ControlTyped, Flow, DatabaseFlow, SessionFlow, ApiFlow, FrameFlow
<1>Control. ControlTyped'
  <2>1. retry' \in BOOLEAN
    BY <1>1 DEF TypeOK, ControlTyped
  <2>2. faults' \in 0..MaxFaults
    BY <1>1 DEF TypeOK, ControlTyped
  <2> QED BY <1>1, <2>1, <2>2 DEF TypeOK, ControlTyped
<1>Store. StoreTyped'
  BY <1>1 DEF TypeOK, StoreTyped, ControlTyped, ReadSoFar, Block, Tail
<1>Counts. CountsTyped'
  BY <1>1 DEF TypeOK, CountsTyped, Kinds
<1>t. TypeOK'
  BY <1>Control, <1>Store, <1>Counts DEF TypeOK
<1>Known. StagingKnown'
  BY <1>1, <1>t, ConfigFacts, FlowFacts DEF TypeOK, ControlTyped, StoreTyped, ToDrop,
     StagingReclaimed, TablesThere, Tail, Block
<1>RowsMade. RowsMade'
  BY <1>1 DEF RowsMade, Old, Early
<1>TablesThere. TablesThere'
  BY <1>1 DEF TablesThere, Early, Block, Tail
<1>AbortedApart. AbortedApart'
  BY <1>1 DEF AbortedApart, TypeOK, ControlTyped, StoreTyped
<1>ReadSoFar. ReadSoFar'
  BY <1>1 DEF ReadSoFar, Partly, RowsOf, Retriable, Early, Block, Tail
<1>Vouched. Vouched'
  <2>1. /\ pc = "mark" /\ inflight = {} /\ at + 1 \in Batches
        /\ <<attempt, at + 1>> \in rows[Dest] /\ marker = at /\ ~saved
    BY <1>1 DEF TypeOK, StoreTyped, ReadSoFar, Batches, Block
  <2>2. aborted' = aborted
    BY <2>1
  <2>3. \A b \in Batches : Settled(b) => Settled(b)'
    BY <2>2, SettledStays DEF Ours
  <2>4. Settled(at + 1)
    BY <2>1, SettledNow
  <2>5. \A b \in Batches : b <= at + 1 => Settled(b)
    BY <1>1, <2>1, <2>4 DEF Vouched, Batches, TypeOK, StoreTyped
  <2> QED BY <1>1, <2>1, <2>3, <2>5 DEF Vouched, Tail, Batches, TypeOK, StoreTyped
<1>DestinationKept. DestinationKept'
  BY <1>1 DEF DestinationKept, Old, Ours, InWindow, Block, Retriable
<1>SaidSinceStopped. SaidSinceStopped'
  BY <1>1 DEF SaidSinceStopped, Untouched, Ours, KeysOf, Retriable
<1>ShrinkSeen. ShrinkSeen'
  BY <1>1 DEF ShrinkSeen
<1>CountsKept. CountsKept'
  BY <1>1 DEF CountsKept, Landed, Repeated, Rewritten, Ours, Retriable, Block
<1>PromotedWhole. PromotedWhole'
  BY <1>1 DEF PromotedWhole, Failing, Ours, Theirs, RowsOf
<1>WrittenOnce. WrittenOnce'
  BY <1>1 DEF WrittenOnce, Ours
<1>NoSilentShrink. NoSilentShrink'
  BY <1>1 DEF NoSilentShrink, Ours
<1>PartialCounted. PartialCounted'
  BY <1>1 DEF PartialCounted, Rewritten, Ours
<1> QED BY <1>t, <1>Known, <1>RowsMade, <1>TablesThere, <1>AbortedApart, <1>ReadSoFar,
    <1>Vouched, <1>DestinationKept, <1>SaidSinceStopped, <1>ShrinkSeen, <1>CountsKept,
    <1>PromotedWhole, <1>WrittenOnce, <1>NoSilentShrink, <1>PartialCounted

\* There is nothing left to promote.
LEMMA NothingStagedKeeps ==
  ASSUME IInv, NothingStaged
  PROVE  IInv'
<1> USE Constants, NameFacts DEF IInv, StagingKnown, NothingStaged, AfterTables, control, store,
    reading, warnings, counters, state, history, Staged, Missing, Staging, ChunkTable,
    Target, WriteTable
<1>1. TypeOK /\ cfg \in Configs /\ cfg' = cfg /\ Flow' = Flow
  BY DEF TypeOK, ControlTyped, Flow, DatabaseFlow, SessionFlow, ApiFlow, FrameFlow
<1>Control. ControlTyped'
  BY <1>1 DEF TypeOK, ControlTyped
<1>Store. StoreTyped'
  BY <1>1 DEF TypeOK, StoreTyped
<1>Counts. CountsTyped'
  BY <1>1 DEF TypeOK, CountsTyped, Kinds
<1>t. TypeOK'
  BY <1>Control, <1>Store, <1>Counts DEF TypeOK
<1>Known. StagingKnown'
  BY <1>1, <1>t, ConfigFacts, FlowFacts DEF TypeOK, ControlTyped, StoreTyped, ToDrop,
     StagingReclaimed, TablesThere, Tail, Block
<1>RowsMade. RowsMade'
  BY <1>1 DEF RowsMade, Old, Early
<1>TablesThere. TablesThere'
  BY <1>1 DEF TablesThere, Early, Block, Tail
<1>AbortedApart. AbortedApart'
  BY <1>1 DEF AbortedApart
<1>ReadSoFar. ReadSoFar'
  <2>1. pc' \in {"drop"} \cup Tail /\ ~cfg.chunked =>
          \A b \in Batches \ Missing : <<attempt, b>> \in rows[Dest]
    BY <1>1, ConfigFacts DEF TypeOK, ControlTyped, ReadSoFar
  <2>5. pc' # "ok" \/ Missing = {}
    BY <1>1, MissingFacts DEF ReadSoFar
  <2>2. /\ pc = "approve" /\ ~saved /\ at = N /\ (cfg.chunked => marker = N)
        /\ pc' \in {"drop"} \cup Tail /\ (pc' = "drop" => Staged)
        /\ pc' = "cursor" => Flow.cursor
        /\ pc' = "done" => Flow.last /\ ~Flow.cursor
    BY <1>1 DEF ReadSoFar, Block, Tail
  <2>3. saved' = FALSE
    BY <2>2 DEF TypeOK, StoreTyped
  <2>4. pc' = "done" => Flow.cursor = FALSE
    BY <2>2, FlowFacts DEF TypeOK, ControlTyped
  <2>6. Missing' = Missing
    OBVIOUS
  <2> HIDE DEF Missing
  <2> QED BY <1>1, <2>1, <2>2, <2>3, <2>4, <2>5, <2>6
      DEF ReadSoFar, Early, Block, Tail, Retriable, RowsOf
<1>Vouched. Vouched'
  <2>1. ASSUME NEW b \in Batches \ Missing, pc' \in Tail
        PROVE  Settled(b)
    <3>1. CASE cfg.chunked
      BY <3>1 DEF ReadSoFar, Vouched, Batches
    <3>2. CASE ~cfg.chunked
      <4>1. <<attempt, b>> \in rows[Dest]
        BY <1>1, <1>ReadSoFar, <2>1, <3>2 DEF ReadSoFar, Tail
      <4> QED BY <4>1, SettledNow
    <3> QED BY <3>1, <3>2
  <2>2. \A b \in Batches : Settled(b) => Settled(b)'
    BY SettledStays DEF Ours
  <2>3. Missing' = Missing /\ marker' = marker /\ ~saved'
    BY <1>1 DEF ReadSoFar, Block, TypeOK, StoreTyped
  <2> HIDE DEF Missing
  <2> QED BY <1>1, <2>1, <2>2, <2>3 DEF Vouched, Tail
<1>DestinationKept. DestinationKept'
  BY <1>1 DEF DestinationKept, Old, Ours, InWindow, Block, Retriable
<1>SaidSinceStopped. SaidSinceStopped'
  BY <1>1 DEF SaidSinceStopped, Untouched, Ours, KeysOf, Retriable
<1>ShrinkSeen. ShrinkSeen'
  BY <1>1 DEF ShrinkSeen
<1>CountsKept. CountsKept'
  BY <1>1, <1>t, ConfigFacts, FlowFacts DEF TypeOK, ControlTyped, StoreTyped, CountsKept,
     Landed, Repeated, Rewritten, Ours, Retriable, Block, ReadSoFar, AbortedApart, RowsMade
<1>PromotedWhole. PromotedWhole'
  BY <1>1 DEF PromotedWhole, Failing, Ours, Theirs, RowsOf
<1>WrittenOnce. WrittenOnce'
  BY <1>1 DEF WrittenOnce, Ours
<1>NoSilentShrink. NoSilentShrink'
  BY <1>1 DEF NoSilentShrink, Ours
<1>PartialCounted. PartialCounted'
  BY <1>1, <1>t, ConfigFacts, FlowFacts DEF TypeOK, ControlTyped, StoreTyped, PartialCounted,
     Rewritten, Ours, CountsKept, ReadSoFar, RowsMade
<1> QED BY <1>t, <1>Known, <1>RowsMade, <1>TablesThere, <1>AbortedApart, <1>ReadSoFar,
    <1>Vouched, <1>DestinationKept, <1>SaidSinceStopped, <1>ShrinkSeen, <1>CountsKept,
    <1>PromotedWhole, <1>WrittenOnce, <1>NoSilentShrink, <1>PartialCounted

\* What is staged is refused.
LEMMA VetoKeeps ==
  ASSUME IInv, Veto
  PROVE  IInv'
<1> USE Constants, NameFacts DEF IInv, StagingKnown, Veto, Break, control, store, reading,
    warnings, counters, state, history, Staged, Missing, Staging, ChunkTable, Target, WriteTable
<1>1. TypeOK /\ cfg \in Configs /\ cfg' = cfg /\ Flow' = Flow
  BY DEF TypeOK, ControlTyped, Flow, DatabaseFlow, SessionFlow, ApiFlow, FrameFlow
<1>Control. ControlTyped'
  BY <1>1, ConfigFacts, FlowFacts DEF TypeOK, ControlTyped, StoreTyped, TablesThere, ReadSoFar
<1>Store. StoreTyped'
  BY <1>1 DEF TypeOK, StoreTyped
<1>Counts. CountsTyped'
  BY <1>1 DEF TypeOK, CountsTyped, Kinds
<1>t. TypeOK'
  BY <1>Control, <1>Store, <1>Counts DEF TypeOK
<1>Known. StagingKnown'
  BY <1>1, <1>t, ConfigFacts, FlowFacts DEF TypeOK, ControlTyped, StoreTyped, ToDrop,
     StagingReclaimed, TablesThere, Tail, Block
<1>RowsMade. RowsMade'
  BY <1>1 DEF RowsMade, Old, Early
<1>TablesThere. TablesThere'
  BY <1>1 DEF TablesThere, Early, Block, Tail
<1>AbortedApart. AbortedApart'
  BY <1>1 DEF AbortedApart, TypeOK, ControlTyped, StoreTyped
<1>ReadSoFar. ReadSoFar'
  BY <1>1 DEF ReadSoFar, Partly, RowsOf, Retriable, Early, Block, Tail
<1>Vouched. Vouched'
  BY <1>1 DEF Vouched, Settled, Ours, Tail, TypeOK, ControlTyped, StoreTyped
<1>DestinationKept. DestinationKept'
  BY <1>1 DEF DestinationKept, Old, Ours, InWindow, Block, Retriable
<1>SaidSinceStopped. SaidSinceStopped'
  BY <1>1 DEF SaidSinceStopped, Untouched, Ours, KeysOf, Retriable
<1>ShrinkSeen. ShrinkSeen'
  BY <1>1 DEF ShrinkSeen
<1>CountsKept. CountsKept'
  BY <1>1 DEF CountsKept, Landed, Repeated, Rewritten, Ours, Retriable, Block
<1>PromotedWhole. PromotedWhole'
  BY <1>1 DEF PromotedWhole, Failing, Ours, Theirs, RowsOf
<1>WrittenOnce. WrittenOnce'
  BY <1>1 DEF WrittenOnce, Ours
<1>NoSilentShrink. NoSilentShrink'
  BY <1>1 DEF NoSilentShrink, Ours
<1>PartialCounted. PartialCounted'
  BY <1>1 DEF PartialCounted, Rewritten, Ours
<1> QED BY <1>t, <1>Known, <1>RowsMade, <1>TablesThere, <1>AbortedApart, <1>ReadSoFar,
    <1>Vouched, <1>DestinationKept, <1>SaidSinceStopped, <1>ShrinkSeen, <1>CountsKept,
    <1>PromotedWhole, <1>WrittenOnce, <1>NoSilentShrink, <1>PartialCounted

\* A swap is approved, or refused.
LEMMA ApproveSwapKeeps ==
  ASSUME IInv, ApproveSwap
  PROVE  IInv'
<1> USE Constants, NameFacts DEF IInv, StagingKnown, ApproveSwap, SeenAtSwap, ShrinkWarning,
    BeforePromotion, Break, Check, Stop, Proceed, Fatal, Suspect, control, store, reading,
    warnings, counters, state, history, Staged, Missing, Staging, ChunkTable, Target, WriteTable
<1>1. TypeOK /\ cfg \in Configs /\ cfg' = cfg /\ Flow' = Flow
  BY DEF TypeOK, ControlTyped, Flow, DatabaseFlow, SessionFlow, ApiFlow, FrameFlow
<1>Control. ControlTyped'
  BY <1>1, ConfigFacts, FlowFacts DEF TypeOK, ControlTyped, StoreTyped, TablesThere, ReadSoFar
<1>Store. StoreTyped'
  BY <1>1 DEF TypeOK, StoreTyped
<1>Counts. CountsTyped'
  BY <1>1 DEF TypeOK, CountsTyped, Kinds
<1>t. TypeOK'
  BY <1>Control, <1>Store, <1>Counts DEF TypeOK
<1>Known. StagingKnown'
  BY <1>1, <1>t, ConfigFacts, FlowFacts DEF TypeOK, ControlTyped, StoreTyped, ToDrop,
     StagingReclaimed, TablesThere, Tail, Block
<1>RowsMade. RowsMade'
  BY <1>1 DEF RowsMade, Old, Early
<1>TablesThere. TablesThere'
  BY <1>1 DEF TablesThere, Early, Block, Tail
<1>AbortedApart. AbortedApart'
  BY <1>1 DEF AbortedApart, TypeOK, ControlTyped, StoreTyped
<1>ReadSoFar. ReadSoFar'
  BY <1>1, ConfigFacts DEF ReadSoFar, Partly, RowsOf, Retriable, Early, Block, Tail, TypeOK,
     ControlTyped, TablesThere
<1>Vouched. Vouched'
  BY <1>1 DEF Vouched, Settled, Ours, Tail, TypeOK, ControlTyped, StoreTyped
<1>DestinationKept. DestinationKept'
  BY <1>1, ConfigFacts DEF DestinationKept, Old, Ours, InWindow, Block, Retriable, TypeOK,
     ControlTyped, ReadSoFar, TablesThere
<1>SaidSinceStopped. SaidSinceStopped'
  <2>1. pc = "approve" /\ Staged /\ ~cfg.chunked
    BY <1>1, ConfigFacts DEF TypeOK, ControlTyped
  <2>2. /\ Dest \in tables /\ stopped = "none" /\ ~saved
        /\ created => rows[Dest] = {}
        /\ ~created => Untouched
    BY <2>1, KeptUntilApproved
  <2>3. Untouched' <=> Untouched
    BY DEF Untouched
  <2>4. \/ stopped' = "none"
        \/ /\ pc' = "cleanup" /\ retry' = FALSE
           /\ stopped' \in IF created THEN {"SwapIntoNew", "MergeIntoNew", "AppendIntoNew"}
                           ELSE {"Swap", "Merge", "Append"}
    BY <1>1, <2>1, <2>2
  <2> QED BY <1>1, <2>1, <2>2, <2>3, <2>4 DEF SaidSinceStopped, Retriable
<1>ShrinkSeen. ShrinkSeen'
  <2>1. pc = "approve" /\ Staged /\ ~cfg.chunked
    BY <1>1, ConfigFacts DEF TypeOK, ControlTyped
  <2>2. Cardinality(rows[Dest]) = Cardinality(cfg.old)
    BY <1>1, <2>1, KeptUntilApproved, OldAsMany, ConfigFacts
  <2> QED BY <1>1, <2>2 DEF ShrinkSeen, Shrinks
<1>CountsKept. CountsKept'
  BY <1>1 DEF CountsKept, Landed, Repeated, Rewritten, Ours, Retriable, Block
<1>PromotedWhole. PromotedWhole'
  BY <1>1 DEF PromotedWhole, Failing, Ours, Theirs, RowsOf
<1>WrittenOnce. WrittenOnce'
  BY <1>1 DEF WrittenOnce, Ours
<1>NoSilentShrink. NoSilentShrink'
  BY <1>1 DEF NoSilentShrink, Ours
<1>PartialCounted. PartialCounted'
  BY <1>1 DEF PartialCounted, Rewritten, Ours
<1> QED BY <1>t, <1>Known, <1>RowsMade, <1>TablesThere, <1>AbortedApart, <1>ReadSoFar,
    <1>Vouched, <1>DestinationKept, <1>SaidSinceStopped, <1>ShrinkSeen, <1>CountsKept,
    <1>PromotedWhole, <1>WrittenOnce, <1>NoSilentShrink, <1>PartialCounted

\* A swap is approved uncounted.
LEMMA ApproveUncountedKeeps ==
  ASSUME IInv, ApproveUncounted
  PROVE  IInv'
<1> USE Constants, NameFacts DEF IInv, StagingKnown, ApproveUncounted, BeforePromotion, Fault,
    Check, Stop, Proceed, Fatal, Suspect, control, store, reading, warnings, counters, state,
    history, Staged, Missing, Staging, ChunkTable, Target, WriteTable
<1>1. TypeOK /\ cfg \in Configs /\ cfg' = cfg /\ Flow' = Flow
  BY DEF TypeOK, ControlTyped, Flow, DatabaseFlow, SessionFlow, ApiFlow, FrameFlow
<1>Control. ControlTyped'
  <2>1. retry' \in BOOLEAN
    BY <1>1 DEF TypeOK, ControlTyped
  <2>2. faults' \in 0..MaxFaults
    BY <1>1 DEF TypeOK, ControlTyped
  <2> QED BY <1>1, <2>1, <2>2 DEF TypeOK, ControlTyped
<1>Store. StoreTyped'
  BY <1>1 DEF TypeOK, StoreTyped
<1>Counts. CountsTyped'
  BY <1>1 DEF TypeOK, CountsTyped, Kinds
<1>t. TypeOK'
  BY <1>Control, <1>Store, <1>Counts DEF TypeOK
<1>Known. StagingKnown'
  BY <1>1, <1>t, ConfigFacts, FlowFacts DEF TypeOK, ControlTyped, StoreTyped, ToDrop,
     StagingReclaimed, TablesThere, Tail, Block
<1>RowsMade. RowsMade'
  BY <1>1 DEF RowsMade, Old, Early
<1>TablesThere. TablesThere'
  BY <1>1 DEF TablesThere, Early, Block, Tail
<1>AbortedApart. AbortedApart'
  BY <1>1 DEF AbortedApart
<1>ReadSoFar. ReadSoFar'
  BY <1>1, ConfigFacts DEF ReadSoFar, Partly, RowsOf, Retriable, Early, Block, Tail, TypeOK,
     ControlTyped, TablesThere
<1>Vouched. Vouched'
  BY <1>1 DEF Vouched, Settled, Ours, Tail
<1>DestinationKept. DestinationKept'
  BY <1>1, ConfigFacts DEF DestinationKept, Old, Ours, InWindow, Block, Retriable, TypeOK,
     ControlTyped, ReadSoFar, TablesThere
<1>SaidSinceStopped. SaidSinceStopped'
  <2>1. pc = "approve" /\ Staged /\ ~cfg.chunked
    BY <1>1, ConfigFacts DEF TypeOK, ControlTyped
  <2>2. /\ Dest \in tables /\ stopped = "none" /\ ~saved
        /\ created => rows[Dest] = {}
        /\ ~created => Untouched
    BY <2>1, KeptUntilApproved
  <2>3. Untouched' <=> Untouched
    BY DEF Untouched
  <2>4. \/ stopped' = "none"
        \/ /\ pc' = "cleanup" /\ retry' = FALSE
           /\ stopped' \in IF created THEN {"SwapIntoNew", "MergeIntoNew", "AppendIntoNew"}
                           ELSE {"Swap", "Merge", "Append"}
    BY <1>1, <2>1, <2>2
  <2> QED BY <1>1, <2>1, <2>2, <2>3, <2>4 DEF SaidSinceStopped, Retriable
<1>ShrinkSeen. ShrinkSeen'
  BY <1>1 DEF ShrinkSeen
<1>CountsKept. CountsKept'
  BY <1>1 DEF CountsKept, Landed, Repeated, Rewritten, Ours, Retriable, Block
<1>PromotedWhole. PromotedWhole'
  BY <1>1 DEF PromotedWhole, Failing, Ours, Theirs, RowsOf
<1>WrittenOnce. WrittenOnce'
  BY <1>1 DEF WrittenOnce, Ours
<1>NoSilentShrink. NoSilentShrink'
  BY <1>1 DEF NoSilentShrink, Ours
<1>PartialCounted. PartialCounted'
  BY <1>1 DEF PartialCounted, Rewritten, Ours
<1> QED BY <1>t, <1>Known, <1>RowsMade, <1>TablesThere, <1>AbortedApart, <1>ReadSoFar,
    <1>Vouched, <1>DestinationKept, <1>SaidSinceStopped, <1>ShrinkSeen, <1>CountsKept,
    <1>PromotedWhole, <1>WrittenOnce, <1>NoSilentShrink, <1>PartialCounted

\* A promotion is approved.
LEMMA ApprovePromotionKeeps ==
  ASSUME IInv, ApprovePromotion
  PROVE  IInv'
<1> USE Constants, NameFacts DEF IInv, StagingKnown, ApprovePromotion, BeforePromotion, Check,
    Stop, Proceed, Fatal, Suspect, control, store, reading, warnings, counters, state, history,
    Staged, Missing, Staging, ChunkTable, Target, WriteTable
<1>1. TypeOK /\ cfg \in Configs /\ cfg' = cfg /\ Flow' = Flow
  BY DEF TypeOK, ControlTyped, Flow, DatabaseFlow, SessionFlow, ApiFlow, FrameFlow
<1>Control. ControlTyped'
  BY <1>1, ConfigFacts, FlowFacts DEF TypeOK, ControlTyped, StoreTyped, TablesThere, ReadSoFar
<1>Store. StoreTyped'
  BY <1>1 DEF TypeOK, StoreTyped
<1>Counts. CountsTyped'
  BY <1>1 DEF TypeOK, CountsTyped, Kinds
<1>t. TypeOK'
  BY <1>Control, <1>Store, <1>Counts DEF TypeOK
<1>Known. StagingKnown'
  BY <1>1, <1>t, ConfigFacts, FlowFacts DEF TypeOK, ControlTyped, StoreTyped, ToDrop,
     StagingReclaimed, TablesThere, Tail, Block
<1>RowsMade. RowsMade'
  BY <1>1 DEF RowsMade, Old, Early
<1>TablesThere. TablesThere'
  BY <1>1 DEF TablesThere, Early, Block, Tail
<1>AbortedApart. AbortedApart'
  BY <1>1 DEF AbortedApart
<1>ReadSoFar. ReadSoFar'
  BY <1>1 DEF ReadSoFar, Partly, RowsOf, Retriable, Early, Block, Tail
<1>Vouched. Vouched'
  BY <1>1 DEF Vouched, Settled, Ours, Tail
<1>DestinationKept. DestinationKept'
  BY <1>1 DEF DestinationKept, Old, Ours, InWindow, Block, Retriable
<1>SaidSinceStopped. SaidSinceStopped'
  <2>1. pc = "approve" /\ Staged /\ ~cfg.chunked
    BY <1>1, ConfigFacts DEF TypeOK, ControlTyped
  <2>2. /\ Dest \in tables /\ stopped = "none" /\ ~saved
        /\ created => rows[Dest] = {}
        /\ ~created => Untouched
    BY <2>1, KeptUntilApproved
  <2>3. Untouched' <=> Untouched
    BY DEF Untouched
  <2>4. \/ stopped' = "none"
        \/ /\ pc' = "cleanup" /\ retry' = FALSE
           /\ stopped' \in IF created THEN {"SwapIntoNew", "MergeIntoNew", "AppendIntoNew"}
                           ELSE {"Swap", "Merge", "Append"}
    BY <1>1, <2>1, <2>2
  <2> QED BY <1>1, <2>1, <2>2, <2>3, <2>4 DEF SaidSinceStopped, Retriable
<1>ShrinkSeen. ShrinkSeen'
  BY <1>1 DEF ShrinkSeen
<1>CountsKept. CountsKept'
  BY <1>1 DEF CountsKept, Landed, Repeated, Rewritten, Ours, Retriable, Block
<1>PromotedWhole. PromotedWhole'
  BY <1>1 DEF PromotedWhole, Failing, Ours, Theirs, RowsOf
<1>WrittenOnce. WrittenOnce'
  BY <1>1 DEF WrittenOnce, Ours
<1>NoSilentShrink. NoSilentShrink'
  BY <1>1 DEF NoSilentShrink, Ours
<1>PartialCounted. PartialCounted'
  BY <1>1 DEF PartialCounted, Rewritten, Ours
<1> QED BY <1>t, <1>Known, <1>RowsMade, <1>TablesThere, <1>AbortedApart, <1>ReadSoFar,
    <1>Vouched, <1>DestinationKept, <1>SaidSinceStopped, <1>ShrinkSeen, <1>CountsKept,
    <1>PromotedWhole, <1>WrittenOnce, <1>NoSilentShrink, <1>PartialCounted

\* Stale rows are deleted.
LEMMA DeleteStaleKeeps ==
  ASSUME IInv, DeleteStale
  PROVE  IInv'
<1> USE Constants, NameFacts DEF IInv, StagingKnown, DeleteStale, Stale, InWindow, KeysOf,
    control, store, reading, warnings, counters, state, history, Staged, Missing, Staging,
    ChunkTable,
    Target, WriteTable
<1>1. TypeOK /\ cfg \in Configs /\ cfg' = cfg /\ Flow' = Flow
  BY DEF TypeOK, ControlTyped, Flow, DatabaseFlow, SessionFlow, ApiFlow, FrameFlow
<1>d. rows'[Dest] = {r \in rows[Dest] : r[2] # 0}
  BY <1>1, WhatIsPromoted DEF TypeOK, ControlTyped, StoreTyped
<1>Control. ControlTyped'
  BY <1>1 DEF TypeOK, ControlTyped
<1>Store. StoreTyped'
  BY <1>1 DEF TypeOK, StoreTyped
<1>Counts. CountsTyped'
  BY <1>1 DEF TypeOK, CountsTyped, Kinds
<1>t. TypeOK'
  BY <1>Control, <1>Store, <1>Counts DEF TypeOK
<1>Known. StagingKnown'
  BY <1>1, <1>t, ConfigFacts, FlowFacts DEF TypeOK, ControlTyped, StoreTyped, ToDrop,
     StagingReclaimed, TablesThere, Tail, Block
<1>RowsMade. RowsMade'
  BY <1>1 DEF RowsMade, Old, Early
<1>TablesThere. TablesThere'
  BY <1>1 DEF TablesThere, Early, Block, Tail
<1>AbortedApart. AbortedApart'
  BY <1>1 DEF AbortedApart, TypeOK, ControlTyped, StoreTyped, ReadSoFar, Block, Tail
<1>ReadSoFar. ReadSoFar'
  BY <1>1 DEF ReadSoFar, Partly, RowsOf, Retriable, Early, Block, Tail
<1>Vouched. Vouched'
  BY <1>1, ConfigFacts DEF TypeOK, ControlTyped, StoreTyped, Vouched, Settled, Ours, Tail,
     Batches, ReadSoFar, RowsMade, AbortedApart, Early, Block, Retriable
<1>DestinationKept. DestinationKept'
  <2>1. pc = "delete" /\ Staged /\ ~cfg.chunked /\ rows[Dest] = Old
    BY <1>1 DEF DestinationKept, ReadSoFar
  <2>2. \A r \in Old : r[2] # 0 <=> (~InWindow(r) \/ r[2] \in Batches)
    BY <1>1, ConfigFacts DEF Old, InWindow, Batches
  <2>3. rows'[Dest] = {r \in Old : ~InWindow(r) \/ r[2] \in Batches}
    BY <1>d, <2>1, <2>2
  <2> QED BY <1>1, <2>1, <2>3 DEF DestinationKept, ReadSoFar, Block, Retriable, Old, InWindow
<1>SaidSinceStopped. SaidSinceStopped'
  BY <1>1 DEF SaidSinceStopped, Untouched, Ours, KeysOf, Retriable
<1>ShrinkSeen. ShrinkSeen'
  BY <1>1 DEF ShrinkSeen, ReadSoFar
<1>CountsKept. CountsKept'
  BY <1>1 DEF CountsKept, Landed, Repeated, Rewritten, Ours, Retriable, Block, TypeOK,
     ControlTyped, StoreTyped, ReadSoFar, Tail
<1>PromotedWhole. PromotedWhole'
  <2>1. /\ pc = "delete" /\ cfg.promote = "insert" /\ cfg.delete_stale /\ Staged
        /\ ~cfg.chunked /\ rows[Dest] = Old
    BY <1>1 DEF DestinationKept, ReadSoFar
  <2>2. Ours' = {} /\ \A b \in cfg.old : b # 0 => <<0, b>> \in Theirs'
    BY <1>d, <2>1 DEF Ours, Theirs, Old
  <2> QED BY <1>1, <2>1, <2>2, ConfigFacts DEF PromotedWhole
<1>WrittenOnce. WrittenOnce'
  BY <1>1 DEF WrittenOnce, Ours
<1>NoSilentShrink. NoSilentShrink'
  BY <1>1 DEF NoSilentShrink, Ours
<1>PartialCounted. PartialCounted'
  BY <1>1 DEF PartialCounted, Rewritten, Ours
<1> QED BY <1>t, <1>Known, <1>RowsMade, <1>TablesThere, <1>AbortedApart, <1>ReadSoFar,
    <1>Vouched, <1>DestinationKept, <1>SaidSinceStopped, <1>ShrinkSeen, <1>CountsKept,
    <1>PromotedWhole, <1>WrittenOnce, <1>NoSilentShrink, <1>PartialCounted

\* What is staged is promoted.
LEMMA PromoteKeeps ==
  ASSUME IInv, Promote
  PROVE  IInv'
<1> USE Constants, NameFacts DEF IInv, StagingKnown, Promote, Promotes, Warned, Promoted,
    Replaced, Stale, KeysOf, InWindow, control, store, reading, warnings, counters, state,
    history, Staged, Missing, Staging, ChunkTable, Target, WriteTable
<1>1. TypeOK /\ cfg \in Configs /\ cfg' = cfg /\ Flow' = Flow
  BY DEF TypeOK, ControlTyped, Flow, DatabaseFlow, SessionFlow, ApiFlow, FrameFlow
<1>p. rows'[Dest] = Promoted(Staging)
  BY <1>1 DEF TypeOK, ControlTyped, StoreTyped
<1>o. Staged /\ ~cfg.chunked /\ Ours' = RowsOf(attempt) /\ RowsOf(attempt) # {}
  <2>1. attempt > 0 /\ attempt \in Nat /\ \A r \in Old : r[1] = 0
    BY <1>1 DEF TypeOK, ControlTyped, Old
  <2> HIDE DEF Promote, Promoted
  <2>2. Ours' = RowsOf(attempt)
    BY <1>1, <1>p, <2>1, WhatIsPromoted DEF Promote, Ours, RowsOf
  <2> QED BY <1>1, <2>2, WhatIsPromoted DEF Promote, RowsOf, Batches
<1>Control. ControlTyped'
  BY <1>1 DEF TypeOK, ControlTyped
<1>Store. StoreTyped'
  BY <1>1, ConfigFacts DEF TypeOK, ControlTyped, StoreTyped, Batches, TablesThere, ReadSoFar,
     Early, Block, Tail
<1>Counts. CountsTyped'
  BY <1>1 DEF TypeOK, CountsTyped, Kinds
<1>t. TypeOK'
  BY <1>Control, <1>Store, <1>Counts DEF TypeOK
<1>Known. StagingKnown'
  BY <1>1, <1>t, ConfigFacts, FlowFacts DEF TypeOK, ControlTyped, StoreTyped, ToDrop,
     StagingReclaimed, TablesThere, Tail, Block
<1>RowsMade. RowsMade'
  <2>1. Dest # Staging /\ Staging \in Names
    BY <1>1 DEF TypeOK, ControlTyped
  <2>3. \A t \in Names : rows'[t] \subseteq rows[Dest] \cup rows[Staging] \cup rows[t]
    BY <1>1, <2>1 DEF TypeOK, ControlTyped, RowsMade
  <2>2. rows' \in [Names -> SUBSET ((0..MaxAttempts) \X Nat)]
    <3>1. rows' = [t \in Names |-> rows'[t]]
      BY <2>1 DEF RowsMade
    <3>2. \A t \in Names : rows[t] \subseteq (0..MaxAttempts) \X Nat
      BY DEF RowsMade
    <3>3. ASSUME NEW t \in Names
          PROVE  rows'[t] \in SUBSET ((0..MaxAttempts) \X Nat)
      BY ONLY <2>1, <2>3, <3>2, <3>3, NameFacts
    <3> QED BY ONLY <3>1, <3>3, Zenon
  <2>4. \A r \in rows'[Dest] : r[1] = 0 => r \in Old
    BY <1>1, <1>p, WhatIsPromoted DEF TypeOK, ControlTyped, RowsOf
  <2>5. ASSUME NEW t \in Names, NEW r \in rows'[t]
        PROVE  r[1] <= attempt /\ (r[1] > 0 => r[2] \in Batches)
    BY <2>1, <2>3 DEF RowsMade
  <2> QED BY <1>1, <2>2, <2>4, <2>5 DEF RowsMade, Early, Old
<1>TablesThere. TablesThere'
  BY <1>1 DEF TablesThere, Early, Block, Tail
<1>AbortedApart. AbortedApart'
  BY <1>1 DEF AbortedApart, TypeOK, ControlTyped, StoreTyped, ReadSoFar, Block, Tail
<1>ReadSoFar. ReadSoFar'
  BY <1>1 DEF ReadSoFar, Partly, RowsOf, Retriable, Early, Block, Tail, TypeOK, ControlTyped,
     StoreTyped
<1>Vouched. Vouched'
  BY <1>1, ConfigFacts DEF TypeOK, ControlTyped, StoreTyped, Vouched, Settled, Ours, Tail,
     Batches, ReadSoFar, RowsMade, AbortedApart, Early, Block, Retriable
<1>DestinationKept. DestinationKept'
  BY <1>1 DEF DestinationKept, Old, Ours, InWindow, Block, Retriable
<1>SaidSinceStopped. SaidSinceStopped'
  BY <1>1 DEF SaidSinceStopped, Untouched, Ours, KeysOf, Retriable
<1>ShrinkSeen. ShrinkSeen'
  BY <1>1 DEF ShrinkSeen
<1>CountsKept. CountsKept'
  BY <1>1 DEF CountsKept, Landed, Repeated, Rewritten, Ours, Retriable, Block, TypeOK,
     ControlTyped, StoreTyped, ReadSoFar, Tail
<1>PromotedWhole. PromotedWhole'
  <2>1. cfg.promote # "swap" => \A b \in cfg.old : b > N => <<0, b>> \in Theirs'
    BY <1>1, <1>p, WhatIsPromoted DEF Theirs, Old
  <2> QED BY <1>1, <1>o, <2>1 DEF PromotedWhole, TypeOK, ControlTyped
<1>WrittenOnce. WrittenOnce'
  BY <1>1, <1>o DEF WrittenOnce, RowsOf
<1>NoSilentShrink. NoSilentShrink'
  BY <1>1, <1>o, ConfigFacts DEF NoSilentShrink, ShrinkSeen, TypeOK, ControlTyped
<1>PartialCounted. PartialCounted'
  BY <1>1, ConfigFacts DEF TypeOK, ControlTyped, StoreTyped, PartialCounted, Rewritten, Ours,
     CountsKept, ReadSoFar, RowsMade
<1> QED BY <1>t, <1>Known, <1>RowsMade, <1>TablesThere, <1>AbortedApart, <1>ReadSoFar,
    <1>Vouched, <1>DestinationKept, <1>SaidSinceStopped, <1>ShrinkSeen, <1>CountsKept,
    <1>PromotedWhole, <1>WrittenOnce, <1>NoSilentShrink, <1>PartialCounted

\* A promotion fails, whole or halfway.
LEMMA PromoteFailsKeeps ==
  ASSUME IInv, PromoteFails
  PROVE  IInv'
<1> USE Constants, NameFacts DEF IInv, StagingKnown, PromoteFails, Promotes, HalfPromoted,
    Break, Fault, Promoted, Replaced, Stale, KeysOf, InWindow, control, store, reading,
    warnings, counters, state, history, Staged, Missing, Staging, ChunkTable, Target, WriteTable
<1>1. TypeOK /\ cfg \in Configs /\ cfg' = cfg /\ Flow' = Flow
  BY DEF TypeOK, ControlTyped, Flow, DatabaseFlow, SessionFlow, ApiFlow, FrameFlow
<1>d. /\ pc \in {"delete", "promote"} /\ inflight = {} /\ Dest # Staging /\ Staging \in Names
      /\ Staged /\ ~cfg.chunked /\ DOMAIN rows' = Names
      /\ \/ rows'[Dest] = rows[Dest]
         \/ /\ cfg.promote = "insert" /\ cfg.delete_stale
            /\ rows'[Dest] = {r \in rows[Dest] : r[2] # 0}
         \/ rows'[Dest] = Promoted(Staging)
         \/ /\ cfg.promote = "insert"
            /\ \E part \in SUBSET rows[Staging] : rows'[Dest] = rows[Dest] \cup part
  <2>1. /\ pc \in {"delete", "promote"} /\ inflight = {} /\ Dest # Staging /\ Staging \in Names
        /\ DOMAIN rows = Names /\ DOMAIN rows' = Names
    BY <1>1 DEF TypeOK, ControlTyped, StoreTyped
  <2>2. Staged /\ ~cfg.chunked /\ Stale(Staging) = {r \in rows[Dest] : r[2] = 0}
    BY <2>1, WhatIsPromoted
  <2>3. CASE pc = "delete"
    BY <2>1, <2>2, <2>3 DEF ReadSoFar
  <2>4. CASE Promotes(Staging)
    BY <2>1, <2>2, <2>4
  <2>5. ASSUME NEW left \in HalfPromoted(Staging), rows' = [rows EXCEPT ![Dest] = left]
        PROVE  \/ rows'[Dest] = rows[Dest]
               \/ rows'[Dest] = Promoted(Staging)
               \/ /\ cfg.promote = "insert"
                  /\ \E part \in SUBSET rows[Staging] : rows'[Dest] = rows[Dest] \cup part
    BY <2>1, <2>5
  <2> QED BY <2>1, <2>2, <2>3, <2>4, <2>5
<1>a. \A t \in Names : rows'[t] \subseteq rows[Dest] \cup rows[Staging] \cup rows[t]
  BY <1>1, <1>d DEF TypeOK, StoreTyped
<1>b. rows'[Dest] \subseteq Old \cup RowsOf(attempt)
  <2> HIDE DEF PromoteFails, Promoted, Stale
  <2> QED BY <1>d, WhatIsPromoted
<1>c. cfg.promote # "swap" => {r \in Old : r[2] > N} \subseteq rows'[Dest]
  <2> HIDE DEF PromoteFails, Promoted, Stale
  <2> QED BY <1>d, WhatIsPromoted
<1>o. /\ Ours' \subseteq RowsOf(attempt)
      /\ \/ Ours' = RowsOf(attempt) /\ Ours' # {}
         \/ cfg.promote = "insert" /\ {r \in rows[Dest] : r[2] # 0 \/ ~cfg.delete_stale} \subseteq rows'[Dest]
         \/ Ours' = {} /\ rows'[Dest] = rows[Dest]
  <2>1. attempt > 0 /\ attempt \in Nat /\ RowsOf(attempt) # {}
    <3>1. 1 \in Batches
      BY DEF Batches
    <3>2. <<attempt, 1>> \in RowsOf(attempt)
      BY <3>1, Zenon DEF RowsOf
    <3>3. attempt > 0 /\ attempt \in Nat
      BY <1>1 DEF TypeOK, ControlTyped
    <3> HIDE DEF PromoteFails
    <3> QED BY <3>2, <3>3
  <2> HIDE DEF PromoteFails, Promoted, Stale
  <2>2. \A r \in Old : r[1] = 0
    BY DEF Old
  <2>3. \A r \in RowsOf(attempt) : r[1] = attempt
    BY DEF RowsOf
  <2>4. Ours' \subseteq RowsOf(attempt)
    BY <1>b, <2>1, <2>2 DEF Ours
  <2>5. rows'[Dest] = rows[Dest] => Ours' = {}
    BY <2>2, WhatIsPromoted, <1>d DEF Ours
  <2>6. rows'[Dest] = Promoted(Staging) => Ours' = RowsOf(attempt)
    BY <2>1, <2>3, <2>4, WhatIsPromoted, <1>d DEF Ours
  <2> QED BY <1>d, <2>1, <2>4, <2>5, <2>6
<1>Control. ControlTyped'
  <2>1. retry' \in BOOLEAN
    BY <1>1 DEF TypeOK, ControlTyped
  <2>2. faults' \in 0..MaxFaults
    BY <1>1 DEF TypeOK, ControlTyped
  <2> QED BY <1>1, <2>1, <2>2 DEF TypeOK, ControlTyped
<1>Store. StoreTyped'
  BY <1>1, ConfigFacts DEF TypeOK, ControlTyped, StoreTyped, Batches, TablesThere, ReadSoFar,
     Early, Block, Tail
<1>Counts. CountsTyped'
  BY <1>1 DEF TypeOK, CountsTyped, Kinds
<1>t. TypeOK'
  BY <1>Control, <1>Store, <1>Counts DEF TypeOK
<1>Known. StagingKnown'
  BY <1>1, <1>t, ConfigFacts, FlowFacts DEF TypeOK, ControlTyped, StoreTyped, ToDrop,
     StagingReclaimed, TablesThere, Tail, Block
<1>RowsMade. RowsMade'
  <2>1. \A t \in Names : rows'[t] \subseteq (0..MaxAttempts) \X Nat
    BY <1>a, <1>d DEF RowsMade
  <2>2. rows' \in [Names -> SUBSET ((0..MaxAttempts) \X Nat)]
    BY <1>1, <2>1, <1>d DEF RowsMade
  <2>3. ASSUME NEW t \in Names, NEW r \in rows'[t]
        PROVE  r[1] <= attempt /\ (r[1] > 0 => r[2] \in Batches)
    BY <1>a, <1>d DEF RowsMade
  <2>4. \A r \in rows'[Dest] : r[1] = 0 => r \in Old
    BY <1>1, <1>b DEF TypeOK, ControlTyped, RowsOf
  <2> QED BY <1>1, <2>2, <2>3, <2>4 DEF RowsMade, Early, Old
<1>TablesThere. TablesThere'
  BY <1>1 DEF TablesThere, Early, Block, Tail
<1>AbortedApart. AbortedApart'
  BY <1>1, <1>d DEF TypeOK, ControlTyped, AbortedApart, ReadSoFar
<1>ReadSoFar. ReadSoFar'
  BY <1>1 DEF ReadSoFar, Partly, RowsOf, Retriable, Early, Block, Tail
<1>Vouched. Vouched'
  BY <1>1, <1>d DEF Vouched, ReadSoFar, TypeOK, StoreTyped, Block, Tail, Batches
<1>DestinationKept. DestinationKept'
  BY <1>1 DEF DestinationKept, Old, Ours, InWindow, Block, Retriable
<1>SaidSinceStopped. SaidSinceStopped'
  BY <1>1 DEF SaidSinceStopped, Untouched, Ours, KeysOf, Retriable
<1>ShrinkSeen. ShrinkSeen'
  BY <1>1 DEF ShrinkSeen
<1>CountsKept. CountsKept'
  BY <1>1 DEF CountsKept, Landed, Repeated, Rewritten, Ours, Retriable, Block
<1>PromotedWhole. PromotedWhole'
  <2>1. cfg.promote # "swap" => \A b \in cfg.old : b > N => <<0, b>> \in Theirs'
    BY <1>c DEF Theirs, Old
  <2>2. ASSUME Ours' = {}, NEW b \in cfg.old
        PROVE  <<0, b>> \in Theirs' \/ (cfg.promote = "insert" /\ cfg.delete_stale /\ b = 0)
    <3>1. <<0, b>> \in rows[Dest] \/ (cfg.promote = "insert" /\ cfg.delete_stale /\ b = 0)
      BY <1>1, <1>d, ConfigFacts DEF DestinationKept, Old, InWindow, Batches
    <3> HIDE DEF PromoteFails, Promoted, Stale
    <3> QED BY <1>o, <2>2, <3>1 DEF Theirs
  <2>3. cfg' = cfg /\ attempt' = attempt /\ attempt \in 1..attempt /\ Failing'
    BY <1>1 DEF TypeOK, ControlTyped, Failing
  <2> HIDE DEF PromoteFails, Promoted, Stale
  <2> QED BY <1>1, <1>o, <2>1, <2>2, <2>3 DEF PromotedWhole
<1>WrittenOnce. WrittenOnce'
  BY <1>1, <1>o DEF WrittenOnce, RowsOf
<1>NoSilentShrink. NoSilentShrink'
  BY <1>1, ConfigFacts DEF TypeOK, ControlTyped, StoreTyped, NoSilentShrink, Ours, ShrinkSeen,
     DestinationKept, Retriable, Early, Old
<1>PartialCounted. PartialCounted'
  BY <1>1, ConfigFacts DEF TypeOK, ControlTyped, StoreTyped, PartialCounted, Rewritten, Ours,
     CountsKept, ReadSoFar, RowsMade
<1> QED BY <1>t, <1>Known, <1>RowsMade, <1>TablesThere, <1>AbortedApart, <1>ReadSoFar,
    <1>Vouched, <1>DestinationKept, <1>SaidSinceStopped, <1>ShrinkSeen, <1>CountsKept,
    <1>PromotedWhole, <1>WrittenOnce, <1>NoSilentShrink, <1>PartialCounted

\* Staging is dropped.
LEMMA DropStagingKeeps ==
  ASSUME IInv, DropStaging
  PROVE  IInv'
<1> USE Constants, NameFacts DEF IInv, StagingKnown, DropStaging, Emptying, AfterTables,
    control, store, reading, warnings, counters, state, history, Staged, Missing, Staging,
    ChunkTable,
    Target, WriteTable
<1>1. TypeOK /\ cfg \in Configs /\ cfg' = cfg /\ Flow' = Flow
  BY DEF TypeOK, ControlTyped, Flow, DatabaseFlow, SessionFlow, ApiFlow, FrameFlow
<1>Control. ControlTyped'
  BY <1>1 DEF TypeOK, ControlTyped
<1>Store. StoreTyped'
  BY <1>1, ConfigFacts DEF TypeOK, StoreTyped, ControlTyped, ReadSoFar, TablesThere
<1>Counts. CountsTyped'
  BY <1>1, ConfigFacts DEF TypeOK, ControlTyped, StoreTyped, CountsTyped, Kinds, CountsKept,
     Block, Retriable
<1>t. TypeOK'
  BY <1>Control, <1>Store, <1>Counts DEF TypeOK
<1>Known. StagingKnown'
  BY <1>1, <1>t, ConfigFacts, FlowFacts DEF TypeOK, ControlTyped, StoreTyped, ToDrop,
     StagingReclaimed, TablesThere, Tail, Block
<1>RowsMade. RowsMade'
  BY <1>1 DEF RowsMade, Old, Early
<1>TablesThere. TablesThere'
  BY <1>1 DEF TablesThere, Early, Block, Tail, TypeOK, ControlTyped, StoreTyped
<1>AbortedApart. AbortedApart'
  BY <1>1 DEF AbortedApart, TypeOK, ControlTyped, StoreTyped
<1>ReadSoFar. ReadSoFar'
  <2>1. rows'[Dest] = rows[Dest]
    BY <1>1 DEF TypeOK, ControlTyped
  <2>2. /\ pc = "drop" /\ ~saved /\ at = N /\ (cfg.chunked => marker = N)
        /\ pc' \in Tail /\ (~cfg.chunked => \A b \in Batches : <<attempt, b>> \in rows[Dest])
        /\ pc' = "cursor" => Flow.cursor
        /\ pc' = "done" => Flow.last /\ ~Flow.cursor
        /\ Staged /\ Missing' = {}
    BY <1>1 DEF ReadSoFar, Block, Tail
  <2>3. saved' = FALSE
    BY <2>2 DEF TypeOK, StoreTyped
  <2>4. pc' = "done" => Flow.cursor = FALSE
    BY <2>2, FlowFacts DEF TypeOK, ControlTyped
  <2> HIDE DEF Missing
  <2> QED BY <1>1, <2>1, <2>2, <2>3, <2>4 DEF ReadSoFar, Early, Block, Tail, Retriable, RowsOf
<1>Vouched. Vouched'
  <2>1. rows'[Dest] = rows[Dest]
    BY <1>1 DEF TypeOK, ControlTyped
  <2>2. ASSUME NEW b \in Batches
        PROVE  Settled(b)
    <3>1. CASE cfg.chunked
      BY <3>1 DEF ReadSoFar, Vouched, Batches
    <3>2. CASE ~cfg.chunked
      <4>1. <<attempt, b>> \in rows[Dest]
        BY <3>2 DEF ReadSoFar
      <4> QED BY <4>1, SettledNow
    <3> QED BY <3>1, <3>2
  <2>3. \A b \in Batches : Settled(b) => Settled(b)'
    BY <2>1, SettledStays DEF Ours
  <2> QED BY <2>2, <2>3 DEF Vouched
<1>DestinationKept. DestinationKept'
  BY <1>1 DEF DestinationKept, Old, Ours, InWindow, Block, Retriable
<1>SaidSinceStopped. SaidSinceStopped'
  BY <1>1 DEF SaidSinceStopped, Untouched, Ours, KeysOf, Retriable
<1>ShrinkSeen. ShrinkSeen'
  BY <1>1 DEF ShrinkSeen
<1>CountsKept. CountsKept'
  BY <1>1 DEF CountsKept, Landed, Repeated, Rewritten, Ours, Retriable, Block, TypeOK,
     ControlTyped, StoreTyped, ReadSoFar, Tail
<1>PromotedWhole. PromotedWhole'
  BY <1>1 DEF PromotedWhole, Failing, Ours, Theirs, RowsOf, TypeOK, ControlTyped, StoreTyped
<1>WrittenOnce. WrittenOnce'
  BY <1>1 DEF WrittenOnce, Ours
<1>NoSilentShrink. NoSilentShrink'
  BY <1>1 DEF NoSilentShrink, Ours
<1>PartialCounted. PartialCounted'
  <2>1. Staged /\ Ours' = Ours /\ late' = late /\ partial' = partial /\ partial = 0
    BY <1>1 DEF TypeOK, ControlTyped, ReadSoFar, CountsKept, Ours
  <2>2. Rewritten' = {}
    BY <1>1, <2>1 DEF WrittenOnce, Rewritten, Ours, RowsMade
  <2>3. Cardinality(Rewritten' \ late') = 0
    BY <2>2, FS_EmptySet
  <2> QED BY <2>1, <2>3 DEF PartialCounted
<1> QED BY <1>t, <1>Known, <1>RowsMade, <1>TablesThere, <1>AbortedApart, <1>ReadSoFar,
    <1>Vouched, <1>DestinationKept, <1>SaidSinceStopped, <1>ShrinkSeen, <1>CountsKept,
    <1>PromotedWhole, <1>WrittenOnce, <1>NoSilentShrink, <1>PartialCounted

\* Staging's drop fails.
LEMMA DropFailsKeeps ==
  ASSUME IInv, DropFails
  PROVE  IInv'
<1> USE Constants, NameFacts DEF IInv, StagingKnown, DropFails, Break, Fault, control, store,
    reading, warnings, counters, state, history, Staged, Missing, Staging, ChunkTable,
    Target, WriteTable
<1>1. TypeOK /\ cfg \in Configs /\ cfg' = cfg /\ Flow' = Flow
  BY DEF TypeOK, ControlTyped, Flow, DatabaseFlow, SessionFlow, ApiFlow, FrameFlow
<1>Control. ControlTyped'
  <2>1. retry' \in BOOLEAN
    BY <1>1 DEF TypeOK, ControlTyped
  <2>2. faults' \in 0..MaxFaults
    BY <1>1 DEF TypeOK, ControlTyped
  <2> QED BY <1>1, <2>1, <2>2 DEF TypeOK, ControlTyped
<1>Store. StoreTyped'
  BY <1>1 DEF TypeOK, StoreTyped
<1>Counts. CountsTyped'
  BY <1>1 DEF TypeOK, CountsTyped, Kinds
<1>t. TypeOK'
  BY <1>Control, <1>Store, <1>Counts DEF TypeOK
<1>Known. StagingKnown'
  BY <1>1, <1>t, ConfigFacts, FlowFacts DEF TypeOK, ControlTyped, StoreTyped, ToDrop,
     StagingReclaimed, TablesThere, Tail, Block
<1>RowsMade. RowsMade'
  BY <1>1 DEF RowsMade, Old, Early
<1>TablesThere. TablesThere'
  BY <1>1 DEF TablesThere, Early, Block, Tail
<1>AbortedApart. AbortedApart'
  BY <1>1 DEF AbortedApart, TypeOK, ControlTyped, StoreTyped
<1>ReadSoFar. ReadSoFar'
  BY <1>1 DEF ReadSoFar, Partly, RowsOf, Retriable, Early, Block, Tail
<1>Vouched. Vouched'
  BY <1>1 DEF Vouched, Settled, Ours, Tail, TypeOK, ControlTyped, StoreTyped
<1>DestinationKept. DestinationKept'
  BY <1>1 DEF DestinationKept, Old, Ours, InWindow, Block, Retriable
<1>SaidSinceStopped. SaidSinceStopped'
  BY <1>1 DEF SaidSinceStopped, Untouched, Ours, KeysOf, Retriable
<1>ShrinkSeen. ShrinkSeen'
  BY <1>1 DEF ShrinkSeen
<1>CountsKept. CountsKept'
  BY <1>1 DEF CountsKept, Landed, Repeated, Rewritten, Ours, Retriable, Block
<1>PromotedWhole. PromotedWhole'
  BY <1>1 DEF PromotedWhole, Failing, Ours, Theirs, RowsOf
<1>WrittenOnce. WrittenOnce'
  BY <1>1 DEF WrittenOnce, Ours
<1>NoSilentShrink. NoSilentShrink'
  BY <1>1 DEF NoSilentShrink, Ours
<1>PartialCounted. PartialCounted'
  BY <1>1 DEF PartialCounted, Rewritten, Ours
<1> QED BY <1>t, <1>Known, <1>RowsMade, <1>TablesThere, <1>AbortedApart, <1>ReadSoFar,
    <1>Vouched, <1>DestinationKept, <1>SaidSinceStopped, <1>ShrinkSeen, <1>CountsKept,
    <1>PromotedWhole, <1>WrittenOnce, <1>NoSilentShrink, <1>PartialCounted

\* The cursor is saved, or withheld.
LEMMA SaveCursorKeeps ==
  ASSUME IInv, SaveCursor
  PROVE  IInv'
<1> USE Constants, NameFacts DEF IInv, StagingKnown, SaveCursor, Withheld, BeforeCursor, Stop,
    Fatal, Suspect, control, store, reading, warnings, counters, state, history, Staged, Missing,
    Staging, ChunkTable, Target, WriteTable
<1>1. TypeOK /\ cfg \in Configs /\ cfg' = cfg /\ Flow' = Flow
  BY DEF TypeOK, ControlTyped, Flow, DatabaseFlow, SessionFlow, ApiFlow, FrameFlow
<1>Control. ControlTyped'
  BY <1>1, ConfigFacts, FlowFacts DEF TypeOK, ControlTyped, StoreTyped, TablesThere, ReadSoFar
<1>Store. StoreTyped'
  <2>1. saved' \in BOOLEAN
    BY <1>1 DEF TypeOK, StoreTyped
  <2> QED BY <1>1, <2>1 DEF TypeOK, StoreTyped, Batches
<1>Counts. CountsTyped'
  BY <1>1 DEF TypeOK, CountsTyped, Kinds
<1>t. TypeOK'
  BY <1>Control, <1>Store, <1>Counts DEF TypeOK
<1>Known. StagingKnown'
  BY <1>1, <1>t, ConfigFacts, FlowFacts DEF TypeOK, ControlTyped, StoreTyped, ToDrop,
     StagingReclaimed, TablesThere, Tail, Block
<1>RowsMade. RowsMade'
  BY <1>1 DEF RowsMade, Old, Early
<1>TablesThere. TablesThere'
  BY <1>1 DEF TablesThere, Early, Block, Tail
<1>AbortedApart. AbortedApart'
  BY <1>1 DEF AbortedApart
<1>ReadSoFar. ReadSoFar'
  <2>1. saved' = TRUE => Flow.cursor /\ saved' = Flow'.cursor
    BY <1>1, FlowFacts DEF TypeOK, ControlTyped, ReadSoFar
  <2>2. saved' \in {saved, TRUE} /\ pc' \in {"cleanup", "done", "ok"}
    BY <1>1
  <2>3. Missing' = Missing /\ (pc' = "ok" => Missing = {})
    BY <1>1, MissingFacts
  <2> HIDE DEF Missing
  <2> QED BY <1>1, <2>1, <2>2, <2>3, ConfigFacts DEF TypeOK, ControlTyped, StoreTyped, ReadSoFar,
      Retriable, Early, Block, Tail, RowsOf
<1>Vouched. Vouched'
  <2>1. Missing' = Missing /\ pc \in Tail /\ marker' \in {0, marker}
    BY <1>1 DEF Tail
  <2> HIDE DEF Missing
  <2> QED BY <1>1, <2>1 DEF Vouched, Settled, Ours, TypeOK, ControlTyped, StoreTyped, Batches
<1>DestinationKept. DestinationKept'
  BY <1>1 DEF DestinationKept, Old, Ours, InWindow, Block, Retriable
<1>SaidSinceStopped. SaidSinceStopped'
  <2>1. ~cfg.chunked /\ ~Flow.last => Batches \subseteq KeysOf(Dest)
    <3>1. ~cfg.chunked /\ ~Flow.last =>
            \A b \in Batches : <<attempt, b>> \in rows[Dest] /\ <<attempt, b>>[2] = b
      <4>1. ~Flow.last => Missing = {}
        BY MissingFacts
      <4> HIDE DEF Missing
      <4> QED BY <1>1, <4>1 DEF ReadSoFar, Tail
    <3> QED BY <3>1, Zenon DEF KeysOf
  <2>2. pc = "cursor" /\ stopped = "none" /\ ~saved /\ (cfg.chunked => marker = N)
    BY <1>1 DEF SaidSinceStopped, ReadSoFar
  <2>3. KeysOf(Dest)' = KeysOf(Dest)
    BY DEF KeysOf
  <2> QED BY <1>1, <2>1, <2>2, <2>3 DEF SaidSinceStopped, Retriable
<1>ShrinkSeen. ShrinkSeen'
  BY <1>1 DEF ShrinkSeen
<1>CountsKept. CountsKept'
  <2>1. CASE Staged \/ ~Flow.counted
    BY <1>1, <2>1 DEF CountsKept, Retriable, Block
  <2>2. CASE ~Staged /\ Flow.counted
    <3>1. ASSUME NEW r \in Ours, r[1] < attempt, r[2] > marker
          PROVE  r \in Rewritten
      <4>1. ~cfg.chunked /\ r[2] \in Batches
        BY <1>1, <3>1 DEF ReadSoFar, Ours, RowsMade, Batches
      <4>3. Missing = {}
        BY <2>2, MissingFacts
      <4>2. <<attempt, r[2]>> \in Ours
        BY <1>1, <4>1, <4>3 DEF ReadSoFar, Tail, Ours, TypeOK, ControlTyped
      <4> QED BY <3>1, <4>2 DEF Rewritten
    <3>2. \A r \in Rewritten : r[1] < attempt
      BY <1>1 DEF Rewritten, Ours, RowsMade, TypeOK, ControlTyped
    <3>3. Repeated = Rewritten \ late
      BY <3>1, <3>2 DEF Repeated, Rewritten
    <3>4. Rewritten' = Rewritten /\ late' = late
      BY DEF Rewritten, Ours
    <3> QED BY <1>1, <2>2, <3>3, <3>4 DEF CountsKept, Retriable, Block
  <2> QED BY <2>1, <2>2
<1>PromotedWhole. PromotedWhole'
  BY <1>1 DEF PromotedWhole, Failing, Ours, Theirs, RowsOf
<1>WrittenOnce. WrittenOnce'
  BY <1>1 DEF WrittenOnce, Ours
<1>NoSilentShrink. NoSilentShrink'
  BY <1>1 DEF NoSilentShrink, Ours
<1>PartialCounted. PartialCounted'
  <2>1. Ours' = Ours /\ Rewritten' = Rewritten /\ late' = late /\ partial' = partial
    BY DEF Ours, Rewritten
  <2>2. CASE ~Staged /\ Flow.counted
    BY <1>1, <1>CountsKept, <2>1, <2>2 DEF PartialCounted, CountsKept
  <2>3. CASE Staged \/ ~Flow.counted
    <3>1. Rewritten = {}
      BY <1>1, <2>3 DEF WrittenOnce, CountsKept, Rewritten, Ours, RowsMade, TypeOK, ControlTyped
    <3>2. Cardinality(Rewritten \ late) = 0
      BY <3>1, FS_EmptySet
    <3> QED BY <1>1, <2>1, <2>3, <3>2 DEF PartialCounted, CountsKept
  <2> QED BY <2>2, <2>3
<1> QED BY <1>t, <1>Known, <1>RowsMade, <1>TablesThere, <1>AbortedApart, <1>ReadSoFar,
    <1>Vouched, <1>DestinationKept, <1>SaidSinceStopped, <1>ShrinkSeen, <1>CountsKept,
    <1>PromotedWhole, <1>WrittenOnce, <1>NoSilentShrink, <1>PartialCounted

\* The cursor may have been saved.
LEMMA SaveFailsKeeps ==
  ASSUME IInv, SaveFails
  PROVE  IInv'
<1> USE Constants, NameFacts DEF IInv, StagingKnown, SaveFails, Break, Fault, control, store,
    reading, warnings, counters, state, history, Staged, Missing, Staging, ChunkTable,
    Target, WriteTable
<1>1. TypeOK /\ cfg \in Configs /\ cfg' = cfg /\ Flow' = Flow
  BY DEF TypeOK, ControlTyped, Flow, DatabaseFlow, SessionFlow, ApiFlow, FrameFlow
<1>Control. ControlTyped'
  <2>1. retry' \in BOOLEAN
    BY <1>1 DEF TypeOK, ControlTyped
  <2>2. faults' \in 0..MaxFaults
    BY <1>1 DEF TypeOK, ControlTyped
  <2> QED BY <1>1, <2>1, <2>2 DEF TypeOK, ControlTyped
<1>Store. StoreTyped'
  <2>1. saved' \in BOOLEAN
    BY <1>1 DEF TypeOK, StoreTyped
  <2> QED BY <1>1, <2>1 DEF TypeOK, StoreTyped, Batches
<1>Counts. CountsTyped'
  BY <1>1 DEF TypeOK, CountsTyped, Kinds
<1>t. TypeOK'
  BY <1>Control, <1>Store, <1>Counts DEF TypeOK
<1>Known. StagingKnown'
  BY <1>1, <1>t, ConfigFacts, FlowFacts DEF TypeOK, ControlTyped, StoreTyped, ToDrop,
     StagingReclaimed, TablesThere, Tail, Block
<1>RowsMade. RowsMade'
  BY <1>1 DEF RowsMade, Old, Early
<1>TablesThere. TablesThere'
  BY <1>1 DEF TablesThere, Early, Block, Tail
<1>AbortedApart. AbortedApart'
  BY <1>1 DEF AbortedApart, TypeOK, ControlTyped, StoreTyped
<1>ReadSoFar. ReadSoFar'
  BY <1>1 DEF ReadSoFar, Partly, RowsOf, Retriable, Early, Block, Tail
<1>Vouched. Vouched'
  <2>1. Missing' = Missing /\ pc \in Tail /\ marker' \in {0, marker}
    BY <1>1 DEF Tail
  <2> HIDE DEF Missing
  <2> QED BY <1>1, <2>1 DEF Vouched, Settled, Ours, TypeOK, ControlTyped, StoreTyped, Batches
<1>DestinationKept. DestinationKept'
  BY <1>1 DEF DestinationKept, Old, Ours, InWindow, Block, Retriable
<1>SaidSinceStopped. SaidSinceStopped'
  BY <1>1 DEF SaidSinceStopped, Untouched, Ours, KeysOf, Retriable
<1>ShrinkSeen. ShrinkSeen'
  BY <1>1 DEF ShrinkSeen
<1>CountsKept. CountsKept'
  BY <1>1 DEF CountsKept, Landed, Repeated, Rewritten, Ours, Retriable, Block
<1>PromotedWhole. PromotedWhole'
  BY <1>1 DEF PromotedWhole, Failing, Ours, Theirs, RowsOf
<1>WrittenOnce. WrittenOnce'
  BY <1>1 DEF WrittenOnce, Ours
<1>NoSilentShrink. NoSilentShrink'
  BY <1>1 DEF NoSilentShrink, Ours
<1>PartialCounted. PartialCounted'
  BY <1>1 DEF PartialCounted, Rewritten, Ours
<1> QED BY <1>t, <1>Known, <1>RowsMade, <1>TablesThere, <1>AbortedApart, <1>ReadSoFar,
    <1>Vouched, <1>DestinationKept, <1>SaidSinceStopped, <1>ShrinkSeen, <1>CountsKept,
    <1>PromotedWhole, <1>WrittenOnce, <1>NoSilentShrink, <1>PartialCounted

\* The last checkpoint.
LEMMA CheckDoneKeeps ==
  ASSUME IInv, CheckDone
  PROVE  IInv'
<1> USE Constants, NameFacts DEF IInv, StagingKnown, CheckDone, Check, Stop, Proceed, Fatal,
    Suspect, control, store, reading, warnings, counters, state, history, Staged, Missing, Staging,
    ChunkTable, Target, WriteTable
<1>1. TypeOK /\ cfg \in Configs /\ cfg' = cfg /\ Flow' = Flow
  BY DEF TypeOK, ControlTyped, Flow, DatabaseFlow, SessionFlow, ApiFlow, FrameFlow
<1>Control. ControlTyped'
  BY <1>1, ConfigFacts, FlowFacts DEF TypeOK, ControlTyped, StoreTyped, TablesThere, ReadSoFar
<1>Store. StoreTyped'
  BY <1>1 DEF TypeOK, StoreTyped
<1>Counts. CountsTyped'
  BY <1>1 DEF TypeOK, CountsTyped, Kinds
<1>t. TypeOK'
  BY <1>Control, <1>Store, <1>Counts DEF TypeOK
<1>Known. StagingKnown'
  BY <1>1, <1>t, ConfigFacts, FlowFacts DEF TypeOK, ControlTyped, StoreTyped, ToDrop,
     StagingReclaimed, TablesThere, Tail, Block
<1>RowsMade. RowsMade'
  BY <1>1 DEF RowsMade, Old, Early
<1>TablesThere. TablesThere'
  BY <1>1 DEF TablesThere, Early, Block, Tail
<1>AbortedApart. AbortedApart'
  BY <1>1 DEF AbortedApart
<1>ReadSoFar. ReadSoFar'
  <2>1. Missing' = Missing /\ (pc' = "ok" /\ Missing # {} => "count" \notin cfg.fail)
    BY <1>1, MissingFacts
  <2> HIDE DEF Missing
  <2> QED BY <1>1, <2>1 DEF ReadSoFar, Partly, RowsOf, Retriable, Early, Block, Tail
<1>Vouched. Vouched'
  BY <1>1 DEF Vouched, Settled, Ours, Tail
<1>DestinationKept. DestinationKept'
  BY <1>1 DEF DestinationKept, Old, Ours, InWindow, Block, Retriable
<1>SaidSinceStopped. SaidSinceStopped'
  <2>1. ~cfg.chunked => Batches \ Missing \subseteq KeysOf(Dest)
    <3>1. ~cfg.chunked =>
            \A b \in Batches \ Missing : <<attempt, b>> \in rows[Dest] /\ <<attempt, b>>[2] = b
      BY <1>1 DEF ReadSoFar, Tail
    <3> QED BY <3>1, Zenon DEF KeysOf
  <2>4. Missing' = Missing
    OBVIOUS
  <2>2. pc = "done" /\ stopped = "none" /\ saved = Flow.cursor /\ ~cfg.chunked
    BY <1>1, FlowFacts, ConfigFacts DEF SaidSinceStopped, ReadSoFar, TypeOK, ControlTyped
  <2>3. KeysOf(Dest)' = KeysOf(Dest)
    BY DEF KeysOf
  <2> HIDE DEF Missing
  <2> QED BY <1>1, <2>1, <2>2, <2>3, <2>4 DEF SaidSinceStopped, Retriable
<1>ShrinkSeen. ShrinkSeen'
  BY <1>1 DEF ShrinkSeen
<1>CountsKept. CountsKept'
  BY <1>1 DEF CountsKept, Landed, Repeated, Rewritten, Ours, Retriable, Block
<1>PromotedWhole. PromotedWhole'
  BY <1>1 DEF PromotedWhole, Failing, Ours, Theirs, RowsOf
<1>WrittenOnce. WrittenOnce'
  BY <1>1 DEF WrittenOnce, Ours
<1>NoSilentShrink. NoSilentShrink'
  BY <1>1 DEF NoSilentShrink, Ours
<1>PartialCounted. PartialCounted'
  <2>1. Ours' = Ours /\ Rewritten' = Rewritten /\ late' = late /\ partial' = partial
    BY DEF Ours, Rewritten
  <2>2. CASE ~Staged /\ Flow.counted
    BY <1>1, <1>CountsKept, <2>1, <2>2 DEF PartialCounted, CountsKept
  <2>3. CASE Staged \/ ~Flow.counted
    <3>1. Rewritten = {}
      BY <1>1, <2>3 DEF WrittenOnce, CountsKept, Rewritten, Ours, RowsMade, TypeOK, ControlTyped
    <3>2. Cardinality(Rewritten \ late) = 0
      BY <3>1, FS_EmptySet
    <3> QED BY <1>1, <2>1, <2>3, <3>2 DEF PartialCounted, CountsKept
  <2> QED BY <2>2, <2>3
<1> QED BY <1>t, <1>Known, <1>RowsMade, <1>TablesThere, <1>AbortedApart, <1>ReadSoFar,
    <1>Vouched, <1>DestinationKept, <1>SaidSinceStopped, <1>ShrinkSeen, <1>CountsKept,
    <1>PromotedWhole, <1>WrittenOnce, <1>NoSilentShrink, <1>PartialCounted

\* An attempt that failed is cleaned up after.
LEMMA CleanupKeeps ==
  ASSUME IInv, Cleanup
  PROVE  IInv'
<1> USE Constants, NameFacts DEF IInv, StagingKnown, Cleanup, Doomed, Emptying, EndAttempt,
    control, store, reading, warnings, counters, state, history, Staged, Missing, Staging,
    ChunkTable,
    Target, WriteTable
<1>1. TypeOK /\ cfg \in Configs /\ cfg' = cfg /\ Flow' = Flow
  BY DEF TypeOK, ControlTyped, Flow, DatabaseFlow, SessionFlow, ApiFlow, FrameFlow
<1>k. PICK kept \in SUBSET (Doomed \cap tables) :
        /\ faults + Cardinality(kept) <= MaxFaults
        /\ faults' = faults + Cardinality(kept)
        /\ tables' = tables \ (Doomed \ kept)
        /\ rows' = [t \in Names |-> IF t \in Doomed \ kept THEN {} ELSE rows[t]]
        /\ lost' = lost \cup kept
  BY DEF Doomed
<1>d. Dest \notin Doomed
  BY <1>1 DEF TypeOK, ControlTyped, TablesThere, Doomed
<1>e. /\ pc = "cleanup" /\ cfg' = cfg /\ rows'[Dest] = rows[Dest] /\ late' = late
      /\ aborted' = aborted /\ marker' = marker /\ saved' = saved
      /\ \/ /\ pc' = "setup" /\ attempt' = attempt + 1 /\ attempt' \in 1..MaxAttempts
            /\ partial' = partial + landed /\ landed' = 0 /\ retry
         \/ pc' = "failed" /\ attempt' = attempt /\ partial' = partial /\ landed' = landed
  BY <1>1, <1>k, <1>d DEF TypeOK, ControlTyped
<1>Control. ControlTyped'
  <2>1. IsFiniteSet(kept) /\ Cardinality(kept) \in Nat
    <3>1. IsFiniteSet({open} \cup {Staging})
      BY FS_Singleton, FS_Union
    <3>2. kept \in SUBSET ({open} \cup {Staging})
      BY DEF Doomed
    <3> QED BY <3>1, <3>2, FS_Subset, FS_CardinalityType
  <2>2. faults' \in 0..MaxFaults
    BY <1>1, <1>k, <2>1 DEF TypeOK, ControlTyped
  <2> QED BY <1>1, <1>e, <2>2 DEF TypeOK, ControlTyped
<1>Store. StoreTyped'
  BY <1>1 DEF TypeOK, StoreTyped
<1>Counts. CountsTyped'
  BY <1>1 DEF TypeOK, CountsTyped, Kinds
<1>t. TypeOK'
  BY <1>Control, <1>Store, <1>Counts DEF TypeOK
<1>Known. StagingKnown'
  BY <1>1, <1>t, ConfigFacts, FlowFacts DEF TypeOK, ControlTyped, StoreTyped, ToDrop,
     StagingReclaimed, TablesThere, Tail, Block
<1>RowsMade. RowsMade'
  BY <1>1 DEF RowsMade, Old, Early, TypeOK, ControlTyped, StoreTyped
<1>TablesThere. TablesThere'
  BY <1>1 DEF TablesThere, Early, Block, Tail, TypeOK, ControlTyped, StoreTyped
<1>AbortedApart. AbortedApart'
  BY <1>1, <1>e, ApartStays DEF TypeOK, ControlTyped
<1>ReadSoFar. ReadSoFar'
  BY <1>1, <1>t, ConfigFacts, FlowFacts DEF TypeOK, ControlTyped, StoreTyped, ReadSoFar, Partly,
     RowsOf, Batches, Early, Block, Tail, Retriable, RowsMade, TablesThere
<1>Vouched. Vouched'
  <2>1. Ours' = Ours /\ \A b \in Batches : Settled(b) => Settled(b)'
    BY <1>e, SettledStays DEF Ours
  <2>2. Missing' = Missing
    OBVIOUS
  <2> HIDE DEF Missing
  <2> QED BY <1>e, <2>1, <2>2 DEF Vouched, Tail
<1>DestinationKept. DestinationKept'
  BY <1>1, ConfigFacts DEF DestinationKept, Old, Ours, InWindow, Block, Retriable, TypeOK,
     ControlTyped, ReadSoFar, TablesThere
<1>SaidSinceStopped. SaidSinceStopped'
  BY <1>1, ConfigFacts DEF SaidSinceStopped, Untouched, Ours, KeysOf, Retriable, TypeOK,
     ControlTyped, ReadSoFar, TablesThere
<1>ShrinkSeen. ShrinkSeen'
  BY <1>1 DEF ShrinkSeen
<1>CountsKept. CountsKept'
  <2>1. CASE pc' = "setup"
    <3>1. Retriable /\ Flow.counted
      BY <1>1, <1>e, <2>1, FlowFacts DEF Retriable, CountsKept
    <3> QED BY <1>1, <1>e, <2>1, <3>1, CountsOfNext
  <2>2. CASE pc' = "failed"
    BY <1>1, <1>e, <2>2 DEF CountsKept, Retriable, Block, Landed, Repeated, Rewritten, Ours
  <2> QED BY <1>e, <2>1, <2>2
<1>PromotedWhole. PromotedWhole'
  BY <1>1, <1>e DEF TypeOK, ControlTyped, PromotedWhole, DestinationKept, Retriable, Failing,
     Ours, Theirs, Old
<1>WrittenOnce. WrittenOnce'
  BY <1>1 DEF WrittenOnce, Ours
<1>NoSilentShrink. NoSilentShrink'
  BY <1>1 DEF NoSilentShrink, Ours
<1>PartialCounted. PartialCounted'
  BY <1>1, ConfigFacts DEF TypeOK, ControlTyped, StoreTyped, PartialCounted, Rewritten, Ours,
     CountsKept, ReadSoFar, RowsMade
<1> QED BY <1>t, <1>Known, <1>RowsMade, <1>TablesThere, <1>AbortedApart, <1>ReadSoFar,
    <1>Vouched, <1>DestinationKept, <1>SaidSinceStopped, <1>ShrinkSeen, <1>CountsKept,
    <1>PromotedWhole, <1>WrittenOnce, <1>NoSilentShrink, <1>PartialCounted

\* The process dies.
LEMMA CrashKeeps ==
  ASSUME IInv, Crash
  PROVE  IInv'
<1> USE Constants, NameFacts DEF IInv, StagingKnown, Crash, Fault, Ended, control, store,
    reading, warnings, counters, state, history, Staged, Missing, Staging, ChunkTable,
    Target, WriteTable
<1>1. TypeOK /\ cfg \in Configs /\ cfg' = cfg /\ Flow' = Flow
  BY DEF TypeOK, ControlTyped, Flow, DatabaseFlow, SessionFlow, ApiFlow, FrameFlow
<1>Control. ControlTyped'
  BY <1>1 DEF TypeOK, ControlTyped
<1>Store. StoreTyped'
  BY <1>1 DEF TypeOK, StoreTyped, ControlTyped
<1>Counts. CountsTyped'
  BY <1>1 DEF TypeOK, CountsTyped, Kinds
<1>t. TypeOK'
  BY <1>Control, <1>Store, <1>Counts DEF TypeOK
<1>Known. StagingKnown'
  BY <1>1, <1>t, ConfigFacts, FlowFacts DEF TypeOK, ControlTyped, StoreTyped, ToDrop,
     StagingReclaimed, TablesThere, Tail, Block
<1>RowsMade. RowsMade'
  BY <1>1 DEF RowsMade, Old, Early
<1>TablesThere. TablesThere'
  BY <1>1 DEF TablesThere, Early, Block, Tail
<1>AbortedApart. AbortedApart'
  BY <1>1, AbortsApart DEF TypeOK, StoreTyped
<1>ReadSoFar. ReadSoFar'
  BY <1>1 DEF ReadSoFar, Partly, RowsOf, Retriable, Early, Block, Tail
<1>Vouched. Vouched'
  BY <1>1, AbortsVouched DEF TypeOK, StoreTyped
<1>DestinationKept. DestinationKept'
  BY <1>1 DEF DestinationKept, Old, Ours, InWindow, Block, Retriable
<1>SaidSinceStopped. SaidSinceStopped'
  BY <1>1 DEF SaidSinceStopped, Untouched, Ours, KeysOf, Retriable
<1>ShrinkSeen. ShrinkSeen'
  BY <1>1 DEF ShrinkSeen
<1>CountsKept. CountsKept'
  BY <1>1 DEF CountsKept, Landed, Repeated, Rewritten, Ours, Retriable, Block, TypeOK,
     ControlTyped, StoreTyped
<1>PromotedWhole. PromotedWhole'
  BY <1>1 DEF PromotedWhole, Failing, Ours, Theirs, RowsOf
<1>WrittenOnce. WrittenOnce'
  BY <1>1 DEF WrittenOnce, Ours
<1>NoSilentShrink. NoSilentShrink'
  BY <1>1 DEF NoSilentShrink, Ours
<1>PartialCounted. PartialCounted'
  BY <1>1 DEF PartialCounted, Rewritten, Ours
<1> QED BY <1>t, <1>Known, <1>RowsMade, <1>TablesThere, <1>AbortedApart, <1>ReadSoFar,
    <1>Vouched, <1>DestinationKept, <1>SaidSinceStopped, <1>ShrinkSeen, <1>CountsKept,
    <1>PromotedWhole, <1>WrittenOnce, <1>NoSilentShrink, <1>PartialCounted

\* A transfer starts with a destination as it finds it, and no attempt's rows.
LEMMA InitKeeps ==
  ASSUME Init
  PROVE  IInv
<1> USE Constants, NameFacts DEF Init, Staged, Missing, Staging
<1>1. ControlTyped /\ StoreTyped /\ CountsTyped
  <2>1. retry \in BOOLEAN /\ saved \in BOOLEAN
    BY Zenon
  <2>2. ControlTyped
    BY <2>1 DEF ControlTyped
  <2>3. StoreTyped
    BY <2>1, ConfigFacts DEF StoreTyped
  <2>4. CountsTyped
    BY DEF CountsTyped, Kinds
  <2> QED BY <2>2, <2>3, <2>4
<1>2. Ours = {} /\ rows[Dest] = Old
  BY DEF Ours, Old
<1>3. Rewritten = {} /\ Landed = {} /\ Repeated = {}
  BY <1>2 DEF Rewritten, Landed, Repeated
<1>4. StagingKnown
  BY <1>1 DEF StagingKnown, TypeOK, StagingReclaimed
<1>5. RowsMade /\ TablesThere /\ AbortedApart
  BY <1>1, ConfigFacts DEF RowsMade, TablesThere, AbortedApart, Old, Early, Block, Tail
<1>6. ReadSoFar /\ Vouched
  BY ConfigFacts DEF ReadSoFar, Vouched, Block, Tail, Batches
<1>7. DestinationKept
  BY <1>2 DEF DestinationKept, Block
<1>8. SaidSinceStopped /\ ShrinkSeen
  BY DEF SaidSinceStopped, ShrinkSeen
<1>9. CountsKept /\ PartialCounted
  BY <1>2, <1>3, FS_EmptySet DEF CountsKept, PartialCounted
<1>10. PromotedWhole /\ WrittenOnce /\ NoSilentShrink
  BY <1>2 DEF PromotedWhole, WrittenOnce, NoSilentShrink, Theirs, Old
<1> QED BY <1>4, <1>5, <1>6, <1>7, <1>8, <1>9, <1>10 DEF IInv

\* Nothing changes when the process takes no step.
LEMMA StutterKeeps ==
  ASSUME IInv, UNCHANGED vars
  PROVE  IInv'
<1> USE DEF vars, control, store, reading, warnings, counters, state, history,
    Staged, Missing, Staging
<1>1. StagingKnown'
  BY DEF IInv, StagingKnown, TypeOK, ControlTyped, StoreTyped, CountsTyped, ToDrop,
         StagingReclaimed
<1>2. RowsMade' /\ TablesThere' /\ AbortedApart'
  BY DEF IInv, RowsMade, TablesThere, AbortedApart, Old, ChunkTable
<1>3. Flow' = Flow /\ Ours' = Ours /\ Theirs' = Theirs /\ Rewritten' = Rewritten
  BY DEF Flow, DatabaseFlow, SessionFlow, ApiFlow, FrameFlow, Ours, Theirs, Rewritten
<1>4. ReadSoFar'
  BY <1>3 DEF IInv, ReadSoFar, Partly, WriteTable, Target, ChunkTable, RowsOf, Retriable
<1>5. Vouched' /\ DestinationKept'
  BY <1>3 DEF IInv, Vouched, Settled, DestinationKept, Old, Retriable, InWindow
<1>6. SaidSinceStopped' /\ ShrinkSeen'
  BY <1>3 DEF IInv, SaidSinceStopped, Untouched, KeysOf, Retriable, ShrinkSeen
<1>7. Landed' = Landed /\ Repeated' = Repeated
  BY <1>3 DEF Landed, Repeated
<1>8. CountsKept' /\ PartialCounted'
  BY <1>3, <1>7 DEF IInv, CountsKept, PartialCounted, Retriable
<1>9. PromotedWhole' /\ WrittenOnce' /\ NoSilentShrink'
  BY <1>3 DEF IInv, PromotedWhole, Failing, RowsOf, WrittenOnce, NoSilentShrink
<1> QED BY <1>1, <1>2, <1>4, <1>5, <1>6, <1>8, <1>9 DEF IInv

\* A run that cannot resume from a marker has none, so every setup begins
\* after it.
LEMMA SetupKeeps ==
  ASSUME IInv, SetupDatabase \/ SetupSession \/ SetupApi \/ SetupFrame
  PROVE  IInv'
<1>1. cfg.flow # "database" => marker = 0
  BY ConfigFacts DEF IInv, StagingKnown, TypeOK, ControlTyped, ReadSoFar
<1>2. Begin(marker)
  BY <1>1 DEF SetupDatabase, Resume, SetupSession, SetupApi, SetupFrame, Begin
<1> QED BY <1>2, BeginKeeps

\* IInv is inductive.
LEMMA NextKeeps ==
  ASSUME IInv, [Next]_vars
  PROVE  IInv'
<1>1. CASE Attempt
  BY <1>1, SetupKeeps, PrepareKeeps, SendKeeps, EndReadKeeps, LandsKeeps, OpenChunkKeeps,
     CheckChunkKeeps, CommitChunkKeeps, MarkKeeps, NothingStagedKeeps, VetoKeeps,
     ApproveSwapKeeps, ApprovePromotionKeeps, DeleteStaleKeeps, PromoteKeeps,
     DropStagingKeeps, SaveCursorKeeps, CheckDoneKeeps, CleanupKeeps
     DEF Attempt
<1>2. CASE Failure
  BY <1>2, SetupFailsKeeps, PrepareFailsKeeps, OpenFailsKeeps, ReadFailsKeeps,
     CommitFailsKeeps, MarkFailsKeeps, ApproveUncountedKeeps, PromoteFailsKeeps,
     DropFailsKeeps, SaveFailsKeeps, CrashKeeps, LandsShortKeeps
     DEF Failure
<1>3. CASE \E w \in aborted : LandsLate(w)
  BY <1>3, LandsLateKeeps
<1>4. CASE UNCHANGED vars
  BY <1>4, StutterKeeps
<1> QED BY <1>1, <1>2, <1>3, <1>4 DEF Next, Returned

\* Every state of a transfer satisfies IInv.
THEOREM TransferInvariant == Spec => []IInv
<1>1. Init => IInv
  BY InitKeeps
<1>2. IInv /\ [Next]_vars => IInv'
  BY NextKeeps
<1> QED BY <1>1, <1>2, PTL DEF Spec

\* The tables there are beside the destination are those the attempt still has
\* to drop, or no drop will reach (staging_name, ChunkStager, cleanup_staging).
THEOREM StagingIsKnown == Spec => []StagingKnown
<1>1. IInv => StagingKnown
  BY DEF IInv
<1> QED BY <1>1, TransferInvariant, PTL

\* A staged run changes the destination by the whole of one attempt or not at
\* all (promote_staged_incremental, atomic_swap).
THEOREM PromotionIsWhole == Spec => []PromotedWhole
<1>1. IInv => PromotedWhole
  BY DEF IInv
<1> QED BY <1>1, TransferInvariant, PTL

\* A run that stages writes no batch twice, whatever is retried
\* (Sink::stage_for_retries).
THEOREM StagedIsWrittenOnce == Spec => []WrittenOnce
<1>1. IInv => WrittenOnce
  BY DEF IInv
<1> QED BY <1>1, TransferInvariant, PTL

\* What a marker, the cursor or a run's success vouches for is in the
\* destination (transfer_keyset_postgres, persist_chunk_cursor).
THEOREM SavedIsWritten == Spec => []SavedMeansWritten
<1>1. IInv => SavedMeansWritten
  <2> SUFFICES ASSUME IInv, NEW b \in Batches, saved \/ pc \in {"done", "ok"} \/ b <= marker
               PROVE  \/ \E a \in 1..attempt : <<a, b>> \in rows[Dest]
                      \/ /\ cfg.append /\ b \in Missing /\ "count" \in raised
                         /\ pc = "ok" => "count" \notin cfg.fail
    BY DEF SavedMeansWritten
  <2>m. CASE b \in Missing
    BY <2>m, MissingFacts DEF IInv, StagingKnown, ReadSoFar
  <2>n. CASE b \notin Missing
    <3>1. PICK s \in Ours : s[2] = b
      BY <2>n DEF IInv, Vouched, Settled, Tail
    <3>2. s = <<s[1], b>> /\ s[1] \in 1..attempt /\ s \in rows[Dest]
      BY <3>1, NameFacts, Constants DEF IInv, RowsMade, Ours, StagingKnown, TypeOK, ControlTyped
    <3> QED BY <3>2
  <2> QED BY <2>m, <2>n
<1> QED BY <1>1, TransferInvariant, PTL

\* The error of a run that fail_on_warnings stopped says what the attempt left
\* behind (Before::describe, fatal_warning_error).
THEOREM StopIsAsSaid == Spec => []StoppedAsSaid
<1>1. IInv => StoppedAsSaid
  BY DEF IInv, SaidSinceStopped, StoppedAsSaid
<1> QED BY <1>1, TransferInvariant, PTL

\* rows_written_failed_attempts is the number of rows that attempts wrote and a
\* later one wrote again, but for inserts applied unanswered.
THEOREM PartialIsCounted == Spec => []PartialCounted
<1>1. IInv => PartialCounted
  BY DEF IInv
<1> QED BY <1>1, TransferInvariant, PTL

\* A full refresh does not shrink the destination unsaid
\* (guard_full_refresh_shrink before check_fatal).
THEOREM ShrinkIsTold == Spec => []NoSilentShrink
<1>1. IInv => NoSilentShrink
  BY DEF IInv
<1> QED BY <1>1, TransferInvariant, PTL

====
