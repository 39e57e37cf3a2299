----------------------- MODULE IncrementalSync_proofs -----------------------
(***************************************************************************)
(* Proofs about IncrementalSync, for every value of its constants: IInv is *)
(* an inductive invariant of every configuration Sound admits.  One lemma  *)
(* per action, under it one step per conjunct of IInv.                     *)
(***************************************************************************)
EXTENDS IncrementalSyncInv, FiniteSetTheorems, WellFoundedInduction, TLAPS

\* What the proofs need of the constants.
LEMMA Constants ==
  /\ None \notin Int
  /\ Lookback \in Nat
  /\ Lag \in Nat
  /\ Keys \subseteq Int
  /\ Selected \subseteq Keys
  /\ InitialRows \subseteq Keys
  BY ConstantTypes

\* Membership in a set with None in it, as a case split.
LEMMA CursorCases == \A c : c \in Cursors <=> c = None \/ c \in Int
  BY Zenon DEF Cursors

\* A marker-or-None is a marker or None.
LEMMA MarkerCases == \A m : m \in Markers <=> m = None \/ m \in Marks
  BY Zenon DEF Markers

\* What the type invariant says of the numbers among the variables.
LEMMA Types ==
  ASSUME TypeOK
  PROVE  /\ now \in Nat /\ started \in Nat /\ stage_secs \in Nat /\ first \in Nat
         /\ committed # None => committed \in Int
         /\ last # None => last \in Int
         /\ upper # None => upper \in Int
         /\ snapMax # None => snapMax \in Int
         /\ seen # None => seen \in Int
         /\ best # None => best \in Int
         /\ \A k \in Keys :
              /\ src[k].at \in Nat /\ dest[k] \in Nat /\ buf[k] \in Nat
              /\ src[k].wm # None => src[k].wm \in Int
         /\ marker # None => marker.cursor \in Keys
         /\ marker # None /\ marker.upper # None => marker.upper \in Int
         /\ resume # None => resume.cursor \in Keys
         /\ resume # None /\ resume.upper # None => resume.upper \in Int
         /\ pos # None => pos \in Keys
  BY CursorCases, MarkerCases DEF TypeOK, Rows, Marks

-----------------------------------------------------------------------------
(* The largest watermark of a set of rows.                                  *)

\* A set of naturals has a least element.
LEMMA NatMin == ASSUME NEW T \in SUBSET Nat, T # {}
                PROVE  \E x \in T : \A y \in T : x <= y
<1> DEFINE R == {ss \in Nat \X Nat : ss[1] < ss[2]}
<1>1. IsWellFoundedOn(R, Nat)
  BY NatLessThanWellFounded DEF OpToRel
<1>2. PICK x \in T : \A y \in T : ~(<<y, x>> \in R)
  BY <1>1, WFMin
<1>3. ASSUME NEW y \in T PROVE x <= y
  <2>1. <<y, x>> \in Nat \X Nat
    OBVIOUS
  <2>2. ~(y < x)
    BY <1>2, <2>1
  <2> QED BY <2>2
<1> QED BY <1>2, <1>3

\* Max of a bounded set of integers is its maximum.
LEMMA IntMax == ASSUME NEW S \in SUBSET Int, S # {},
                       NEW b \in Int, \A s \in S : s <= b
                PROVE  Max(S) \in S /\ \A s \in S : s <= Max(S)
<1> DEFINE T == {n \in Nat : b - n \in S}
<1>1. ASSUME NEW s \in S PROVE b - s \in T
  <2>1. b - s \in Nat /\ b - (b - s) = s
    OBVIOUS
  <2> QED BY <2>1
<1>2. PICK x \in T : \A y \in T : x <= y
  BY <1>1, NatMin
<1>3. ASSUME NEW s \in S PROVE s <= b - x
  <2>1. x <= b - s /\ x \in Nat
    BY <1>1, <1>2
  <2> HIDE DEF T
  <2> QED BY <2>1
<1>4. \E m \in S : \A s \in S : m >= s
  BY <1>2, <1>3
<1> QED BY <1>4 DEF Max

\* What the MAX probe returns: None when no row holds a watermark, else the
\* largest one.
LEMMA MaxWatermarkIs ==
  ASSUME TypeOK, Clock, NEW rows \in SUBSET Keys
  PROVE  LET m == MaxWatermark(rows)
         IN /\ m \in Cursors
            /\ m # None => m <= now /\ \E k \in rows : src[k].wm = m
            /\ \A k \in rows : src[k].wm # None => m # None /\ src[k].wm <= m
<1> DEFINE stamps == {src[k].wm : k \in rows} \ {None}
<1>1. now \in Int /\ stamps \in SUBSET Int /\ \A s \in stamps : s <= now
  BY Types DEF Clock
<1>2. MaxWatermark(rows) = IF stamps = {} THEN None ELSE Max(stamps)
  BY DEF MaxWatermark
<1>3. CASE stamps = {}
  <2>1. \A k \in rows : src[k].wm = None
    BY <1>3
  <2> QED BY <1>2, <1>3, <2>1, CursorCases
<1>4. CASE stamps # {}
  <2>1. Max(stamps) \in stamps /\ \A s \in stamps : s <= Max(stamps)
    BY <1>1, <1>4, IntMax
  <2>2. MaxWatermark(rows) = Max(stamps)
    BY <1>2, <1>4
  <2>3. Max(stamps) \in Int /\ Max(stamps) # None
    BY <1>1, <2>1, Constants
  <2>4. \E k \in rows : src[k].wm = Max(stamps)
    BY <2>1
  <2>5. \A k \in rows : src[k].wm # None => src[k].wm \in stamps
    OBVIOUS
  <2> HIDE DEF stamps
  <2> QED BY <1>1, <2>1, <2>2, <2>3, <2>4, <2>5, CursorCases
<1> QED BY <1>3, <1>4

\* What the statements of a read leave out stays so while the rows and the
\* bound do.
LEMMA SpannedStays ==
  ASSUME Spanned, UNCHANGED <<cfg, src, span, spans_statements, upper, first>>,
         pc' \in Split => pc \in Split
  PROVE  Spanned'
  BY DEF Spanned, Owed, Chunked

-----------------------------------------------------------------------------
(* The environment's actions.                                               *)

\* A read whose cursor no MAX bounds covers every key the sync selects.
LEMMA UnboundedSpan ==
  ASSUME IInv, Sound, pc \in Split, upper = None, Tracked
  PROVE  Selected \subseteq span
<1> USE Constants DEF IInv
<1>1. SoundFor(cfg) /\ cfg.from \in {"table_max", "stream"}
  BY ConstantTypes DEF Sound, TypeOK, Config, CursorSources, Tracked
<1>2. CASE cfg.mode # "windows"
  BY <1>2 DEF Spanned
<1>3. CASE NoNewKeys
  BY <1>3 DEF Spanned
<1>4. CASE cfg.from = "table_max" /\ SourceNeverEmpty
  BY <1>4 DEF RunPlan, Bounded, Planned, Split, Reading
<1> QED BY <1>1, <1>2, <1>3, <1>4 DEF SoundFor, Tracked

\* A change of a row preserves the invariant: it is later than every cursor,
\* bound and watermark read so far, less the lookback.
LEMMA ChangeKeeps == ASSUME IInv, Sound, NEW k \in Keys, Change(k) PROVE IInv'
<1> USE Constants, Types DEF IInv
<1>1. PICK stamp \in (now + 1 - Lag)..(now + 1) :
        src' = [src EXCEPT ![k] = [wm |-> stamp, at |-> now + 1]]
  BY DEF Change
<1>2. now \in Nat /\ now' = now + 1 /\ stamp \in Int
  BY DEF Change
<1>3. stamp <= now' /\ stamp + Lookback > now
  BY <1>2 DEF Sound
<1>4. /\ src' \in [Keys -> Rows]
      /\ src'[k].wm = stamp /\ src'[k].at = now + 1
      /\ \A j \in Keys : j # k => src'[j] = src[j]
  <2>1. [wm |-> stamp, at |-> now + 1] \in Rows
    BY <1>2, CursorCases DEF Rows
  <2> QED BY <1>1, <2>1 DEF TypeOK
<1>5. UNCHANGED <<cfg, store, state, pc, plan, read, retry>>
  BY DEF Change
<1> USE <1>5 DEF store, state, plan, read, retry
<1>6. TypeOK'
  BY <1>2, <1>4 DEF TypeOK
<1>7. Clock'
  BY <1>2, <1>3, <1>4 DEF Clock
<1>8. Versions'
  <2>1. dest[k] <= now + 1 /\ buf[k] <= now + 1
    BY <1>2 DEF Clock
  <2> QED BY <1>2, <1>4, <2>1 DEF Versions
<1>9. StateRow' /\ RunPlan' /\ Spanned' /\ ReadPlan'
  <2>1. \A j \in InitialRows : src[j].wm # None => src'[j].wm # None
    BY <1>2, <1>4
  <2>2. StateRow'
    BY <1>2, <1>4, <2>1 DEF StateRow, Chunked
  <2>3. RunPlan'
    BY DEF RunPlan, Chunked, Pinned
  <2>4. ReadPlan'
    BY DEF ReadPlan, Chunked
  <2>5. Spanned'
    <3> SUFFICES ASSUME pc \in Split, NEW j \in Owed' \ span
                 PROVE  /\ src'[j].at > first
                        /\ upper # None => src'[j].wm + Lookback > upper
      BY DEF Spanned, Chunked
    <3>1. CASE j = k
      BY <1>2, <1>3, <1>4, <3>1 DEF Clock
    <3>2. CASE j # k
      BY <1>4, <3>2 DEF Spanned, Owed
    <3> QED BY <3>1, <3>2
  <2> QED BY <2>2, <2>3, <2>4, <2>5
<1>10. /\ committed # None => stamp + Lookback > committed
       /\ last # None => stamp + Lookback > last
       /\ upper # None => stamp + Lookback > upper
       /\ seen # None => stamp + Lookback > seen
       /\ marker # None /\ marker.upper # None => stamp + Lookback > marker.upper
  BY <1>2, <1>3 DEF Clock
<1>11. NoLostUpdate'
  BY <1>4, <1>10 DEF NoLostUpdate, CoveredFrom, Owed, Current
<1>12. MarkerVouches'
  BY <1>4, <1>10 DEF MarkerVouches, Owed, Current
<1>13. ReadCovers'
  <2> SUFFICES ASSUME pc \in Reading, ~KeepCommitted, upper # None \/ Tracked,
                      NEW j \in Owed'
               PROVE  (InHand(j) \/ Settled(j) \/ StillDue(j))'
    BY DEF ReadCovers, KeepCommitted, Tracked
  <2>1. CASE j # k
    <3>1. j \in Owed /\ src'[j] = src[j]
      BY <1>4, <2>1 DEF Owed
    <3>2. InHand(j) \/ Settled(j) \/ StillDue(j)
      BY <3>1 DEF ReadCovers
    <3> QED BY <3>1, <3>2 DEF InHand, Current, Settled, StillDue, InFilter, ReturnsNull, Pinned
  <2>2. CASE j = k
    <3>1. CASE upper # None
      BY <1>4, <1>10, <2>2, <3>1 DEF Settled
    <3>2. CASE upper = None /\ ~spans_statements /\ todo # {}
      <4>1. k \in todo
        BY <2>2, <3>2, UnboundedSpan DEF ReadPlan, Split, Owed
      <4> QED BY <1>2, <1>4, <1>10, <2>2, <3>2, <4>1 DEF StillDue, InFilter
    <3>3. CASE upper = None /\ ~spans_statements /\ todo = {}
      BY <1>4, <1>10, <2>2, <3>3 DEF Settled
    <3>4. CASE upper = None /\ spans_statements
      <4>1. cfg.mode # "single"
        BY <3>4 DEF Spanned, Split, Chunked
      <4>2. Lag = 0
        BY <3>4, <4>1 DEF TypeOK, Sound, SoundFor, Tracked
      <4>3. stamp = now + 1 /\ started <= now
        BY <1>2, <1>3, <4>2 DEF Clock
      <4> QED BY <1>2, <1>4, <2>2, <3>4, <4>3 DEF Settled
    <3> QED BY <3>1, <3>2, <3>3, <3>4
  <2> QED BY <2>1, <2>2
<1>14. ReadDelivers'
  <2>1. ~(src'[k].at <= first)
    BY <1>2, <1>4 DEF Clock
  <2>2. ASSUME NEW j \in Owed', src'[j].at <= first PROVE j \in Owed /\ src'[j] = src[j]
    BY <1>4, <2>1, <2>2 DEF Owed
  <2> QED BY <2>2 DEF ReadDelivers, InHand, Current, StillDue, InFilter,
                      ReturnsNull, Pinned
<1> QED BY <1>6, <1>7, <1>8, <1>9, <1>11, <1>12, <1>13, <1>14

\* A deletion preserves the invariant: it owes nothing.
LEMMA DeleteKeeps == ASSUME IInv, Sound, NEW k \in Keys, Delete(k) PROVE IInv'
<1> USE Constants, Types DEF IInv
<1>1. now \in Nat /\ now' = now + 1 /\ src' = [src EXCEPT ![k] = Absent]
  BY DEF Delete
<1>2. /\ src' \in [Keys -> Rows]
      /\ src'[k].wm = None /\ src'[k].at = 0
      /\ \A j \in Keys : j # k => src'[j] = src[j]
  <2>1. Absent \in Rows
    BY CursorCases DEF Absent, Rows
  <2> QED BY <1>1, <2>1 DEF TypeOK, Absent
<1>3. UNCHANGED <<cfg, store, state, pc, plan, read, retry>>
  BY DEF Delete
<1> USE <1>3 DEF store, state, plan, read, retry
<1>4. \A j \in Owed' : j \in Owed /\ j \in Keys /\ src'[j] = src[j]
  BY <1>2 DEF Owed
<1>5. TypeOK'
  BY <1>1, <1>2 DEF TypeOK
<1>6. Clock'
  BY <1>1, <1>2 DEF Clock
<1>7. Versions'
  BY <1>2 DEF Versions
<1>8. StateRow' /\ RunPlan' /\ Spanned' /\ ReadPlan'
  <2>1. ~SourceNeverEmpty /\ ~NoNewKeys
    BY DEF Delete, SourceNeverEmpty, NoNewKeys
  <2>2. StateRow'
    BY <2>1 DEF StateRow, Chunked
  <2>3. RunPlan'
    BY DEF RunPlan, Chunked, Pinned
  <2>4. ReadPlan'
    BY DEF ReadPlan, Chunked
  <2>5. Spanned'
    BY <1>4 DEF Spanned, Chunked
  <2> QED BY <2>2, <2>3, <2>4, <2>5
<1>9. NoLostUpdate'
  BY <1>4 DEF NoLostUpdate, CoveredFrom, Current
<1>10. MarkerVouches'
  BY <1>4 DEF MarkerVouches, Current
<1>11. ReadCovers'
  BY <1>4 DEF ReadCovers, KeepCommitted, Tracked, InHand, Current, Settled,
              StillDue, InFilter, ReturnsNull, Pinned
<1>12. ReadDelivers'
  BY <1>4 DEF ReadDelivers, InHand, Current, StillDue, InFilter, ReturnsNull, Pinned
<1> QED BY <1>5, <1>6, <1>7, <1>8, <1>9, <1>10, <1>11, <1>12

\* So does the passing of time.
LEMMA TickKeeps == ASSUME IInv, Sound, Tick PROVE IInv'
<1> USE Constants, Types DEF IInv
<1>1. now \in Nat /\ now' = now + 1
  BY DEF Tick
<1>2. UNCHANGED <<cfg, src, store, state, pc, plan, read, retry>>
  BY DEF Tick
<1> USE <1>2 DEF store, state, plan, read, retry
<1>3. TypeOK'
  BY <1>1 DEF TypeOK
<1>4. Clock'
  BY <1>1 DEF Clock
<1>5. Versions' /\ StateRow' /\ RunPlan' /\ Spanned' /\ ReadPlan'
  BY SpannedStays DEF Versions, StateRow, RunPlan, ReadPlan, Chunked, Pinned
<1>6. NoLostUpdate' /\ MarkerVouches'
  BY DEF NoLostUpdate, CoveredFrom, MarkerVouches, Owed, Current
<1>7. ReadCovers' /\ ReadDelivers'
  BY DEF ReadCovers, ReadDelivers, KeepCommitted, Tracked, Owed, InHand, Current,
         Settled, StillDue, InFilter, ReturnsNull, Pinned
<1> QED BY <1>3, <1>4, <1>5, <1>6, <1>7

\* So does a drop of the destination between runs: the next one sets aside
\* what the state row says of it.
LEMMA DropKeeps == ASSUME IInv, Sound, DropDestination PROVE IInv'
<1> USE Constants, Types DEF IInv
<1>1. /\ CanDrop /\ pc = "idle" /\ pc' = "idle"
      /\ ~destExists'
      /\ dest' \in [Keys -> Nat] /\ \A k \in Keys : dest'[k] = 0
      /\ faults' \in 0..MaxFaults
  BY ConstantTypes DEF DropDestination, NoRows, TypeOK
<1>2. UNCHANGED <<source, state, pc, plan, read, first, attempt>>
  BY DEF DropDestination
<1> USE <1>2 DEF source, state, plan, read
<1>3. TypeOK'
  BY <1>1 DEF TypeOK, DropDestination
<1>4. Clock'
  BY <1>1 DEF Clock
<1>5. Versions'
  BY <1>1 DEF Versions
<1>6. StateRow'
  <2>1. cfg.advance
    BY <1>1 DEF Sound, SoundFor, TypeOK
  <2> QED BY <1>1, <2>1 DEF StateRow, Chunked
<1>7. RunPlan'
  BY <1>1 DEF RunPlan, Chunked, Pinned, Planned, Bounded
<1>8. Spanned' /\ ReadPlan'
  BY <1>1 DEF Spanned, ReadPlan, Chunked, Split, Reading
<1>9. NoLostUpdate' /\ MarkerVouches'
  BY <1>1 DEF NoLostUpdate, MarkerVouches
<1>10. ReadCovers' /\ ReadDelivers'
  BY <1>1 DEF ReadCovers, ReadDelivers, Reading
<1> QED BY <1>3, <1>4, <1>5, <1>6, <1>7, <1>8, <1>9, <1>10

-----------------------------------------------------------------------------
(* The steps of a run before it reads.                                      *)

\* A run that begins knows nothing yet.
LEMMA BeginKeeps == ASSUME IInv, Sound, Begin PROVE IInv'
<1> USE Constants, Types DEF IInv
<1>1. /\ pc = "idle" /\ pc' = "cursor"
      /\ first' = now /\ attempt' = 1 /\ attempt' \in 1..MaxAttempts
  BY ConstantTypes DEF Begin
<1>2. UNCHANGED <<source, store, state, plan, read, faults>>
  BY DEF Begin
<1> USE <1>2 DEF source, store, state, plan, read
<1>3. TypeOK'
  BY <1>1 DEF TypeOK, Steps
<1>4. Clock'
  BY <1>1 DEF Clock
<1>5. Versions' /\ StateRow'
  BY <1>1 DEF Versions, StateRow, Chunked
<1>6. RunPlan' /\ Spanned' /\ ReadPlan'
  BY <1>1 DEF RunPlan, Spanned, ReadPlan, Chunked, Pinned, Early, Planned, Bounded,
              Split, Reading
<1>7. NoLostUpdate' /\ MarkerVouches'
  BY DEF NoLostUpdate, CoveredFrom, MarkerVouches, Owed, Current
<1>8. ReadCovers' /\ ReadDelivers'
  BY <1>1 DEF ReadCovers, ReadDelivers, Reading
<1> QED BY <1>3, <1>4, <1>5, <1>6, <1>7, <1>8

\* It starts from the committed cursor.
LEMMA ReadCursorKeeps == ASSUME IInv, Sound, ReadCursor PROVE IInv'
<1> USE Constants, Types DEF IInv
<1>1. pc = "cursor" /\ pc' = "marker" /\ last' = committed
  BY DEF ReadCursor
<1>2. UNCHANGED <<source, store, state, resume, discarded, upper, snapMax, span,
                  spans_statements, read, retry>>
  BY DEF ReadCursor
<1> USE <1>2 DEF source, store, state, read, retry
<1>3. TypeOK'
  BY <1>1 DEF TypeOK, Steps
<1>4. Clock'
  BY <1>1 DEF Clock
<1>5. Versions' /\ StateRow'
  BY <1>1 DEF Versions, StateRow, Chunked
<1>6. RunPlan' /\ Spanned' /\ ReadPlan'
  BY <1>1 DEF RunPlan, Spanned, ReadPlan, Chunked, Pinned, Early, Planned, Bounded,
              Split, Reading
<1>7. NoLostUpdate' /\ MarkerVouches'
  BY DEF NoLostUpdate, CoveredFrom, MarkerVouches, Owed, Current
<1>8. ReadCovers' /\ ReadDelivers'
  BY <1>1 DEF ReadCovers, ReadDelivers, Reading
<1> QED BY <1>3, <1>4, <1>5, <1>6, <1>7, <1>8

\* A discarded state is one of a destination that is not there.
LEMMA ReadMarkerKeeps == ASSUME IInv, Sound, ReadMarker PROVE IInv'
<1> USE Constants, Types DEF IInv
<1> DEFINE found == IF Chunked THEN marker ELSE None
           stale == (last # None \/ found # None) /\ ~destExists
<1>1. /\ pc = "marker" /\ pc' = "probe"
      /\ discarded' = stale
      /\ last' = IF stale THEN None ELSE last
      /\ resume' = IF stale THEN None ELSE found
  BY DEF ReadMarker
<1>2. UNCHANGED <<source, store, state, upper, snapMax, span, spans_statements,
                  read, retry>>
  BY DEF ReadMarker
<1>3. found = marker /\ last = committed
  BY <1>1 DEF StateRow, RunPlan
<1> USE <1>2 DEF source, store, state, read, retry
<1> HIDE DEF found, stale
<1>4. stale \in BOOLEAN /\ (stale <=> (committed # None \/ marker # None) /\ ~destExists)
  BY <1>3 DEF stale
<1>5. TypeOK'
  <2>1. None \in Cursors /\ None \in Markers
    BY CursorCases, MarkerCases
  <2> QED BY <1>1, <1>3, <1>4, <2>1 DEF TypeOK, Steps
<1>6. Clock'
  BY <1>1, <1>3 DEF Clock
<1>7. Versions'
  BY DEF Versions
<1>8. StateRow'
  BY <1>1, <1>4 DEF StateRow, Chunked
<1>9. RunPlan'
  BY <1>1, <1>3, <1>4 DEF RunPlan, StateRow, Chunked, Pinned, Early, Planned, Bounded
<1>10. Spanned' /\ ReadPlan'
  BY <1>1 DEF Spanned, ReadPlan, Chunked, Split, Reading
<1>11. NoLostUpdate' /\ MarkerVouches'
  BY DEF NoLostUpdate, CoveredFrom, MarkerVouches, Owed, Current
<1>12. ReadCovers' /\ ReadDelivers'
  BY <1>1 DEF ReadCovers, ReadDelivers, Reading
<1> QED BY <1>5, <1>6, <1>7, <1>8, <1>9, <1>10, <1>11, <1>12

\* The bound a read is held to is the one its marker froze, or a MAX no row
\* from before the run is above.
LEMMA ProbeKeeps == ASSUME IInv, Sound, Probe PROVE IInv'
<1> USE Constants, Types DEF IInv
<1>1. /\ pc = "probe"
      /\ pc' = "bounds"
      /\ snapMax' = CASE cfg.from = "max" -> MaxWatermark(Selected)
                      [] cfg.from = "table_max" -> MaxWatermark(Keys)
                      [] cfg.from = "stream" -> None
      /\ upper' = IF Pinned THEN resume.upper ELSE snapMax'
  BY DEF Probe
<1>2. UNCHANGED <<source, store, state, last, resume, discarded, span,
                  spans_statements, read, retry>>
  BY DEF Probe
<1> USE <1>2 DEF source, store, state, read, retry
<1>3. cfg.from \in {"max", "table_max", "stream"}
  BY ConstantTypes DEF TypeOK, Config, CursorSources
<1>4. /\ snapMax' \in Cursors
      /\ snapMax' # None => snapMax' \in Int /\ snapMax' <= now
      /\ cfg.from = "stream" => snapMax' = None
      /\ cfg.from # "stream" =>
           \A k \in Selected : src[k].wm # None => snapMax' # None /\ src[k].wm <= snapMax'
  <2>1. CASE cfg.from = "stream"
    BY <1>1, <2>1, CursorCases
  <2>2. CASE cfg.from = "max"
    <3>1. snapMax' = MaxWatermark(Selected)
      BY <1>1, <2>2
    <3> QED BY <2>2, <3>1, MaxWatermarkIs, CursorCases
  <2>3. CASE cfg.from = "table_max"
    <3>1. snapMax' = MaxWatermark(Keys)
      BY <1>1, <2>3
    <3> QED BY <2>3, <3>1, MaxWatermarkIs, CursorCases
  <2> QED BY <1>3, <2>1, <2>2, <2>3
<1>5. Pinned <=> resume # None /\ resume.upper # None
  BY DEF Pinned
<1>6. TypeOK'
  <2>1. upper' \in Cursors
    BY <1>1, <1>4, <1>5, CursorCases
  <2> QED BY <1>1, <1>4, <2>1 DEF TypeOK, Steps
<1>7. Clock'
  BY <1>1, <1>4, <1>5 DEF Clock
<1>8. Versions'
  BY DEF Versions
<1>9. StateRow'
  BY <1>1 DEF StateRow, RunPlan, Planned, Chunked
<1>10. RunPlan'
  <2>1. SourceNeverEmpty => \E k \in Selected : src[k].wm # None
    BY DEF SourceNeverEmpty, StateRow
  <2>2. cfg.from # "stream" /\ SourceNeverEmpty => upper' # None
    BY <1>1, <1>4, <1>5, <2>1
  <2>3. upper' = IF Pinned' THEN resume'.upper ELSE snapMax'
    BY <1>1 DEF Pinned
  <2> QED BY <1>1, <1>4, <2>2, <2>3 DEF RunPlan, Chunked, Early, Planned, Bounded
<1>11. Spanned' /\ ReadPlan'
  <2>1. seen = None
    BY <1>1 DEF RunPlan, Early
  <2> QED BY <1>1, <2>1 DEF Spanned, ReadPlan, Chunked, Split, Reading
<1>12. NoLostUpdate' /\ MarkerVouches'
  BY DEF NoLostUpdate, CoveredFrom, MarkerVouches, Owed, Current
<1>13. ReadCovers'
  BY <1>1 DEF ReadCovers, Reading
<1>14. ReadDelivers'
  <2>1. resume = None /\ upper' # None =>
          \A k \in Owed : src[k].wm <= upper'
    BY <1>1, <1>4, <1>5 DEF Owed
  <2> QED BY <1>1, <2>1 DEF ReadDelivers, Owed, Reading
<1> QED BY <1>6, <1>7, <1>8, <1>9, <1>10, <1>11, <1>12, <1>13, <1>14

\* Ranges split between a MIN and a MAX hold every row of the source.
LEMMA ProbeBoundsKeeps == ASSUME IInv, Sound, ProbeBounds PROVE IInv'
<1> USE Constants, Types DEF IInv
<1>1. /\ pc = "bounds"
      /\ pc' = IF discarded /\ cfg.advance THEN "clear" ELSE "prepare"
      /\ UNCHANGED <<source, store, state, last, resume, discarded, upper, snapMax,
                     read, retry>>
  BY DEF ProbeBounds
<1> USE <1>1 DEF source, store, state, read, retry
<1>2. /\ span' \subseteq Keys
      /\ spans_statements' \in BOOLEAN
      /\ cfg.mode # "windows" => span' = Keys /\ spans_statements' = Chunked
      /\ \A k \in Selected : src[k].at # 0 => k \in span'
  <2>1. CASE span' = Keys /\ spans_statements' = Chunked
    BY <2>1 DEF Chunked
  <2>2. ASSUME cfg.mode = "windows", NEW relation \in {Keys, Selected},
               span' = {k \in Keys : \E lo, hi \in {j \in relation : src[j].at # 0} :
                                      lo <= k /\ k <= hi}
        PROVE  /\ span' \subseteq Keys
               /\ \A k \in Selected : src[k].at # 0 => k \in span'
    BY <2>2
  <2> QED BY <2>1, <2>2 DEF ProbeBounds
<1>3. TypeOK'
  BY <1>2 DEF TypeOK, Steps
<1>4. Clock' /\ Versions'
  BY DEF Clock, Versions
<1>5. StateRow'
  BY DEF StateRow, RunPlan, Planned, Chunked
<1>6. RunPlan'
  BY DEF RunPlan, Chunked, Pinned, Early, Planned, Bounded
<1>7. Spanned'
  <2>1. NoNewKeys => Selected \subseteq span'
    BY <1>2 DEF StateRow
  <2>2. \A k \in Owed : k \in span'
    BY <1>2 DEF Owed, Clock
  <2> QED BY <1>2, <2>1, <2>2 DEF Spanned, Owed, Chunked
<1>8. ReadPlan'
  BY DEF ReadPlan, Chunked, Reading
<1>9. NoLostUpdate' /\ MarkerVouches'
  BY DEF NoLostUpdate, CoveredFrom, MarkerVouches, Owed, Current
<1>10. ReadCovers' /\ ReadDelivers'
  BY DEF ReadCovers, ReadDelivers, Reading, Owed
<1> QED BY <1>3, <1>4, <1>5, <1>6, <1>7, <1>8, <1>9, <1>10

\* An erased state row vouches for nothing.
LEMMA ClearDiscardedKeeps == ASSUME IInv, Sound, ClearDiscarded PROVE IInv'
<1> USE Constants, Types DEF IInv
<1>1. pc = "clear" /\ pc' = "prepare" /\ committed' = None /\ marker' = None
  BY DEF ClearDiscarded
<1>2. UNCHANGED <<source, store, plan, read, retry>>
  BY DEF ClearDiscarded
<1> USE <1>2 DEF source, store, plan, read, retry
<1>3. discarded /\ last = None /\ resume = None
  BY <1>1 DEF RunPlan, Planned
<1>4. TypeOK'
  BY <1>1, CursorCases, MarkerCases DEF TypeOK, Steps
<1>5. Clock'
  BY <1>1 DEF Clock
<1>6. Versions'
  BY DEF Versions
<1>7. StateRow'
  BY <1>1, <1>3 DEF StateRow, Chunked
<1>8. RunPlan'
  BY <1>1, <1>3 DEF RunPlan, Chunked, Pinned, Early, Planned, Bounded
<1>9. Spanned' /\ ReadPlan'
  BY <1>1, SpannedStays DEF ReadPlan, Chunked, Split, Reading
<1>10. NoLostUpdate' /\ MarkerVouches'
  BY <1>1 DEF NoLostUpdate, MarkerVouches
<1>11. ReadCovers' /\ ReadDelivers'
  BY <1>1 DEF ReadCovers, ReadDelivers, Reading, Owed
<1> QED BY <1>4, <1>5, <1>6, <1>7, <1>8, <1>9, <1>10, <1>11

\* The read starts: what it owes is in front of it, or accounted for by the
\* saved state.
LEMMA PrepareKeeps == ASSUME IInv, Sound, Prepare PROVE IInv'
<1> USE Constants, Types DEF IInv
<1>1. /\ pc = "prepare" /\ pc' = "read"
      /\ destExists'
      /\ todo' = IF resume = None THEN Selected \cap span
                 ELSE {k \in Selected \cap span : k > resume.cursor}
      /\ started' = now
  BY DEF Prepare
<1>2. UNCHANGED <<source, dest, state, plan, pos, buf, seen, best, stage_secs, retry>>
  BY DEF Prepare
<1> USE <1>2 DEF source, state, plan, retry
<1>3. todo' \subseteq Selected
  BY <1>1
<1>4. ~destExists => committed = None /\ marker = None
  BY <1>1 DEF StateRow
<1>5. TypeOK'
  BY <1>1, <1>3, Prepare DEF TypeOK, Steps, Prepare
<1>6. Clock'
  BY <1>1 DEF Clock
<1>7. Versions'
  BY DEF Versions
<1>8. StateRow'
  BY <1>1 DEF StateRow, Chunked
<1>9. RunPlan'
  BY <1>1 DEF RunPlan, Chunked, Pinned, Early, Planned, Bounded
<1>10. Spanned' /\ ReadPlan'
  <2>1. resume # None => cfg.mode = "chunks"
    BY DEF RunPlan, Chunked
  <2>0. Spanned'
    BY <1>1, SpannedStays DEF Split, Reading
  <2>2. seen = None /\ best = None
    BY <1>1 DEF RunPlan, Early
  <2>3. ~spans_statements => todo' = Selected \cap span
    BY <1>1, <2>1 DEF Spanned, Split, Chunked
  <2> QED BY <1>1, <1>3, <2>0, <2>2, <2>3 DEF ReadPlan, Clock, Chunked, Reading
<1>11. NoLostUpdate'
  BY <1>1, <1>4 DEF NoLostUpdate, CoveredFrom, Owed, Current
<1>12. MarkerVouches'
  BY <1>1, <1>4 DEF MarkerVouches, Owed, Current
<1>13. upper = IF Pinned THEN resume.upper ELSE snapMax
  BY <1>1 DEF RunPlan, Planned, Bounded
<1>14. ASSUME NEW k \in Owed, last # None
       PROVE  Current(k) \/ src[k].wm + Lookback > last
  BY <1>1, <1>14 DEF RunPlan, Planned, NoLostUpdate, CoveredFrom
<1>15. ReadCovers'
  <2> SUFFICES ASSUME ~KeepCommitted, upper # None \/ Tracked, NEW k \in Owed,
                      ~Current(k)
               PROVE  (Settled(k) \/ StillDue(k))'
    BY DEF ReadCovers, KeepCommitted, Tracked, Owed, InHand, Current
  <2>1. /\ k \in Selected /\ src[k].wm # None /\ src[k].wm \in Int /\ src[k].at # 0
        /\ last # None => src[k].wm + Lookback > last
    BY <1>14 DEF Owed, Current
  <2>2. CASE upper # None /\ src[k].wm > upper
    BY <2>1, <2>2 DEF Settled
  <2>3. CASE (upper # None => src[k].wm <= upper) /\ k \in todo'
    BY <2>1, <2>3 DEF StillDue, InFilter
  <2>4. CASE (upper # None => src[k].wm <= upper) /\ k \notin span
    <3>1. upper # None
      BY <1>1, <2>1, <2>4, UnboundedSpan DEF Split
    <3>2. src[k].wm + Lookback > upper
      BY <1>1, <2>4, <3>1 DEF Spanned, Split
    <3> QED BY <3>1, <3>2 DEF Settled
  <2>5. CASE (upper # None => src[k].wm <= upper) /\ k \in span /\ k \notin todo'
    <3>1. resume # None /\ resume = marker /\ destExists /\ ~(k > marker.cursor)
      BY <1>1, <2>1, <2>5 DEF RunPlan
    <3>2. marker.upper # None
      BY <3>1 DEF RunPlan, KeepCommitted
    <3>3. upper = marker.upper
      BY <1>13, <3>1, <3>2 DEF Pinned
    <3>4. src[k].wm + Lookback > upper
      BY <3>1, <3>2, <3>3 DEF MarkerVouches
    <3> QED BY <3>2, <3>3, <3>4 DEF Settled
  <2> QED BY <2>1, <2>2, <2>3, <2>4, <2>5
<1>16. ReadDelivers'
  <2> SUFFICES ASSUME resume = None, NEW k \in Owed, src[k].at <= first,
                      ~Current(k)
               PROVE  StillDue(k)'
    BY <1>1 DEF ReadDelivers, Owed, InHand, Current
  <2>1. /\ k \in Selected /\ src[k].wm # None /\ src[k].at # 0
        /\ last # None => src[k].wm + Lookback > last
    BY <1>14 DEF Owed, Current
  <2>2. upper # None => src[k].wm <= upper
    BY <1>1 DEF ReadDelivers
  <2>3. k \in todo'
    <3>1. k \in span
      BY <1>1 DEF Spanned, Split, Owed
    <3> QED BY <1>1, <2>1, <3>1
  <2> QED BY <2>1, <2>2, <2>3 DEF StillDue, InFilter
<1> QED BY <1>5, <1>6, <1>7, <1>8, <1>9, <1>10, <1>11, <1>12, <1>15, <1>16

-----------------------------------------------------------------------------
(* The read.                                                                *)

\* What FirstRows picks: all the rows when they are fewer than chunk_rows, a
\* lower section of them otherwise, and none only of none.
LEMMA FirstRowsAre ==
  ASSUME NEW rows \in SUBSET Keys, NEW chunk \in FirstRows(rows)
  PROVE  /\ chunk \subseteq rows
         /\ Cardinality(chunk) < ChunkRows => chunk = rows
         /\ chunk = {} => rows = {}
         /\ \A k \in chunk, j \in rows \ chunk : k < j
<1>1. IsFiniteSet(rows)
  BY ConstantTypes, FS_Subset
<1>2. /\ chunk \subseteq rows
      /\ \A k \in chunk, j \in rows \ chunk : k < j
      /\ Cardinality(chunk) = LowerOf(ChunkRows, Cardinality(rows))
  BY DEF FirstRows
<1>3. ChunkRows \in Nat /\ ChunkRows # 0
  BY ConstantTypes
<1>4. Cardinality(rows) \in Nat
  BY <1>1, FS_CardinalityType
<1>5. Cardinality(chunk) < ChunkRows => Cardinality(chunk) = Cardinality(rows)
  BY <1>2, <1>3, <1>4 DEF LowerOf
<1>6. Cardinality(chunk) = Cardinality(rows) => chunk = rows
  BY <1>1, <1>2, FS_Subset
<1>7. chunk = {} => Cardinality(chunk) < ChunkRows
  BY <1>3, FS_EmptySet
<1> QED BY <1>2, <1>5, <1>6, <1>7

\* What one statement adds to the insert buffer and the tracker.
LEMMA BufferIs ==
  ASSUME IInv, NEW rows \in SUBSET Returned, NEW held \in SUBSET rows,
         Observe(rows), Hold(held)
  PROVE  /\ buf' \in [Keys -> Nat]
         /\ \A k \in Keys : buf'[k] = IF k \in held THEN src[k].at ELSE buf[k]
         /\ seen' \in Cursors
         /\ seen' # None => seen' \in Int /\ seen' <= now
         /\ seen' # None /\ upper # None => seen' <= upper
         /\ seen # None => seen' # None
         /\ \A k \in rows : src[k].wm # None => seen' # None
<1> USE Constants, Types DEF IInv
<1> DEFINE m == MaxWatermark(rows)
<1>1. rows \subseteq Selected /\ \A k \in rows : InFilter(src[k])
  BY DEF Returned
<1>2. buf' = [k \in Keys |-> IF k \in held THEN src[k].at ELSE buf[k]]
  BY DEF Hold
<1>3. /\ m \in Cursors
      /\ m # None => m \in Int /\ m <= now /\ \E k \in rows : src[k].wm = m
      /\ \A k \in rows : src[k].wm # None => m # None
  BY <1>1, MaxWatermarkIs, CursorCases
<1>4. m # None /\ upper # None => m <= upper
  BY <1>1, <1>3 DEF InFilter
<1> HIDE DEF m
<1>5. seen' = LaterOf(seen, m)
  BY DEF Observe, m
<1>6. seen' = None \/ seen' = seen \/ seen' = m
  BY <1>5 DEF LaterOf, HigherOf
<1>7. (seen # None \/ m # None) => seen' # None
  BY <1>5 DEF LaterOf, HigherOf
<1>8. seen # None => seen <= now
  BY DEF Clock
<1>9. seen # None /\ upper # None => seen <= upper
  BY DEF ReadPlan
<1>10. seen' \in Cursors
  BY <1>3, <1>6, CursorCases
<1>11. seen' # None => seen' \in Int /\ seen' <= now
  BY <1>3, <1>6, <1>8
<1>12. seen' # None /\ upper # None => seen' <= upper
  BY <1>4, <1>6, <1>9
<1>13. buf' \in [Keys -> Nat]
  BY <1>2
<1> QED BY <1>2, <1>3, <1>7, <1>10, <1>11, <1>12, <1>13

\* One statement preserves what the next cursor needs, if every row it was to
\* return is buffered or still in front of the read.
LEMMA StatementKeeps ==
  ASSUME IInv, Sound, pc = "read", pc' \in {"read", "land"},
         NEW rows \in SUBSET Returned, NEW held \in SUBSET rows,
         Observe(rows), Hold(held),
         todo' \subseteq todo,
         \A k \in Returned \cap todo : k \in held \/ k \in todo',
         ~spans_statements => todo # {},
         UNCHANGED <<source, store, state, plan, best, started, stage_secs, first>>
  PROVE  /\ Clock' /\ Versions' /\ StateRow' /\ RunPlan' /\ Spanned'
         /\ NoLostUpdate' /\ MarkerVouches' /\ ReadCovers' /\ ReadDelivers'
<1> USE Constants, Types DEF IInv
<1> USE DEF source, store, state, plan
<1>1. /\ \A k \in Keys : buf'[k] = IF k \in held THEN src[k].at ELSE buf[k]
      /\ seen' # None => seen' \in Int /\ seen' <= now
  BY BufferIs
<1>2. Clock'
  BY <1>1 DEF Clock
<1>3. Versions'
  <2>1. ASSUME NEW k \in held PROVE src[k].at # 0 /\ k \in Keys
    BY DEF Returned, InFilter
  <2> QED BY <1>1, <2>1 DEF Versions
<1>4. StateRow'
  BY DEF StateRow, Chunked
<1>5. RunPlan'
  BY DEF RunPlan, Chunked, Pinned, Early, Planned, Bounded
<1>6. NoLostUpdate' /\ MarkerVouches'
  BY DEF NoLostUpdate, CoveredFrom, MarkerVouches, Owed, Current
<1>7. ASSUME NEW k \in Owed, InHand(k) \/ StillDue(k)
      PROVE  (InHand(k) \/ StillDue(k))'
  <2>1. k \in Selected /\ k \in Keys
    BY DEF Owed
  <2>2. CASE Current(k)
    BY <2>2 DEF InHand, Current
  <2>3. CASE buf[k] = src[k].at
    BY <1>1, <2>1, <2>3 DEF InHand
  <2>4. CASE StillDue(k)
    <3>1. k \in Returned \cap todo
      BY <2>1, <2>4 DEF StillDue, Returned
    <3>2. CASE k \in held
      BY <1>1, <2>1, <3>2 DEF InHand
    <3>3. CASE k \in todo'
      BY <2>4, <3>3 DEF StillDue, InFilter, ReturnsNull, Pinned
    <3> QED BY <3>1, <3>2, <3>3
  <2> QED BY <1>7, <2>2, <2>3, <2>4 DEF InHand
<1>8. ReadCovers'
  <2> SUFFICES ASSUME ~KeepCommitted, upper # None \/ Tracked, NEW k \in Owed
               PROVE  (InHand(k) \/ Settled(k) \/ StillDue(k))'
    BY DEF ReadCovers, KeepCommitted, Tracked, Owed
  <2>1. InHand(k) \/ Settled(k) \/ StillDue(k)
    BY DEF ReadCovers, Reading
  <2>2. CASE Settled(k)
    BY <2>2 DEF Settled
  <2> QED BY <1>7, <2>1, <2>2
<1>9. ReadDelivers'
  BY <1>7 DEF ReadDelivers, Reading, Owed
<1>10. Spanned'
  BY SpannedStays DEF Split, Reading
<1> QED BY <1>2, <1>3, <1>4, <1>5, <1>6, <1>8, <1>9, <1>10

\* A keyset statement leaves nothing behind its cursor.
LEMMA ReadChunkKeeps == ASSUME IInv, Sound, ReadChunk PROVE IInv'
<1> USE Constants, Types DEF IInv
<1> DEFINE left == Returned \cap todo
<1>1. /\ Chunked /\ pc = "read" /\ pc' = "land"
      /\ UNCHANGED <<source, store, state, plan, best, started, stage_secs, retry>>
  BY DEF ReadChunk
<1>2. PICK chunk \in FirstRows(left) :
        /\ Buffer(chunk)
        /\ \/ chunk = {} /\ pos' = None /\ todo' = {}
           \/ \E cursor \in chunk :
                /\ \A k \in chunk : k <= cursor
                /\ pos' = cursor
                /\ todo' = IF Cardinality(chunk) < ChunkRows
                           THEN {}
                           ELSE {k \in todo : k > cursor}
  BY DEF ReadChunk
<1>3. left \subseteq Keys /\ left \subseteq todo /\ left \subseteq Returned
  BY DEF Returned
<1>4. /\ chunk \subseteq left
      /\ Cardinality(chunk) < ChunkRows => chunk = left
      /\ chunk = {} => left = {}
      /\ \A k \in chunk, j \in left \ chunk : k < j
  <2>1. left \in SUBSET Keys
    BY <1>3
  <2> HIDE Constants, Types DEF IInv
  <2> HIDE DEF left
  <2> QED BY <2>1, FirstRowsAre
<1>5. chunk \in SUBSET Returned
  BY <1>3, <1>4
<1>6. todo' \subseteq todo
  BY <1>2
<1>7. ASSUME NEW k \in left PROVE k \in chunk \/ k \in todo'
  <2>1. CASE chunk = {}
    BY <1>4, <2>1
  <2>2. CASE chunk # {}
    <3>1. PICK cursor \in chunk :
            todo' = IF Cardinality(chunk) < ChunkRows
                    THEN {}
                    ELSE {j \in todo : j > cursor}
      BY <1>2, <2>2
    <3>2. CASE Cardinality(chunk) < ChunkRows
      BY <1>4, <3>2
    <3>3. CASE ~(Cardinality(chunk) < ChunkRows)
      <4>1. todo' = {j \in todo : j > cursor} /\ k \in todo
        BY <1>3, <3>1, <3>3
      <4>2. k \notin chunk => cursor < k
        BY <1>4
      <4>3. k \in Int /\ cursor \in Int
        BY <1>3, <1>4
      <4> QED BY <4>1, <4>2, <4>3
    <3> QED BY <3>2, <3>3
  <2> QED BY <2>1, <2>2
<1>0. cfg.mode # "single" /\ spans_statements
  BY <1>1 DEF Spanned, Split, Reading, Chunked
<1>8. /\ Clock' /\ Versions' /\ StateRow' /\ RunPlan' /\ Spanned'
      /\ NoLostUpdate' /\ MarkerVouches' /\ ReadCovers' /\ ReadDelivers'
  <2>1. Observe(chunk) /\ Hold(chunk) /\ first' = first
    BY <1>1, <1>2 DEF Buffer, retry
  <2>2. pc' \in {"read", "land"}
    BY <1>1
  <2> QED BY <1>0, <1>1, <1>5, <1>6, <1>7, <2>1, <2>2, StatementKeeps
<1>9. /\ buf' \in [Keys -> Nat]
      /\ seen' \in Cursors
      /\ seen' # None /\ upper # None => seen' <= upper
      /\ \A k \in chunk : src[k].wm # None => seen' # None
  BY <1>2, <1>5, BufferIs DEF Buffer
<1>10. pos' # None => pos' \in chunk /\ \A k \in todo' : k > pos'
  BY <1>2
<1>11. pos' = None => todo' = {}
  <2>1. \A k \in chunk : k # None
    BY <1>3, <1>4
  <2> QED BY <1>2, <2>1
<1> HIDE DEF left
<1>12. TypeOK'
  <2>1. pos' # None => pos' \in Keys
    BY <1>3, <1>4, <1>10
  <2> QED BY <1>1, <1>6, <1>9, <2>1
          DEF TypeOK, Steps, source, store, state, plan, retry
<1>13. ReadPlan'
  <2>1. pos' # None /\ cfg.from = "stream" /\ ~NullLands => seen' # None
    <3> SUFFICES ASSUME pos' # None, ~NullLands PROVE seen' # None
      OBVIOUS
    <3>1. pos' \in chunk /\ pos' \in Returned
      BY <1>5, <1>10
    <3>2. src[pos'].wm # None
      BY <3>1 DEF Returned, InFilter, ReturnsNull
    <3> QED BY <1>9, <3>1, <3>2
  <2> QED BY <1>0, <1>1, <1>6, <1>9, <1>10, <1>11, <2>1
          DEF ReadPlan, Chunked, Reading, source, store, state, plan, retry
<1> QED BY <1>8, <1>12, <1>13

\* So does a statement of a read without a marker.
LEMMA ReadWindowKeeps ==
  ASSUME IInv, Sound, NEW window \in SUBSET todo, ReadWindow(window)
  PROVE  IInv'
<1> USE Constants, Types DEF IInv
<1> DEFINE rows == Returned \cap window
<1>1. /\ ~Chunked /\ pc = "read" /\ pc' = "read"
      /\ window # {} /\ (~spans_statements => window = todo)
      /\ Buffer(rows) /\ todo' = todo \ window
      /\ UNCHANGED <<source, store, state, plan, pos, best, started, stage_secs,
                     retry>>
  BY DEF ReadWindow
<1>2. rows \in SUBSET Returned /\ todo' \subseteq todo
  BY <1>1
<1>3. \A k \in Returned \cap todo : k \in rows \/ k \in todo'
  BY <1>1
<1>4. ~spans_statements => todo # {} /\ todo' = {}
  BY <1>1
<1> HIDE DEF rows
<1>5. /\ Clock' /\ Versions' /\ StateRow' /\ RunPlan' /\ Spanned'
      /\ NoLostUpdate' /\ MarkerVouches' /\ ReadCovers' /\ ReadDelivers'
  <2>1. Observe(rows) /\ Hold(rows) /\ first' = first
    BY <1>1 DEF Buffer, retry
  <2>2. pc' \in {"read", "land"}
    BY <1>1
  <2> QED BY <1>1, <1>2, <1>3, <1>4, <2>1, <2>2, StatementKeeps
<1>6. /\ buf' \in [Keys -> Nat]
      /\ seen' \in Cursors
      /\ seen' # None /\ upper # None => seen' <= upper
  BY <1>1, <1>2, BufferIs DEF Buffer
<1>7. TypeOK'
  BY <1>1, <1>2, <1>6 DEF TypeOK, Steps, source, store, state, plan, retry
<1>8. ReadPlan'
  BY <1>1, <1>2, <1>4, <1>6
     DEF ReadPlan, Chunked, Reading, source, store, state, plan, retry
<1> QED BY <1>5, <1>7, <1>8

\* A cancelled window leaves all it was to return in front of the read.
LEMMA CancelWindowKeeps ==
  ASSUME IInv, Sound, NEW rows \in SUBSET (Returned \cap todo),
         NEW sent \in SUBSET rows, CancelWindow(rows, sent)
  PROVE  IInv'
<1> USE Constants, Types DEF IInv
<1>1. /\ spans_statements /\ pc = "read" /\ pc' = "read"
      /\ cfg.mode = "windows"
      /\ faults < MaxFaults /\ faults' = faults + 1
      /\ Observe(rows) /\ Hold(sent)
      /\ UNCHANGED <<source, store, state, plan, todo, pos, best, started,
                     stage_secs, first, attempt>>
  BY DEF CancelWindow
<1>2. rows \in SUBSET Returned /\ todo' = todo
  BY <1>1
<1>3. /\ Clock' /\ Versions' /\ StateRow' /\ RunPlan' /\ Spanned'
      /\ NoLostUpdate' /\ MarkerVouches' /\ ReadCovers' /\ ReadDelivers'
  BY <1>1, <1>2, StatementKeeps
<1>4. /\ buf' \in [Keys -> Nat]
      /\ seen' \in Cursors
      /\ seen' # None /\ upper # None => seen' <= upper
  BY <1>1, <1>2, BufferIs
<1>5. TypeOK'
  <2>1. faults' \in 0..MaxFaults
    BY <1>1, ConstantTypes DEF TypeOK
  <2> QED BY <1>1, <1>2, <1>4, <2>1 DEF TypeOK, Steps, source, store, state, plan
<1>6. ReadPlan'
  BY <1>1, <1>2, <1>4
     DEF ReadPlan, Chunked, Reading, source, store, state, plan
<1> QED BY <1>3, <1>5, <1>6

-----------------------------------------------------------------------------
(* Rows becoming durable.                                                   *)

\* Rows in flight that land replace no newer version.
LEMMA LandingKeeps ==
  ASSUME IInv, NEW rows \in SUBSET Keys, \A k \in rows : buf[k] # 0,
         dest' = [k \in Keys |-> IF k \in rows THEN buf[k] ELSE dest[k]],
         UNCHANGED source
  PROVE  /\ dest' \in [Keys -> Nat]
         /\ \A k \in Keys : /\ dest'[k] <= now
                            /\ src[k].at # 0 => dest'[k] <= src[k].at
                            /\ buf[k] # 0 => dest'[k] <= buf[k]
                            /\ Current(k) => Current(k)'
                            /\ k \in rows /\ buf[k] = src[k].at => Current(k)'
<1> USE Constants, Types DEF IInv, source
<1>1. \A k \in Keys : dest'[k] = IF k \in rows THEN buf[k] ELSE dest[k]
  OBVIOUS
<1>2. dest' \in [Keys -> Nat]
  OBVIOUS
<1>3. \A k \in Keys : dest'[k] <= now
  BY <1>1 DEF Clock
<1>4. ASSUME NEW k \in Keys
      PROVE  /\ src[k].at # 0 => dest'[k] <= src[k].at
             /\ buf[k] # 0 => dest'[k] <= buf[k]
  BY <1>1 DEF Versions
<1>5. ASSUME NEW k \in Keys, Current(k) PROVE Current(k)'
  <2>1. CASE src[k].at = 0
    BY <2>1 DEF Current
  <2>2. CASE src[k].at # 0 /\ k \in rows
    <3>1. buf[k] <= src[k].at /\ dest[k] <= buf[k] /\ dest[k] = src[k].at
      BY <1>5, <2>2 DEF Versions, Current
    <3>2. buf[k] \in Nat /\ dest[k] \in Nat /\ src[k].at \in Nat
      OBVIOUS
    <3>3. buf[k] = src[k].at
      BY ONLY <3>1, <3>2
    <3> QED BY <1>1, <2>2, <3>3 DEF Current
  <2>3. CASE k \notin rows
    BY <1>1, <1>5, <2>3 DEF Current
  <2> QED BY <2>1, <2>2, <2>3
<1>6. ASSUME NEW k \in rows, buf[k] = src[k].at PROVE Current(k)'
  BY <1>1, <1>6 DEF Current
<1> QED BY <1>2, <1>3, <1>4, <1>5, <1>6

\* With nothing in flight only the destination's half of Versions is left.
LEMMA NothingInFlight ==
  ASSUME TypeOK, src' = src,
         \A k \in Keys : src[k].at # 0 => dest'[k] <= src[k].at,
         \A k \in Keys : buf'[k] = 0
  PROVE  Versions'
<1>1. \A k \in Keys : src[k].at # 0 => 0 <= src[k].at
  BY Types
<1> QED BY <1>1 DEF Versions

\* stage_secs, once taken, reaches past every watermark read.
LEMMA SecsIfIs ==
  ASSUME IInv, NEW over, over \in BOOLEAN
  PROVE  /\ SecsIf(over) \in Nat
         /\ over /\ seen # None => seen <= started + SecsIf(over)
<1> USE Types DEF IInv, Clock
<1>1. CASE over
  BY <1>1 DEF SecsIf
<1>2. CASE ~over
  BY <1>2 DEF SecsIf
<1> QED BY <1>1, <1>2

\* A chunk that is durable: nothing is in flight.
LEMMA LandChunkKeeps == ASSUME IInv, Sound, LandChunk PROVE IInv'
<1> USE Constants, Types DEF IInv
<1> DEFINE rows == {k \in Keys : buf[k] # 0}
<1>1. /\ pc = "land" /\ pc' = IF pos = None THEN "finish" ELSE "mark"
      /\ buf' = NoRows
      /\ stage_secs' = SecsIf(pos = None)
      /\ UNCHANGED <<source, destExists, state, plan, todo, pos, seen, best,
                     started, retry>>
  BY DEF LandChunk
<1> USE <1>1 DEF source, state, plan, retry
<1>2. dest' = [k \in Keys |-> IF k \in rows THEN buf[k] ELSE dest[k]]
  BY DEF LandChunk
<1>3. /\ dest' \in [Keys -> Nat]
      /\ \A k \in Keys : /\ dest'[k] <= now
                         /\ src[k].at # 0 => dest'[k] <= src[k].at
                         /\ Current(k) => Current(k)'
                         /\ k \in rows /\ buf[k] = src[k].at => Current(k)'
  <2>1. rows \in SUBSET Keys /\ \A k \in rows : buf[k] # 0
    OBVIOUS
  <2> HIDE DEF rows
  <2> QED BY <1>2, <2>1, LandingKeeps
<1>4. buf' \in [Keys -> Nat] /\ \A k \in Keys : buf'[k] = 0
  BY DEF NoRows
<1>5. ASSUME NEW k \in Owed, InHand(k) PROVE Current(k)'
  <2>1. k \in Keys
    BY DEF Owed
  <2>2. CASE buf[k] = src[k].at /\ buf[k] = 0
    BY <2>1, <2>2 DEF Current
  <2> QED BY <1>3, <1>5, <2>1, <2>2 DEF InHand
<1> HIDE DEF rows
<1>6. TypeOK'
  BY <1>3, <1>4, SecsIfIs DEF TypeOK, Steps
<1>7. Clock'
  BY <1>3, <1>4 DEF Clock
<1>8. Versions'
  BY <1>3, <1>4, NothingInFlight
<1>9. StateRow'
  BY DEF StateRow, Chunked
<1>10. RunPlan'
  BY DEF RunPlan, Chunked, Pinned, Early, Planned, Bounded
<1>0. Spanned'
  BY SpannedStays DEF Split, Reading
<1>11. ReadPlan'
  <2>1. pos = None /\ seen # None => seen <= started + stage_secs'
    BY SecsIfIs
  <2> QED BY <2>1 DEF ReadPlan, Chunked, Reading
<1>12. NoLostUpdate' /\ MarkerVouches'
  BY <1>3 DEF NoLostUpdate, CoveredFrom, MarkerVouches, Owed
<1>13. ReadCovers'
  BY <1>5 DEF ReadCovers, Reading, KeepCommitted, Tracked, Owed, InHand, Settled,
              StillDue, InFilter, ReturnsNull, Pinned
<1>14. ReadDelivers'
  BY <1>5 DEF ReadDelivers, Reading, Owed, InHand, StillDue, InFilter,
              ReturnsNull, Pinned
<1> QED BY <1>0, <1>6, <1>7, <1>8, <1>9, <1>10, <1>11, <1>12, <1>13, <1>14

\* Inserts that land in any order lose no version.
LEMMA LandSomeKeeps ==
  ASSUME IInv, Sound, NEW rows \in SUBSET Keys, LandSome(rows)
  PROVE  IInv'
<1> USE Constants, Types DEF IInv
<1>1. /\ ~Chunked /\ pc = "read"
      /\ \A k \in rows : buf[k] # 0
      /\ dest' = [k \in Keys |-> IF k \in rows THEN buf[k] ELSE dest[k]]
      /\ buf' = [k \in Keys |-> IF k \in rows THEN 0 ELSE buf[k]]
      /\ UNCHANGED <<source, destExists, state, pc, plan, todo, pos, seen, best,
                     started, stage_secs, retry>>
  BY DEF LandSome
<1>2. /\ dest' \in [Keys -> Nat]
      /\ \A k \in Keys : /\ dest'[k] <= now
                         /\ src[k].at # 0 => dest'[k] <= src[k].at
                         /\ buf[k] # 0 => dest'[k] <= buf[k]
                         /\ Current(k) => Current(k)'
                         /\ k \in rows /\ buf[k] = src[k].at => Current(k)'
  BY <1>1, LandingKeeps
<1>3. /\ buf' \in [Keys -> Nat]
      /\ \A k \in Keys : buf'[k] = IF k \in rows THEN 0 ELSE buf[k]
  BY <1>1
<1>4. UNCHANGED <<source, destExists, state, pc, plan, todo, pos, seen, best,
                  started, stage_secs, retry>>
  BY <1>1
<1> USE <1>4 DEF source, state, plan, retry
<1>5. ASSUME NEW k \in Owed, InHand(k) PROVE InHand(k)'
  <2>1. k \in Keys
    BY DEF Owed
  <2>2. CASE Current(k)
    BY <1>2, <2>1, <2>2 DEF InHand
  <2>3. CASE buf[k] = src[k].at /\ k \in rows
    BY <1>2, <2>1, <2>3 DEF InHand
  <2>4. CASE buf[k] = src[k].at /\ k \notin rows
    BY <1>3, <2>1, <2>4 DEF InHand
  <2> QED BY <1>5, <2>2, <2>3, <2>4 DEF InHand
<1>6. TypeOK'
  BY <1>2, <1>3 DEF TypeOK
<1>7. Clock'
  <2>1. \A k \in Keys : dest'[k] <= now /\ buf'[k] <= now
    BY <1>2, <1>3 DEF Clock
  <2> QED BY <2>1 DEF Clock
<1>8. Versions'
  <2>1. ASSUME NEW k \in Keys, src[k].at # 0
        PROVE  dest'[k] <= src[k].at /\ buf'[k] <= src[k].at
    <3>1. src[k].at \in Nat /\ buf[k] <= src[k].at
      BY <2>1 DEF Versions
    <3>2. buf'[k] = 0 \/ buf'[k] = buf[k]
      BY <1>3
    <3> QED BY <1>2, <2>1, <3>1, <3>2
  <2>2. \A k \in Keys : buf'[k] # 0 => dest'[k] <= buf'[k]
    BY <1>2, <1>3
  <2> QED BY <2>1, <2>2 DEF Versions
<1>9. StateRow'
  BY DEF StateRow, Chunked
<1>10. RunPlan'
  BY <1>1 DEF RunPlan, Chunked, Pinned, Early, Planned, Bounded
<1>0. Spanned'
  BY <1>1, SpannedStays DEF Split, Reading
<1>11. ReadPlan'
  BY <1>1 DEF ReadPlan, Chunked, Reading
<1>12. NoLostUpdate' /\ MarkerVouches'
  BY <1>2 DEF NoLostUpdate, CoveredFrom, MarkerVouches, Owed
<1>13. ReadCovers'
  <2> SUFFICES ASSUME ~KeepCommitted, upper # None \/ Tracked, NEW k \in Owed
               PROVE  (InHand(k) \/ Settled(k) \/ StillDue(k))'
    BY DEF ReadCovers, KeepCommitted, Tracked, Owed
  <2>1. InHand(k) \/ Settled(k) \/ StillDue(k)
    BY <1>1 DEF ReadCovers, Reading
  <2> QED BY <1>5, <2>1 DEF Settled, StillDue, InFilter, ReturnsNull, Pinned
<1>14. ReadDelivers'
  BY <1>1, <1>5 DEF ReadDelivers, Reading, Owed, StillDue, InFilter, ReturnsNull,
                    Pinned
<1> QED BY <1>0, <1>6, <1>7, <1>8, <1>9, <1>10, <1>11, <1>12, <1>13, <1>14

\* A read that ends has nothing left to read or to land.
LEMMA ReadDoneKeeps == ASSUME IInv, Sound, ReadDone PROVE IInv'
<1> USE Constants, Types DEF IInv
<1>1. /\ ~Chunked /\ pc = "read" /\ pc' = "finish" /\ todo = {} /\ buf = NoRows
      /\ stage_secs' = SecsIf(TRUE)
  BY DEF ReadDone
<1>2. UNCHANGED <<source, store, state, plan, todo, pos, buf, seen, best, started,
                  retry>>
  BY DEF ReadDone
<1> USE <1>2 DEF source, store, state, plan, retry
<1>3. TypeOK'
  BY <1>1, SecsIfIs DEF TypeOK, Steps
<1>4. Clock' /\ Versions'
  BY DEF Clock, Versions
<1>5. StateRow'
  BY <1>1 DEF StateRow, Chunked
<1>6. RunPlan'
  BY <1>1 DEF RunPlan, Chunked, Pinned, Early, Planned, Bounded
<1>0. Spanned'
  BY <1>1, SpannedStays DEF Split, Reading
<1>7. ReadPlan'
  <2>1. seen # None => seen <= started + stage_secs'
    BY <1>1, SecsIfIs
  <2> QED BY <1>1, <2>1 DEF ReadPlan, Chunked, Reading
<1>8. NoLostUpdate' /\ MarkerVouches'
  BY DEF NoLostUpdate, CoveredFrom, MarkerVouches, Owed, Current
<1>9. ReadCovers' /\ ReadDelivers'
  BY <1>1 DEF ReadCovers, ReadDelivers, Reading, KeepCommitted, Tracked, Owed,
              InHand, Current, Settled, StillDue, InFilter, ReturnsNull, Pinned
<1> QED BY <1>0, <1>3, <1>4, <1>5, <1>6, <1>7, <1>8, <1>9

-----------------------------------------------------------------------------
(* Saving: the marker of a chunk, the cursor of a run.                      *)

\* A tracked cursor, moved back by what a read begun at t took beyond the
\* lookback, is less the lookback no later than the read's start: took is how
\* long it had taken when the last of them was read.
LEMMA RewoundIs ==
  ASSUME IInv, pc \in Reading, NEW t \in Nat, t <= started,
         NEW took \in Nat, seen # None => seen <= t + took
  PROVE  LET r == Rewound(Excess(took))
         IN /\ r \in Cursors
            /\ r # None => r \in Int /\ r <= now /\ r <= started + Lookback /\ seen # None
            /\ seen # None => r # None
<1> USE Constants, Types DEF IInv
<1> DEFINE secs == Excess(took)
           r    == Rewound(secs)
<1>1. /\ secs \in Nat
      /\ took <= Lookback + secs
  BY DEF Excess, HigherOf
<1>2. /\ started \in Nat /\ started <= now
      /\ last # None => last \in Int /\ last <= started
      /\ seen # None => seen \in Int /\ seen <= now /\ seen <= t + took
  BY DEF Clock, ReadPlan
<1> HIDE DEF secs
<1>3. CASE seen = None
  BY <1>3, CursorCases DEF Rewound
<1>4. CASE seen # None /\ secs = 0
  <2>1. r = seen
    BY <1>4 DEF Rewound
  <2>2. seen <= started + Lookback
    BY <1>1, <1>2, <1>4
  <2> HIDE DEF r
  <2> QED BY <1>2, <1>4, <2>1, <2>2, CursorCases DEF r, secs
<1>5. CASE seen # None /\ secs # 0
  <2>1. /\ last = None => r = seen - secs
        /\ last # None => r = HigherOf(seen - secs, LowerOf(last, seen))
    BY <1>5 DEF Rewound
  <2>2. /\ seen - secs \in Int /\ seen - secs <= now
        /\ seen - secs <= started + Lookback
    BY <1>1, <1>2, <1>5
  <2>3. last # None => /\ LowerOf(last, seen) \in Int
                       /\ LowerOf(last, seen) <= now
                       /\ LowerOf(last, seen) <= started + Lookback
    BY <1>2, <1>5 DEF LowerOf
  <2> HIDE DEF r
  <2>4. r \in Int /\ r <= now /\ r <= started + Lookback
    BY <2>1, <2>2, <2>3 DEF HigherOf
  <2> QED BY <1>5, <2>4, CursorCases DEF r, secs
<1> QED BY <1>3, <1>4, <1>5 DEF secs

\* The marker of a chunk vouches for the keys up to it, and a run that has no
\* bound to record has a cursor to keep.
LEMMA CommitChunkKeeps == ASSUME IInv, Sound, CommitChunk PROVE IInv'
<1> USE Constants, Types DEF IInv
<1> DEFINE mu == MarkerUpper
<1>1. /\ pc = "mark" /\ pc' = IF todo = {} THEN "finish" ELSE "read"
      /\ committed' = last
      /\ marker' = [cursor |-> pos, upper |-> mu]
      /\ best' = IF Tracked THEN StreamBest ELSE best
      /\ stage_secs' = SecsIf(todo = {})
      /\ UNCHANGED <<source, store, plan, todo, pos, buf, seen, started, retry>>
  BY DEF CommitChunk
<1>2. /\ Chunked /\ destExists /\ buf = NoRows
      /\ pos \in Keys /\ \A k \in todo : k > pos
      /\ first <= started
  BY <1>1 DEF ReadPlan, Reading
<1>3. last # None => last = committed
  BY <1>1 DEF RunPlan, Planned
<1>4. /\ StreamBest \in Cursors
      /\ StreamBest # None =>
           StreamBest \in Int /\ StreamBest <= now /\ StreamBest <= started + Lookback
      /\ seen # None => StreamBest # None
  <2> DEFINE r == Rewound(Excess(now - first))
  <2>0. now - first \in Nat /\ (seen # None => seen <= first + (now - first))
    BY DEF Clock
  <2>1. /\ r # None => r \in Int /\ r <= now /\ r <= started + Lookback
        /\ seen # None => r # None
    BY <1>1, <1>2, <2>0, RewoundIs DEF Reading
  <2>2. best # None => best \in Int /\ best <= now /\ best <= started + Lookback
    BY <1>1 DEF Clock, ReadPlan, Reading
  <2>3. StreamBest = LaterOf(best, r)
    BY DEF StreamBest
  <2> HIDE DEF r
  <2>4. StreamBest = None \/ StreamBest = best \/ StreamBest = r
    BY <2>3 DEF LaterOf, HigherOf
  <2>5. r # None => StreamBest # None
    BY <2>1, <2>2, <2>3 DEF LaterOf, HigherOf
  <2> QED BY <2>1, <2>2, <2>4, <2>5, CursorCases
<1>5. /\ KeepCommitted => mu = None
      /\ ~KeepCommitted /\ upper # None => mu = upper
      /\ ~KeepCommitted /\ upper = None /\ Tracked => mu = StreamBest
      /\ ~KeepCommitted /\ upper = None /\ ~Tracked => mu = None
  BY DEF MarkerUpper
<1> HIDE DEF mu
<1>6. mu \in Cursors /\ (mu # None => mu \in Int /\ mu <= now)
  BY <1>4, <1>5, CursorCases DEF Clock
<1>7. mu = None => last # None
  <2> SUFFICES ASSUME mu = None, last = None PROVE FALSE
    OBVIOUS
  <2>1. ~KeepCommitted /\ upper = None
    BY <1>5 DEF KeepCommitted
  <2>2. SoundFor(cfg) /\ cfg.mode = "chunks"
    BY <1>2 DEF Sound, TypeOK, Chunked
  <2>3. CASE Starts = {"established"} /\ ~CanDrop
    BY <1>1, <2>3 DEF StateRow, RunPlan, Planned
  <2>4. CASE cfg.from = "stream" /\ ~NullLands
    <3>1. seen # None
      BY <1>1, <1>2, <2>4 DEF ReadPlan
    <3> QED BY <1>4, <1>5, <2>1, <2>4, <3>1 DEF Tracked
  <2>5. CASE cfg.from # "stream" /\ SourceNeverEmpty
    BY <1>1, <2>1, <2>5 DEF RunPlan, Planned, Bounded
  <2> QED BY <2>2, <2>3, <2>4, <2>5 DEF SoundFor
<1> USE <1>1 DEF source, store, plan, retry
<1>8. TypeOK'
  <2>1. marker' \in Markers
    BY <1>2, <1>6, MarkerCases DEF Marks
  <2>2. best' \in Cursors
    BY <1>4 DEF TypeOK
  <2>3. stage_secs' \in Nat
    BY SecsIfIs
  <2> QED BY <2>1, <2>2, <2>3 DEF TypeOK, Steps
<1>9. Clock'
  <2>1. marker'.upper = mu
    OBVIOUS
  <2> QED BY <1>4, <1>6, <2>1 DEF Clock
<1>10. Versions'
  BY DEF Versions
<1>11. StateRow'
  <2>1. marker'.upper = mu
    OBVIOUS
  <2>2. Starts = {"established"} /\ ~CanDrop => last # None
    BY DEF StateRow, RunPlan, Planned
  <2> QED BY <1>2, <1>7, <2>1, <2>2 DEF StateRow, Chunked
<1>12. RunPlan'
  BY DEF RunPlan, Chunked, Pinned, Early, Planned, Bounded
<1>0. Spanned'
  BY SpannedStays DEF Split, Reading
<1>13. ReadPlan'
  <2>1. todo = {} /\ seen # None => seen <= started + stage_secs'
    BY SecsIfIs
  <2> QED BY <1>2, <1>4, <2>1 DEF ReadPlan, Chunked, Reading
<1>14. NoLostUpdate'
  BY <1>3 DEF NoLostUpdate, CoveredFrom, Owed, Current
<1>15. MarkerVouches'
  <2> SUFFICES ASSUME mu # None, NEW k \in Owed, ~Current(k)
               PROVE  (k > pos /\ src[k].wm <= mu) \/ src[k].wm + Lookback > mu
    BY DEF MarkerVouches, Owed, Current
  <2>1. k \in Keys /\ src[k].wm \in Int /\ buf[k] = 0
    BY <1>2 DEF Owed, NoRows
  <2>2. ~InHand(k)
    BY <2>1 DEF InHand, Current
  <2>3. ~KeepCommitted /\ (upper # None \/ Tracked)
    BY <1>5
  <2>4. Settled(k) \/ StillDue(k)
    BY <2>2, <2>3 DEF ReadCovers, Reading
  <2>5. CASE StillDue(k)
    BY <1>2, <1>6, <2>1, <2>5 DEF StillDue
  <2>6. CASE Settled(k) /\ upper # None
    BY <1>5, <2>3, <2>6 DEF Settled
  <2>7. CASE Settled(k) /\ upper = None
    <3>1. src[k].wm > started
      BY <1>1, <1>2, <2>7 DEF Settled, Chunked, Spanned, Split, Reading
    <3>2. mu <= started + Lookback
      BY <1>4, <1>5, <2>3, <2>7
    <3> QED BY <1>6, <2>1, <3>1, <3>2
  <2> QED BY <2>4, <2>5, <2>6, <2>7
<1>16. ReadCovers' /\ ReadDelivers'
  BY DEF ReadCovers, ReadDelivers, Reading, KeepCommitted, Tracked, Owed,
         InHand, Current, Settled, StillDue, InFilter, ReturnsNull, Pinned
<1> QED BY <1>0, <1>8, <1>9, <1>10, <1>11, <1>12, <1>13, <1>14, <1>15, <1>16

\* The cursor a run computes when it has read everything leaves every row
\* that is not delivered above its lower bound.
LEMMA NewWatermarkCovers ==
  ASSUME IInv, Sound, pc = "finish", NewWatermark # None
  PROVE  NewWatermark \in Int /\ NewWatermark <= now /\ CoveredFrom(NewWatermark)
<1> USE Constants, Types DEF IInv
<1> DEFINE w == NewWatermark
<1>1. /\ todo = {} /\ buf = NoRows
      /\ upper # None => upper \in Int /\ upper <= now /\ upper <= started
      /\ seen # None => seen \in Int /\ seen <= now /\ seen <= started + stage_secs
      /\ seen # None /\ upper # None => seen <= upper
  BY DEF ReadPlan, Reading, Clock
<1>2. upper = IF Pinned THEN resume.upper ELSE snapMax
  BY DEF RunPlan, Planned, Bounded
<1>3. cfg.from \in {"max", "table_max", "stream"}
  BY ConstantTypes DEF TypeOK, Config, CursorSources
<1>4. ASSUME ~KeepCommitted, upper # None \/ Tracked, NEW k \in Owed
      PROVE  Current(k) \/ Settled(k)
  <2>1. buf[k] = 0
    BY <1>1 DEF Owed, NoRows
  <2> QED BY <1>1, <1>4, <2>1 DEF ReadCovers, Reading, InHand, Current, StillDue
<1>5. ASSUME ~KeepCommitted, upper # None, w \in Int, w <= upper PROVE CoveredFrom(w)
  BY <1>1, <1>4, <1>5 DEF CoveredFrom, Settled, Owed
<1>6. ASSUME ~KeepCommitted, upper = None, Tracked, seen # None,
             w \in Int, w <= started + Lookback, w <= seen
      PROVE  CoveredFrom(w)
  BY <1>1, <1>4, <1>6 DEF CoveredFrom, Settled, Owed
<1>7. CASE Pinned
  <2>1. ~KeepCommitted /\ upper # None /\ w = upper
    BY <1>2, <1>7 DEF Pinned, KeepCommitted, NewWatermark
  <2> QED BY <1>1, <1>5, <2>1
<1>8. CASE ~Pinned /\ KeepCommitted
  BY <1>8 DEF NewWatermark
<1>9. CASE ~Pinned /\ ~KeepCommitted /\ cfg.from = "max"
  <2>1. w = upper
    BY <1>9 DEF NewWatermark
  <2> QED BY <1>1, <1>5, <1>9, <2>1
<1>10. Excess(stage_secs) \in Nat /\ Rewind \in Nat
  BY DEF Clock, Excess, Rewind, HigherOf
<1>11. CASE ~Pinned /\ ~KeepCommitted /\ cfg.from = "table_max"
  <2>1. CASE RewindToMax
    <3>1. w = upper /\ upper # None
      BY <1>2, <1>11, <2>1 DEF NewWatermark, RewindToMax
    <3> QED BY <1>1, <1>5, <1>11, <3>1
  <2>2. CASE ~RewindToMax
    <3>1. w = AdvanceFrom(Rewind)
      BY <1>11, <2>2 DEF NewWatermark
    <3>2. seen # None /\ w = seen - Rewind
      BY <3>1 DEF AdvanceFrom
    <3>3. w \in Int /\ w <= seen /\ w <= now
      BY <1>1, <1>10, <3>2
    <3>4. CASE upper # None
      BY <1>1, <1>5, <1>11, <3>2, <3>3, <3>4
    <3>5. CASE upper = None /\ ~spans_statements
      BY <1>1, <1>4, <1>11, <3>2, <3>3, <3>5
         DEF Tracked, CoveredFrom, Settled, Owed
    <3>6. CASE upper = None /\ spans_statements
      <4>1. w <= started + Lookback
        BY <1>1, <3>2, <3>6 DEF Clock, Rewind, Excess, HigherOf
      <4> QED BY <1>6, <1>11, <3>2, <3>3, <3>6, <4>1 DEF Tracked
    <3> QED BY <3>4, <3>5, <3>6
  <2> QED BY <2>1, <2>2
<1>12. CASE ~Pinned /\ ~KeepCommitted /\ cfg.from = "stream"
  <2>1. w = Rewound(Rewind)
    BY <1>12 DEF NewWatermark
  <2>2. upper = None
    BY <1>2, <1>12 DEF RunPlan, Planned, Bounded
  <2>3. CASE ~spans_statements
    <3>1. w = seen
      BY <2>1, <2>3 DEF Rewind, Rewound
    <3> QED BY <1>1, <1>4, <1>12, <2>2, <2>3, <3>1
            DEF Tracked, CoveredFrom, Settled, Owed
  <2>4. CASE spans_statements
    <3>1. w = Rewound(Excess(stage_secs))
      BY <2>1, <2>4 DEF Rewind
    <3>2. w \in Int /\ w <= now /\ w <= started + Lookback /\ seen # None
      BY <1>1, <3>1, RewoundIs DEF Reading
    <3>3. ASSUME NEW k \in Owed PROVE Current(k) \/ src[k].wm + Lookback > w
      <4>1. src[k].wm \in Int
        BY DEF Owed
      <4>2. Current(k) \/ src[k].wm > started
        BY <1>4, <1>12, <2>2, <2>4 DEF Tracked, Settled
      <4> QED BY <3>2, <4>1, <4>2
    <3> QED BY <3>2, <3>3 DEF CoveredFrom
  <2> QED BY <2>3, <2>4
<1> QED BY <1>3, <1>7, <1>8, <1>9, <1>11, <1>12

\* What is left of an attempt that has ended.
LEMMA ForgetIs ==
  ASSUME ForgetAttempt
  PROVE  /\ last' = None /\ resume' = None /\ discarded' = FALSE
         /\ upper' = None /\ snapMax' = None
         /\ span' = {} /\ spans_statements' = FALSE /\ todo' = {} /\ pos' = None
         /\ seen' = None /\ best' = None /\ started' = 1 /\ stage_secs' = 0
         /\ buf' \in [Keys -> Nat] /\ \A k \in Keys : buf'[k] = 0
         /\ buf' = NoRows
  BY DEF ForgetAttempt, NoRows

\* A finished run saves a cursor that covers what it did not deliver.
LEMMA FinishKeeps == ASSUME IInv, Sound, Finish PROVE IInv'
<1> USE Constants, Types DEF IInv
<1>1. /\ pc = "finish" /\ pc' = "idle"
      /\ first' = 1 /\ attempt' = 1 /\ ForgetAttempt
      /\ UNCHANGED <<source, store, faults>>
  BY DEF Finish, Exit
<1>2. /\ last' = None /\ resume' = None /\ discarded' = FALSE
      /\ upper' = None /\ snapMax' = None
      /\ span' = {} /\ spans_statements' = FALSE /\ todo' = {} /\ pos' = None
      /\ seen' = None /\ best' = None /\ started' = 1 /\ stage_secs' = 0
      /\ buf' \in [Keys -> Nat] /\ \A k \in Keys : buf'[k] = 0
      /\ buf' = NoRows
  BY <1>1, ForgetIs
<1>3. /\ destExists
      /\ last # None => last = committed
      /\ Starts = {"established"} /\ ~CanDrop => last = committed
  BY <1>1 DEF ReadPlan, Reading, RunPlan, StateRow, Planned
<1>4. /\ marker' = None
      /\ \/ committed' = committed
         \/ committed' = last
         \/ NewWatermark # None /\ committed' = NewWatermark
  <2>1. IF cfg.advance /\ NewWatermark # None
        THEN committed' = NewWatermark /\ marker' = None
        ELSE IF Chunked
        THEN committed' = last /\ marker' = None
        ELSE committed' = committed /\ marker' = marker
    BY DEF Finish, state
  <2>2. ~Chunked => marker = None
    BY DEF StateRow
  <2> HIDE DEF IInv
  <2> QED BY <2>1, <2>2
<1>5. committed' # None => committed' \in Int /\ committed' <= now /\ CoveredFrom(committed')
  <2>1. committed # None => committed <= now /\ CoveredFrom(committed)
    BY <1>3 DEF Clock, NoLostUpdate
  <2>2. NewWatermark # None =>
          NewWatermark \in Int /\ NewWatermark <= now /\ CoveredFrom(NewWatermark)
    BY <1>1, NewWatermarkCovers
  <2> QED BY <1>3, <1>4, <2>1, <2>2
<1> USE <1>1 DEF source, store
<1>6. 1 <= now
  BY DEF Clock
<1>7. TypeOK'
  <2>1. 1 \in 1..MaxAttempts
    BY ConstantTypes
  <2>2. committed' \in Cursors /\ None \in Cursors /\ None \in Markers
    BY <1>5, CursorCases, MarkerCases
  <2> QED BY <1>2, <1>4, <2>1, <2>2 DEF TypeOK, Steps
<1>8. Clock'
  BY <1>2, <1>4, <1>5, <1>6 DEF Clock
<1>9. Versions'
  <2>1. \A k \in Keys : src[k].at # 0 => dest'[k] <= src[k].at
    BY DEF Versions
  <2> QED BY <1>2, <2>1, NothingInFlight
<1>10. StateRow'
  BY <1>2, <1>3, <1>4 DEF StateRow
<1>11. RunPlan'
  BY <1>2 DEF RunPlan, Early, Planned, Bounded
<1>12. Spanned' /\ ReadPlan'
  BY <1>1, <1>2 DEF Spanned, Split, ReadPlan, Reading
<1>13. NoLostUpdate'
  BY <1>5 DEF NoLostUpdate, CoveredFrom, Owed, Current
<1>14. MarkerVouches' /\ ReadCovers' /\ ReadDelivers'
  BY <1>4 DEF MarkerVouches, ReadCovers, ReadDelivers, Reading
<1> QED BY <1>7, <1>8, <1>9, <1>10, <1>11, <1>12, <1>13, <1>14

\* A failed attempt or a crash loses only what the state row does not vouch
\* for.
LEMMA FailKeeps ==
  ASSUME IInv, Sound, NEW landed \in SUBSET Keys, Fail(landed)
  PROVE  IInv'
<1> USE Constants, Types DEF IInv
<1>1. /\ \A k \in landed : buf[k] # 0
      /\ dest' = [k \in Keys |-> IF k \in landed THEN buf[k] ELSE dest[k]]
      /\ UNCHANGED <<source, destExists, state>>
      /\ faults < MaxFaults /\ faults' = faults + 1
  BY DEF Fail
<1>2. /\ pc' \in {"cursor", "idle"}
      /\ first' = first \/ first' = 1
      /\ (attempt < MaxAttempts /\ attempt' = attempt + 1) \/ attempt' = 1
      /\ ForgetAttempt
  BY DEF Fail, Exit
<1>3. /\ last' = None /\ resume' = None /\ discarded' = FALSE
      /\ upper' = None /\ snapMax' = None
      /\ span' = {} /\ spans_statements' = FALSE /\ todo' = {} /\ pos' = None
      /\ seen' = None /\ best' = None /\ started' = 1 /\ stage_secs' = 0
      /\ buf' \in [Keys -> Nat] /\ \A k \in Keys : buf'[k] = 0
      /\ buf' = NoRows
  BY <1>2, ForgetIs
<1>4. /\ dest' \in [Keys -> Nat]
      /\ \A k \in Keys : /\ dest'[k] <= now
                         /\ src[k].at # 0 => dest'[k] <= src[k].at
                         /\ Current(k) => Current(k)'
  BY <1>1, LandingKeeps
<1>5. UNCHANGED <<source, destExists, state>>
  BY <1>1
<1> USE <1>5 DEF source, state
<1>6. TypeOK'
  <2>1. faults' \in 0..MaxFaults
    BY <1>1, ConstantTypes DEF TypeOK
  <2>2. attempt' \in 1..MaxAttempts
    BY <1>2, ConstantTypes DEF TypeOK
  <2>3. None \in Cursors /\ None \in Markers
    BY CursorCases, MarkerCases
  <2>4. first' \in Nat /\ started' \in Nat /\ stage_secs' \in Nat
    BY <1>2, <1>3
  <2>5. pc' \in Steps
    BY <1>2 DEF Steps
  <2>6. /\ discarded' \in BOOLEAN /\ spans_statements' \in BOOLEAN
        /\ todo' \subseteq Keys /\ span' \subseteq Keys
    BY <1>3
  <2> QED BY <1>3, <1>4, <2>1, <2>2, <2>3, <2>4, <2>5, <2>6 DEF TypeOK
<1>7. Clock'
  BY <1>2, <1>3, <1>4 DEF Clock
<1>8. Versions'
  BY <1>3, <1>4, NothingInFlight
<1>9. StateRow'
  BY <1>2, <1>3 DEF StateRow, Chunked
<1>10. RunPlan'
  BY <1>2, <1>3 DEF RunPlan, Early, Planned, Bounded
<1>11. Spanned' /\ ReadPlan'
  BY <1>2, <1>3 DEF Spanned, Split, ReadPlan, Reading
<1>12. NoLostUpdate' /\ MarkerVouches'
  BY <1>4 DEF NoLostUpdate, CoveredFrom, MarkerVouches, Owed
<1>13. ReadCovers' /\ ReadDelivers'
  BY <1>2 DEF ReadCovers, ReadDelivers, Reading
<1> QED BY <1>6, <1>7, <1>8, <1>9, <1>10, <1>11, <1>12, <1>13

-----------------------------------------------------------------------------
(* The theorems.                                                            *)

\* Every first state, of a first or of an established sync, satisfies IInv.
LEMMA InitHolds == ASSUME Sound, Init PROVE IInv
<1> USE Constants
<1>1. /\ cfg \in Configs /\ now = 1 /\ src = InitialSource
      /\ marker = None /\ pc = "idle"
      /\ last = None /\ resume = None /\ discarded = FALSE
      /\ upper = None /\ snapMax = None
      /\ span = {} /\ spans_statements = FALSE
      /\ todo = {} /\ pos = None /\ buf = NoRows
      /\ seen = None /\ best = None
      /\ started = 1 /\ stage_secs = 0 /\ first = 1
      /\ attempt = 1 /\ faults = 0
  BY DEF Init
<1>2. PICK start \in Starts :
        IF start = "first"
        THEN dest = NoRows /\ destExists = FALSE /\ committed = None
        ELSE /\ dest = [k \in Keys |->
                         IF k \in InitialRows \cap Selected THEN 1 ELSE 0]
             /\ destExists = TRUE
             /\ committed = 1
  BY DEF Init
<1>3. None \in Cursors /\ 1 \in Cursors /\ None \in Markers
  BY CursorCases, MarkerCases
<1>4. /\ src \in [Keys -> Rows]
      /\ \A k \in Keys :
           IF k \in InitialRows
           THEN src[k].at = 1 /\ src[k].wm = IF k \in NullRows THEN None ELSE 1
           ELSE src[k].at = 0 /\ src[k].wm = None
  <2>1. \A k \in Keys : src[k] = IF k \notin InitialRows THEN [wm |-> None, at |-> 0]
                                 ELSE [wm |-> IF k \in NullRows THEN None ELSE 1, at |-> 1]
    BY <1>1 DEF InitialSource, Absent
  <2>2. ASSUME NEW k \in Keys PROVE src[k] \in Rows
    <3>1. PICK w \in Cursors, a \in Nat : src[k] = [wm |-> w, at |-> a]
      BY <1>3, <2>1
    <3> QED BY <3>1 DEF Rows
  <2>3. src = [k \in Keys |-> src[k]]
    BY <1>1 DEF InitialSource
  <2>4. src \in [Keys -> Rows]
    BY <2>2, <2>3
  <2> QED BY <2>1, <2>4
<1>5. /\ buf \in [Keys -> Nat] /\ \A k \in Keys : buf[k] = 0
      /\ dest \in [Keys -> Nat] /\ \A k \in Keys : dest[k] \in {0, 1}
      /\ \A k \in Keys : k \notin InitialRows => dest[k] = 0
  BY <1>1, <1>2 DEF NoRows
<1>6. /\ destExists \in BOOLEAN
      /\ committed = None \/ committed = 1
      /\ ~destExists => committed = None
      /\ committed = 1 => \A k \in Keys \cap Selected : Current(k)
  <2>1. CASE start = "first"
    <3>1. destExists = FALSE /\ committed = None
      BY <1>2, <2>1
    <3>2. None # 1
      OBVIOUS
    <3> QED BY <3>1, <3>2
  <2>2. CASE start # "first"
    BY <1>2, <1>4, <2>2 DEF Current
  <2> QED BY <2>1, <2>2
<1>7. TypeOK
  <2>1. 1 \in 1..MaxAttempts /\ 0 \in 0..MaxFaults
    BY ConstantTypes
  <2>2. committed \in Cursors
    BY <1>3, <1>6
  <2> QED BY <1>1, <1>3, <1>4, <1>5, <1>6, <2>1, <2>2 DEF TypeOK, Steps
<1>8. Clock
  BY <1>1, <1>4, <1>5, <1>6 DEF Clock
<1>9. Versions
  BY <1>1, <1>4, <1>5 DEF Versions
<1>10. StateRow
  <2>1. Starts = {"established"} => start # "first"
    OBVIOUS
  <2>2. Starts = {"established"} => destExists /\ committed = 1
    BY <1>2, <2>1
  <2>3. \A k \in InitialRows \ NullRows : src[k].wm = 1
    BY <1>4
  <2>4. NoNewKeys => \A k \in Selected : src[k].at = 1
    BY <1>4 DEF NoNewKeys
  <2> QED BY <1>1, <1>6, <2>2, <2>3, <2>4 DEF StateRow
<1>11. RunPlan /\ Spanned /\ ReadPlan
  BY <1>1 DEF RunPlan, Spanned, Split, ReadPlan, Early, Planned, Bounded, Reading
<1>12. NoLostUpdate
  BY <1>6 DEF NoLostUpdate, CoveredFrom, Owed
<1>13. MarkerVouches /\ ReadCovers /\ ReadDelivers
  BY <1>1 DEF MarkerVouches, ReadCovers, ReadDelivers, Reading
<1> QED BY <1>7, <1>8, <1>9, <1>10, <1>11, <1>12, <1>13 DEF IInv

\* Every step preserves IInv.
LEMMA StepKeeps == ASSUME Sound, IInv, [Next]_vars PROVE IInv'
<1>1. CASE Next
  <2>18. CASE ProbeBounds
    BY <2>18, ProbeBoundsKeeps
  <2>19. CASE \E rows \in SUBSET (Returned \cap todo) :
                \E sent \in SUBSET rows : CancelWindow(rows, sent)
    BY <2>19, CancelWindowKeeps
  <2>1. CASE \E k \in Keys : Change(k) \/ Delete(k)
    BY <2>1, ChangeKeeps, DeleteKeeps
  <2>2. CASE Tick
    BY <2>2, TickKeeps
  <2>3. CASE DropDestination
    BY <2>3, DropKeeps
  <2>4. CASE \E landed \in SUBSET Keys : Fail(landed)
    BY <2>4, FailKeeps
  <2>5. CASE Begin
    BY <2>5, BeginKeeps
  <2>6. CASE ReadCursor
    BY <2>6, ReadCursorKeeps
  <2>7. CASE ReadMarker
    BY <2>7, ReadMarkerKeeps
  <2>8. CASE Probe
    BY <2>8, ProbeKeeps
  <2>9. CASE ClearDiscarded
    BY <2>9, ClearDiscardedKeeps
  <2>10. CASE Prepare
    BY <2>10, PrepareKeeps
  <2>11. CASE ReadChunk
    BY <2>11, ReadChunkKeeps
  <2>12. CASE LandChunk
    BY <2>12, LandChunkKeeps
  <2>13. CASE CommitChunk
    BY <2>13, CommitChunkKeeps
  <2>14. CASE \E window \in SUBSET todo : ReadWindow(window)
    BY <2>14, ReadWindowKeeps
  <2>15. CASE \E rows \in SUBSET Keys : LandSome(rows)
    BY <2>15, LandSomeKeeps
  <2>16. CASE ReadDone
    BY <2>16, ReadDoneKeeps
  <2>17. CASE Finish
    BY <2>17, FinishKeeps
  <2> QED BY <1>1, <2>1, <2>2, <2>3, <2>4, <2>5, <2>6, <2>7, <2>8, <2>9, <2>10,
             <2>11, <2>12, <2>13, <2>14, <2>15, <2>16, <2>17, <2>18, <2>19
          DEF Next, Environment, Run
<1>2. CASE UNCHANGED vars
  <2> USE <1>2 DEF vars, source, store, state, plan, read, retry, IInv
  <2>1. TypeOK' /\ Clock' /\ Versions'
    BY DEF TypeOK, Clock, Versions
  <2>2. StateRow' /\ RunPlan' /\ ReadPlan'
    BY DEF StateRow, RunPlan, ReadPlan, Chunked, Pinned
  <2>5. Spanned'
    BY SpannedStays
  <2>3. NoLostUpdate' /\ MarkerVouches'
    BY DEF NoLostUpdate, CoveredFrom, MarkerVouches, Owed, Current
  <2>4. ReadCovers' /\ ReadDelivers'
    BY DEF ReadCovers, ReadDelivers, KeepCommitted, Tracked, Owed, InHand,
           Current, Settled, StillDue, InFilter, ReturnsNull, Pinned
  <2> QED BY <2>1, <2>2, <2>3, <2>4, <2>5
<1> QED BY <1>1, <1>2

\* IInv holds of every state of every configuration Sound admits.
THEOREM Invariance == Sound => (Spec => []IInv)
<1> SUFFICES ASSUME Sound PROVE Spec => []IInv
  OBVIOUS
<1>1. Init => IInv
  BY InitHolds
<1>2. IInv /\ [Next]_vars => IInv'
  BY StepKeeps
<1> QED BY <1>1, <1>2, PTL DEF Spec

\* The variables keep their types: what the state row and a run can hold.
THEOREM Typing == Sound => (Spec => []TypeOK)
<1> SUFFICES ASSUME Sound PROVE Spec => []TypeOK
  OBVIOUS
<1>1. IInv => TypeOK
  BY DEF IInv
<1> QED BY <1>1, Invariance, PTL

\* Whatever ran, failed, resumed or was retried, the saved cursor leaves no
\* row behind that the destination does not hold (persist_watermark and
\* persist_chunk_cursor never vouch for more than was delivered).
THEOREM NoUpdateIsLost == Sound => (Spec => []NoLostUpdate)
<1> SUFFICES ASSUME Sound PROVE Spec => []NoLostUpdate
  OBVIOUS
<1>1. IInv => NoLostUpdate
  BY DEF IInv
<1> QED BY <1>1, Invariance, PTL

\* What a resume marker records (ChunkPlan::marker_upper) vouches for every
\* key up to it.
THEOREM MarkersVouch == Sound => (Spec => []MarkerVouches)
<1> SUFFICES ASSUME Sound PROVE Spec => []MarkerVouches
  OBVIOUS
<1>1. IInv => MarkerVouches
  BY DEF IInv
<1> QED BY <1>1, Invariance, PTL

\* A run that resumes nothing and finishes has delivered every change from
\* before it began.
THEOREM RunsDeliver == Sound => (Spec => RunDelivers)
<1> SUFFICES ASSUME Sound PROVE Spec => RunDelivers
  OBVIOUS
<1> DEFINE Delivers == Finish /\ resume = None =>
                         \A k \in Owed : src[k].at <= first => Current(k)
<1>1. IInv => Delivers
  <2> SUFFICES ASSUME IInv, Finish, resume = None,
                      NEW k \in Owed, src[k].at <= first
               PROVE  Current(k)
    OBVIOUS
  <2>1. pc = "finish" /\ todo = {} /\ buf = NoRows
    BY DEF Finish, IInv, ReadPlan
  <2>2. k \in Keys /\ buf[k] = 0
    BY <2>1, Constants DEF Owed, NoRows
  <2> QED BY <2>1, <2>2 DEF IInv, ReadDelivers, Reading, InHand, StillDue, Current
<1>2. Delivers => [Delivers]_vars
  OBVIOUS
<1> QED BY <1>1, Invariance, PTL DEF RunDelivers

\* With advance_watermark=False no run moves the saved cursor, whatever it
\* reads, saves or clears.
THEOREM BackfillsLeaveTheCursor == Sound => (Spec => CursorUntouched)
<1> SUFFICES ASSUME Sound PROVE Spec => CursorUntouched
  OBVIOUS
<1>1. IInv /\ [Next]_vars => [~cfg.advance => committed' = committed]_vars
  <2> SUFFICES ASSUME IInv, Next, ~cfg.advance PROVE committed' = committed
    OBVIOUS
  <2>1. /\ pc \in {"mark", "finish"} => last = committed
        /\ pc # "clear"
    BY DEF IInv, RunPlan, Planned
  <2>2. CASE CommitChunk \/ Finish
    BY <2>1, <2>2 DEF CommitChunk, Finish, state
  <2>3. CASE ClearDiscarded
    BY <2>1, <2>3 DEF ClearDiscarded
  <2>4. CASE \E k \in Keys : Change(k) \/ Delete(k)
    BY <2>4 DEF Change, Delete, state
  <2>5. CASE \E landed \in SUBSET Keys : Fail(landed)
    BY <2>5 DEF Fail, state
  <2>6. CASE Tick \/ DropDestination \/ Begin \/ ReadCursor \/ ReadMarker
    BY <2>6 DEF Tick, DropDestination, Begin, ReadCursor, ReadMarker, state
  <2>10. CASE Probe \/ ProbeBounds
    BY <2>10 DEF Probe, ProbeBounds, state
  <2>11. CASE \E rows \in SUBSET (Returned \cap todo) :
                \E sent \in SUBSET rows : CancelWindow(rows, sent)
    BY <2>11 DEF CancelWindow, state
  <2>7. CASE Prepare \/ ReadChunk \/ LandChunk \/ ReadDone
    BY <2>7 DEF Prepare, ReadChunk, LandChunk, ReadDone, state
  <2>8. CASE \E window \in SUBSET todo : ReadWindow(window)
    BY <2>8 DEF ReadWindow, state
  <2>9. CASE \E rows \in SUBSET Keys : LandSome(rows)
    BY <2>9 DEF LandSome, state
  <2> QED BY <2>2, <2>3, <2>4, <2>5, <2>6, <2>7, <2>8, <2>9, <2>10, <2>11
          DEF Next, Environment, Run
<1> QED BY <1>1, Invariance, PTL DEF Spec, CursorUntouched

-----------------------------------------------------------------------------
(* Cursors do not fall behind, where rows are not deleted.                  *)

\* Steps that leave cursors, source and read alone keep CInv.
LEMMA CursorsFrame ==
  ASSUME CInv, pc' \in Bounded => pc \in Bounded, pc' \in Reading => pc \in Reading,
         UNCHANGED <<cfg, src, committed, marker, last, resume, upper, snapMax,
                     seen, best, todo>>
  PROVE  CInv'
<1>1. CursorsAttained'
  BY DEF CInv, CursorsAttained, Attained
<1>2. MarkersInReach'
  BY DEF CInv, MarkersInReach, InReach
<1>3. StreamReaches'
  BY DEF CInv, StreamReaches
<1> QED BY <1>1, <1>2, <1>3 DEF CInv

\* A change stamps a row later than it was.
LEMMA ChangeReaches ==
  ASSUME IInv, CInv, NEW k \in Keys, Change(k)
  PROVE  CInv'
<1> USE Constants, Types DEF IInv
<1>1. PICK stamp \in (now + 1 - Lag)..(now + 1) :
        /\ src[k].wm # None => stamp > src[k].wm
        /\ src' = [src EXCEPT ![k] = [wm |-> stamp, at |-> now + 1]]
  BY DEF Change
<1>2. stamp \in Int /\ stamp # None
  BY <1>1
<1>3. /\ UNCHANGED <<cfg, committed, marker, last, resume, upper, snapMax, seen, best, todo, pc>>
      /\ \A j \in Keys : src'[j] = IF j = k THEN [wm |-> stamp, at |-> now + 1] ELSE src[j]
  BY <1>1 DEF Change, state, plan, read, TypeOK
<1>4. ASSUME NEW j \in Keys, src[j].wm # None
      PROVE  src'[j].wm # None /\ src'[j].wm \in Int /\ src'[j].wm >= src[j].wm
  <2>1. CASE j = k
    BY <1>1, <1>2, <1>3, <1>4, <2>1
  <2>2. CASE j # k
    BY <1>3, <1>4, <2>2
  <2> QED BY <2>1, <2>2
<1>5. ASSUME NEW c, c # None => c \in Int, Attained(c)
      PROVE  c # None => \E j \in Selected : src'[j].wm # None /\ src'[j].wm >= c
  BY <1>4, <1>5 DEF Attained
<1>6. CursorsAttained'
  BY <1>3, <1>5 DEF CInv, CursorsAttained, Attained
<1>7. MarkersInReach'
  BY <1>3 DEF CInv, MarkersInReach, InReach
<1>8. StreamReaches'
  <2>1. todo \subseteq Keys
    BY DEF TypeOK
  <2>2. ASSUME NEW j \in todo, src[j].wm # None, last # None, src[j].wm >= last
        PROVE  src'[j].wm # None /\ src'[j].wm >= last
    BY <1>4, <2>1, <2>2
  <2> QED BY <1>3, <2>2 DEF CInv, StreamReaches
<1> QED BY <1>6, <1>7, <1>8 DEF CInv

\* What a statement's rows make of the tracker: it only rises, to a watermark
\* of a row that was read, and so was in the filter.
LEMMA ObservedIs ==
  ASSUME IInv, CInv, NEW rows \in SUBSET Returned, Observe(rows)
  PROVE  /\ seen' # None => seen' \in Int
         /\ seen # None => seen' # None /\ seen' >= seen
         /\ \A k \in rows : src[k].wm # None => seen' # None /\ seen' >= src[k].wm
         /\ seen' # None => seen' = seen \/ \E k \in rows : src[k].wm = seen'
         /\ seen' # None /\ last # None => seen' + Lookback > last
<1> USE Constants, Types DEF IInv
<1> DEFINE m == MaxWatermark(rows)
<1>1. rows \subseteq Selected /\ \A k \in rows : InFilter(src[k])
  BY DEF Returned
<1>2. /\ m # None => m \in Int /\ \E k \in rows : src[k].wm = m
      /\ \A k \in rows : src[k].wm # None => m # None /\ src[k].wm <= m
  BY <1>1, MaxWatermarkIs, CursorCases
<1>3. m # None /\ last # None => m + Lookback > last
  BY <1>1, <1>2 DEF InFilter
<1> HIDE DEF m
<1>4. seen' = LaterOf(seen, m)
  BY DEF Observe, m
<1>5. /\ seen' = None \/ seen' = seen \/ seen' = m
      /\ seen # None => seen' # None /\ seen' >= seen
      /\ m # None => seen' # None /\ seen' >= m
  BY <1>2, <1>4 DEF LaterOf, HigherOf
<1>6. seen # None /\ last # None => seen + Lookback > last
  BY DEF CInv, MarkersInReach
<1>7. seen' # None => seen' \in Int
  BY <1>2, <1>5
<1>8. \A k \in rows : src[k].wm # None => seen' # None /\ seen' >= src[k].wm
  BY <1>1, <1>2, <1>5, <1>7
<1>9. seen' # None => seen' = seen \/ \E k \in rows : src[k].wm = seen'
  BY <1>2, <1>5
<1>10. seen' # None /\ last # None => seen' + Lookback > last
  BY <1>3, <1>5, <1>6
<1> QED BY <1>5, <1>7, <1>8, <1>9, <1>10

\* One statement keeps CInv, if every row it was to return is read or still in
\* front of the read.
LEMMA StatementReaches ==
  ASSUME IInv, CInv, pc = "read", pc' \in {"read", "land"}, NEW rows \in SUBSET Returned,
         Observe(rows), todo' \subseteq todo,
         \A k \in Returned \cap todo : k \in rows \/ k \in todo',
         UNCHANGED <<cfg, src, committed, marker, last, resume, upper, snapMax, best>>
  PROVE  CInv'
<1> USE Constants, Types DEF IInv
<1>1. /\ seen' # None => seen' \in Int
      /\ seen # None => seen' # None /\ seen' >= seen
      /\ \A k \in rows : src[k].wm # None => seen' # None /\ seen' >= src[k].wm
      /\ seen' # None => seen' = seen \/ \E k \in rows : src[k].wm = seen'
      /\ seen' # None /\ last # None => seen' + Lookback > last
  BY ObservedIs
<1>2. rows \subseteq Selected
  BY DEF Returned
<1>3. CursorsAttained'
  <2>1. cfg.from # "table_max" /\ seen' # None =>
          \E k \in Selected : src[k].wm # None /\ src[k].wm >= seen'
    BY <1>1, <1>2 DEF CInv, CursorsAttained, Attained
  <2> QED BY <2>1 DEF CInv, CursorsAttained, Attained
<1>4. MarkersInReach'
  BY <1>1 DEF CInv, MarkersInReach, InReach, Bounded, Planned
<1>5. StreamReaches'
  <2> SUFFICES ASSUME cfg.from = "stream", resume = None, last # None
               PROVE  \/ \E k \in todo' : src[k].wm # None /\ src[k].wm >= last
                      \/ seen' # None /\ seen' >= last
                      \/ Lookback = 0 /\ seen' = None
    BY DEF StreamReaches
  <2>1. \/ \E k \in todo : src[k].wm # None /\ src[k].wm >= last
        \/ seen # None /\ seen >= last
        \/ Lookback = 0 /\ seen = None
    BY DEF CInv, StreamReaches, Reading
  <2>2. upper = None
    BY DEF RunPlan, Bounded, Planned, Pinned
  <2>3. ASSUME NEW k \in todo, src[k].wm # None, src[k].wm >= last, k \notin todo'
        PROVE  (seen' # None /\ seen' >= last) \/ Lookback = 0
    <3>1. k \in Keys /\ k \in Selected /\ src[k].at # 0 /\ src[k].wm \in Int /\ last \in Int
      BY <2>3 DEF ReadPlan, Clock
    <3>2. CASE src[k].wm + Lookback > last
      <4>1. k \in Returned
        BY <2>2, <2>3, <3>1, <3>2 DEF Returned, InFilter
      <4>2. seen' # None /\ seen' >= src[k].wm
        BY <1>1, <2>3, <4>1
      <4> QED BY <1>1, <2>3, <3>1, <4>2
    <3>3. CASE ~(src[k].wm + Lookback > last)
      BY <2>3, <3>1, <3>3
    <3> QED BY <3>2, <3>3
  <2>4. Lookback = 0 /\ seen' # None => seen' >= last
    BY <1>1
  <2>5. seen # None /\ seen >= last => seen' # None /\ seen' >= last
    BY <1>1
  <2> QED BY <2>1, <2>3, <2>4, <2>5
<1> QED BY <1>3, <1>4, <1>5 DEF CInv

\* The end of an attempt leaves the state row and nothing else.
LEMMA FailReaches ==
  ASSUME IInv, CInv, NEW landed \in SUBSET Keys, Fail(landed)
  PROVE  CInv'
<1>1. /\ pc' \notin Bounded
      /\ UNCHANGED <<cfg, src, committed, marker>>
      /\ last' = None /\ resume' = None /\ upper' = None /\ seen' = None /\ best' = None
  BY ForgetIs DEF Fail, Exit, source, state, Bounded, Planned
<1>2. CursorsAttained'
  BY <1>1 DEF CInv, CursorsAttained, Attained
<1>3. MarkersInReach'
  BY <1>1 DEF CInv, MarkersInReach, InReach
<1>4. StreamReaches'
  BY <1>1 DEF StreamReaches
<1> QED BY <1>2, <1>3, <1>4 DEF CInv

\* A run starts from the cursor and the marker of the state row, or from none.
LEMMA PlanReaches ==
  ASSUME IInv, CInv, ReadCursor \/ ReadMarker
  PROVE  CInv'
<1>1. /\ pc \in {"cursor", "marker"} /\ pc' \in {"marker", "probe"}
      /\ UNCHANGED <<cfg, src, committed, marker, upper, snapMax, seen, best>>
      /\ last' = None \/ last' = committed
      /\ resume' = None \/ (resume' = marker /\ last' = committed)
  <2>1. CASE ReadCursor
    <3>1. pc = "cursor"
      BY <2>1 DEF ReadCursor
    <3>2. resume = None
      BY <3>1 DEF IInv, RunPlan
    <3> QED BY <2>1, <3>2 DEF ReadCursor, source, state, read
  <2>2. CASE ReadMarker
    <3>1. pc = "marker"
      BY <2>2 DEF ReadMarker
    <3>2. last = committed
      BY <3>1 DEF IInv, RunPlan
    <3>3. last' = None \/ last' = last
      BY <2>2 DEF ReadMarker
    <3>4. resume' = None \/ (resume' = marker /\ last' = last)
      BY <2>2 DEF ReadMarker
    <3> QED BY <2>2, <3>2, <3>3, <3>4 DEF ReadMarker, source, state, read
  <2> QED BY <2>1, <2>2
<1>2. seen = None /\ best = None
  BY <1>1 DEF IInv, RunPlan, Early
<1>3. CursorsAttained'
  BY <1>1, <1>2 DEF CInv, CursorsAttained, Attained
<1>4. MarkersInReach'
  BY <1>1, <1>2 DEF CInv, MarkersInReach, InReach, Bounded, Planned
<1>5. StreamReaches'
  BY <1>1 DEF StreamReaches, Reading
<1> QED BY <1>3, <1>4, <1>5 DEF CInv

\* No saved cursor is past a MAX of the rows.
LEMMA ProbeReaches ==
  ASSUME IInv, CInv, Probe
  PROVE  CInv'
<1> USE Constants, Types DEF IInv
<1>1. /\ pc = "probe" /\ pc' = "bounds"
      /\ cfg.from = "max" => snapMax' = MaxWatermark(Selected)
      /\ cfg.from = "stream" => snapMax' = None
      /\ upper' = IF Pinned THEN resume.upper ELSE snapMax'
      /\ UNCHANGED <<cfg, src, committed, marker, last, resume, seen, best>>
  BY DEF Probe, source, state, read
<1>2. seen = None /\ best = None
  BY <1>1 DEF RunPlan, Early
<1>3. /\ cfg.from = "max" /\ snapMax' # None =>
           snapMax' \in Int /\ \E k \in Selected : src[k].wm = snapMax'
      /\ cfg.from = "max" =>
           \A k \in Selected : src[k].wm # None => snapMax' # None /\ src[k].wm <= snapMax'
  BY <1>1, MaxWatermarkIs, CursorCases
<1>4. cfg.from \in {"max", "table_max", "stream"}
  BY ConstantTypes DEF TypeOK, Config, CursorSources
<1>5. CursorsAttained'
  <2>1. cfg.from # "table_max" => Attained(upper)'
    <3>1. CASE Pinned
      BY <1>1, <3>1 DEF CInv, CursorsAttained, Attained, Pinned
    <3>2. CASE ~Pinned
      BY <1>1, <1>3, <1>4, <3>2 DEF Attained
    <3> QED BY <3>1, <3>2
  <2> QED BY <1>1, <2>1 DEF CInv, CursorsAttained, Attained
<1>6. MarkersInReach'
  <2>1. cfg.from = "max" => InReach(snapMax, last)'
    <3> SUFFICES ASSUME cfg.from = "max", snapMax' # None, last # None
                 PROVE  snapMax' >= last
      BY <1>1 DEF InReach
    <3>1. PICK k \in Selected : src[k].wm # None /\ src[k].wm >= last
      BY DEF CInv, CursorsAttained, Attained
    <3>2. src[k].wm <= snapMax' /\ src[k].wm \in Int /\ last \in Int /\ snapMax' \in Int
      BY <1>3, <3>1
    <3> QED BY <3>1, <3>2
  <2> QED BY <1>1, <1>2, <2>1 DEF CInv, MarkersInReach, InReach
<1>7. StreamReaches'
  BY <1>1 DEF StreamReaches, Reading
<1> QED BY <1>5, <1>6, <1>7 DEF CInv

\* A state row set aside has no cursor.
LEMMA ClearReaches ==
  ASSUME IInv, CInv, ClearDiscarded
  PROVE  CInv'
<1>1. /\ pc = "clear" /\ pc' = "prepare" /\ committed' = None /\ marker' = None
      /\ UNCHANGED <<cfg, src, last, resume, upper, snapMax, seen, best>>
  BY DEF ClearDiscarded, source, plan, read
<1>2. CursorsAttained'
  BY <1>1 DEF CInv, CursorsAttained, Attained
<1>3. MarkersInReach'
  BY <1>1 DEF CInv, MarkersInReach, InReach, Bounded, Planned
<1>4. StreamReaches'
  BY <1>1 DEF StreamReaches, Reading
<1> QED BY <1>2, <1>3, <1>4 DEF CInv

\* A read with no bound has a row as new as the cursor in front of it.
LEMMA PrepareReaches ==
  ASSUME IInv, Sound, CInv, Prepare
  PROVE  CInv'
<1> USE Constants, Types DEF IInv
<1>1. /\ pc = "prepare" /\ pc' = "read"
      /\ resume = None => todo' = Selected \cap span
      /\ UNCHANGED <<cfg, src, committed, marker, last, resume, upper, snapMax, seen, best>>
  BY DEF Prepare, source, state, plan
<1>2. CursorsAttained'
  BY <1>1 DEF CInv, CursorsAttained, Attained
<1>3. MarkersInReach'
  BY <1>1 DEF CInv, MarkersInReach, InReach, Bounded, Planned
<1>4. StreamReaches'
  <2> SUFFICES ASSUME cfg.from = "stream", resume = None, last # None
               PROVE  \E k \in todo' : src[k].wm # None /\ src[k].wm >= last
    BY <1>1 DEF StreamReaches
  <2>1. PICK k \in Selected : src[k].wm # None /\ src[k].wm >= last
    BY DEF CInv, CursorsAttained, Attained
  <2>2. upper = None
    BY <1>1 DEF RunPlan, Bounded, Planned, Pinned
  <2>3. Selected \subseteq span
    BY <1>1, <2>2, UnboundedSpan DEF Split, Tracked
  <2> QED BY <1>1, <2>1, <2>3
<1> QED BY <1>2, <1>3, <1>4 DEF CInv

\* A keyset statement reads what it leaves behind its cursor.
LEMMA ReadChunkReaches ==
  ASSUME IInv, CInv, ReadChunk
  PROVE  CInv'
<1> USE Constants, Types DEF IInv
<1> DEFINE left == Returned \cap todo
<1>1. /\ pc = "read" /\ pc' = "land"
      /\ UNCHANGED <<cfg, src, committed, marker, last, resume, upper, snapMax, best>>
  BY DEF ReadChunk, source, state, plan
<1>2. PICK chunk \in FirstRows(left) :
        /\ Buffer(chunk)
        /\ \/ chunk = {} /\ pos' = None /\ todo' = {}
           \/ \E cursor \in chunk :
                /\ \A k \in chunk : k <= cursor
                /\ pos' = cursor
                /\ todo' = IF Cardinality(chunk) < ChunkRows
                           THEN {}
                           ELSE {k \in todo : k > cursor}
  BY DEF ReadChunk
<1>3. left \subseteq Keys /\ left \subseteq todo /\ left \subseteq Returned
  BY DEF Returned
<1>4. /\ chunk \subseteq left
      /\ Cardinality(chunk) < ChunkRows => chunk = left
      /\ chunk = {} => left = {}
      /\ \A k \in chunk, j \in left \ chunk : k < j
  <2>1. left \in SUBSET Keys
    BY <1>3
  <2> HIDE Constants, Types DEF IInv
  <2> HIDE DEF left
  <2> QED BY <2>1, FirstRowsAre
<1>5. chunk \in SUBSET Returned /\ todo' \subseteq todo
  BY <1>2, <1>3, <1>4
<1>6. ASSUME NEW k \in left PROVE k \in chunk \/ k \in todo'
  <2>1. CASE chunk = {}
    BY <1>4, <2>1
  <2>2. CASE chunk # {}
    <3>1. PICK cursor \in chunk :
            todo' = IF Cardinality(chunk) < ChunkRows
                    THEN {}
                    ELSE {j \in todo : j > cursor}
      BY <1>2, <2>2
    <3>2. CASE Cardinality(chunk) < ChunkRows
      BY <1>4, <3>2
    <3>3. CASE ~(Cardinality(chunk) < ChunkRows)
      <4>1. todo' = {j \in todo : j > cursor} /\ k \in todo
        BY <1>3, <3>1, <3>3
      <4>2. k \notin chunk => cursor < k
        BY <1>4
      <4>3. k \in Int /\ cursor \in Int
        BY <1>3, <1>4
      <4> QED BY <4>1, <4>2, <4>3
    <3> QED BY <3>2, <3>3
  <2> QED BY <2>1, <2>2
<1>7. Observe(chunk) /\ pc' \in {"read", "land"}
  BY <1>1, <1>2 DEF Buffer
<1> QED BY <1>1, <1>5, <1>6, <1>7, StatementReaches

\* So does a statement of a read without a marker, and a cancelled window
\* leaves all it was to return.
LEMMA WindowReaches ==
  ASSUME IInv, CInv,
         \/ \E window \in SUBSET todo : ReadWindow(window)
         \/ \E rows \in SUBSET (Returned \cap todo) :
              \E sent \in SUBSET rows : CancelWindow(rows, sent)
  PROVE  CInv'
<1>1. ASSUME NEW window \in SUBSET todo, ReadWindow(window) PROVE CInv'
  <2> DEFINE rows == Returned \cap window
  <2>1. /\ pc = "read" /\ pc' \in {"read", "land"}
        /\ Observe(rows) /\ todo' = todo \ window
        /\ UNCHANGED <<cfg, src, committed, marker, last, resume, upper, snapMax, best>>
    BY <1>1 DEF ReadWindow, Buffer, source, state, plan
  <2>2. /\ rows \in SUBSET Returned /\ todo' \subseteq todo
        /\ \A k \in Returned \cap todo : k \in rows \/ k \in todo'
    BY <2>1
  <2> HIDE DEF rows
  <2> QED BY <2>1, <2>2, StatementReaches
<1>2. ASSUME NEW rows \in SUBSET (Returned \cap todo), NEW sent \in SUBSET rows,
             CancelWindow(rows, sent)
      PROVE  CInv'
  <2>1. /\ pc = "read" /\ pc' \in {"read", "land"}
        /\ Observe(rows) /\ todo' = todo
        /\ UNCHANGED <<cfg, src, committed, marker, last, resume, upper, snapMax, best>>
    BY <1>2 DEF CancelWindow, source, state, plan
  <2>2. /\ rows \in SUBSET Returned /\ todo' \subseteq todo
        /\ \A k \in Returned \cap todo : k \in rows \/ k \in todo'
    BY <2>1
  <2> QED BY <2>1, <2>2, StatementReaches
<1> QED BY <1>1, <1>2

\* The floor of WatermarkTracker::rewound: a cursor taken from the rows is no
\* later than one of them, and no earlier than the cursor the run started from
\* unless all of them are.
LEMMA RewoundReaches ==
  ASSUME IInv, CInv, NEW secs \in Nat
  PROVE  LET r == Rewound(secs)
         IN /\ seen = None => r = None
            /\ seen # None =>
                 /\ r \in Int /\ r <= seen
                 /\ last # None => /\ r + Lookback > last \/ r >= last
                                   /\ seen >= last => r >= last
<1> USE Constants, Types DEF IInv
<1> DEFINE r == Rewound(secs)
<1>1. seen # None => seen \in Int
  OBVIOUS
<1>2. last # None => last \in Int
  OBVIOUS
<1>3. seen # None /\ last # None => seen + Lookback > last
  BY DEF CInv, MarkersInReach
<1>4. CASE seen = None \/ secs = 0
  <2>1. r = seen
    BY <1>4 DEF Rewound
  <2> HIDE DEF r
  <2> QED BY <1>1, <1>2, <1>3, <2>1 DEF r
<1>5. CASE seen # None /\ secs # 0
  <2>1. /\ last = None => r = seen - secs
        /\ last # None => r = HigherOf(seen - secs, LowerOf(last, seen))
    BY <1>5 DEF Rewound
  <2> HIDE DEF r
  <2>2. last # None => r = seen - secs \/ r = last \/ r = seen
    BY <2>1 DEF HigherOf, LowerOf
  <2>3. r \in Int /\ r <= seen
    BY <1>1, <1>2, <1>5, <2>1 DEF HigherOf, LowerOf
  <2>4. last # None => r >= last \/ r >= seen
    BY <1>1, <1>2, <1>5, <2>1 DEF HigherOf, LowerOf
  <2>5. last # None /\ seen >= last => r >= last
    BY <1>1, <1>2, <1>5, <2>3, <2>4
  <2>6. last # None => r + Lookback > last \/ r >= last
    BY <1>1, <1>2, <1>3, <1>5, <2>3, <2>4
  <2> QED BY <1>5, <2>3, <2>5, <2>6 DEF r
<1> QED BY <1>4, <1>5

\* A chunk's marker records a bound of rows that were read, and the cursor the
\* run started from goes back beside it.
LEMMA CommitChunkReaches ==
  ASSUME IInv, CInv, CommitChunk
  PROVE  CInv'
<1> USE Constants, Types DEF IInv
<1> DEFINE mu == MarkerUpper
           r  == Rewound(Excess(now - first))
<1>1. /\ pc = "mark" /\ pc' \in {"read", "finish"} /\ committed' = last
      /\ marker' = [cursor |-> pos, upper |-> mu]
      /\ best' = IF Tracked THEN StreamBest ELSE best
      /\ UNCHANGED <<cfg, src, last, resume, upper, snapMax, seen, todo>>
  BY DEF CommitChunk, source, plan
<1>2. marker' # None => marker'.upper = mu
  BY <1>1
<1>3. Tracked <=> cfg.from = "stream"
  BY <1>1, ConstantTypes
     DEF ReadPlan, Chunked, TypeOK, Config, CursorSources, Tracked
<1>4. cfg.from \in {"max", "stream"}
  BY <1>1, ConstantTypes DEF ReadPlan, Chunked, TypeOK, Config, CursorSources
<1>5. Excess(now - first) \in Nat
  BY DEF Clock, Excess, HigherOf
<1>6. /\ r # None => seen # None /\ r \in Int /\ r <= seen
      /\ r # None /\ last # None => r + Lookback > last \/ r >= last
  BY <1>5, RewoundReaches
<1> HIDE DEF r
<1>7. Attained(best) /\ Attained(seen) /\ Attained(upper) /\ Attained(last)
  BY <1>4 DEF CInv, CursorsAttained
<1>8. Attained(r)
  <2> SUFFICES ASSUME r # None PROVE \E k \in Selected : src[k].wm # None /\ src[k].wm >= r
    BY DEF Attained
  <2>1. PICK k \in Selected : src[k].wm # None /\ src[k].wm >= seen
    BY <1>6, <1>7 DEF Attained
  <2>2. src[k].wm \in Int /\ seen \in Int /\ r \in Int /\ r <= seen
    BY <1>6, <2>1
  <2>3. src[k].wm >= r
    BY <2>1, <2>2
  <2> QED BY <2>1, <2>3
<1>9. StreamBest = None \/ StreamBest = best \/ StreamBest = r
  BY DEF StreamBest, LaterOf, HigherOf, r
<1>10. Attained(StreamBest)
  BY <1>7, <1>8, <1>9 DEF Attained
<1>11. cfg.from = "stream" => InReach(r, last)
  BY <1>6 DEF InReach
<1>12. cfg.from = "stream" => InReach(StreamBest, last)
  BY <1>9, <1>11 DEF CInv, MarkersInReach, InReach
<1>13. upper = IF Pinned THEN resume.upper ELSE snapMax
  BY <1>1 DEF RunPlan, Planned, Bounded
<1>14. upper # None /\ ~KeepCommitted => InReach(upper, last)
  <2>1. CASE Pinned
    BY <1>13, <2>1 DEF Pinned, CInv, MarkersInReach
  <2>2. CASE ~Pinned /\ resume = None
    BY <1>1, <1>4, <1>13, <2>2 DEF CInv, MarkersInReach, RunPlan, Bounded, Planned
  <2>3. CASE ~Pinned /\ resume # None
    BY <2>3 DEF Pinned, KeepCommitted, InReach
  <2> QED BY <2>1, <2>2, <2>3
<1>15. /\ mu = None \/ mu = upper \/ (Tracked /\ mu = StreamBest)
       /\ mu # None /\ mu = upper => ~KeepCommitted
  BY DEF MarkerUpper
<1> HIDE DEF mu
<1>16. Attained(mu)
  BY <1>7, <1>10, <1>15 DEF Attained
<1>17. InReach(mu, last)
  <2>1. CASE mu = None
    BY <2>1 DEF InReach
  <2>2. CASE mu # None /\ mu = upper
    BY <1>14, <1>15, <2>2
  <2>3. CASE Tracked /\ mu = StreamBest
    BY <1>3, <1>12, <2>3
  <2> QED BY <1>15, <2>1, <2>2, <2>3
<1>18. CursorsAttained'
  <2>1. Attained(best')
    BY <1>1, <1>7, <1>10
  <2> QED BY <1>1, <1>2, <1>7, <1>16, <2>1 DEF CInv, CursorsAttained, Attained
<1>19. MarkersInReach'
  <2>1. InReach(best', last)
    <3>1. CASE Tracked
      BY <1>1, <1>3, <1>12, <3>1
    <3>2. CASE ~Tracked
      BY <1>1, <3>2 DEF CInv, MarkersInReach
    <3> QED BY <3>1, <3>2
  <2> QED BY <1>1, <1>2, <1>17, <2>1
          DEF CInv, MarkersInReach, InReach, Bounded, Planned
<1>20. StreamReaches'
  BY <1>1 DEF CInv, StreamReaches, Reading
<1> QED BY <1>18, <1>19, <1>20 DEF CInv

\* The cursor of a finished run: one of the rows is as new, and it is at or
\* past the cursor the run started from, unless a stream's marker or a cursor
\* that was ahead of the source takes it back.
LEMMA NewWatermarkReaches ==
  ASSUME IInv, CInv, pc = "finish", NewWatermark # None
  PROVE  /\ cfg.from # "table_max" => Attained(NewWatermark)
         /\ last # None /\ ~RewindToMax =>
              \/ NewWatermark >= last
              \/ Pinned /\ cfg.from = "stream" /\ NewWatermark + Lookback > last
<1> USE Constants, Types DEF IInv
<1> DEFINE w == NewWatermark
<1>1. upper = IF Pinned THEN resume.upper ELSE snapMax
  BY DEF RunPlan, Planned, Bounded
<1>2. cfg.from \in {"max", "table_max", "stream"}
  BY ConstantTypes DEF TypeOK, Config, CursorSources
<1>3. cfg.from # "table_max" => Attained(upper) /\ Attained(seen)
  BY DEF CInv, CursorsAttained
<1>4. CASE Pinned
  <2>1. w = upper /\ upper = resume.upper /\ resume # None
    BY <1>1, <1>4 DEF NewWatermark, Pinned
  <2>2. InReach(upper, last)
    BY <2>1 DEF CInv, MarkersInReach
  <2> HIDE DEF w
  <2>3. last # None => upper >= last \/ (cfg.from = "stream" /\ upper + Lookback > last)
    BY <2>1, <2>2 DEF InReach, w
  <2> QED BY <1>3, <1>4, <2>1, <2>3 DEF w
<1>5. CASE ~Pinned /\ KeepCommitted
  BY <1>5 DEF NewWatermark
<1>6. ~Pinned /\ ~KeepCommitted /\ last # None => resume = None
  BY DEF Pinned, KeepCommitted
<1>7. CASE ~Pinned /\ ~KeepCommitted /\ cfg.from = "max"
  <2>1. w = upper /\ upper = snapMax
    BY <1>1, <1>7 DEF NewWatermark
  <2>2. last # None => InReach(snapMax, last)
    BY <1>6, <1>7 DEF CInv, MarkersInReach, Bounded, Planned
  <2> HIDE DEF w
  <2>3. last # None => w >= last
    BY <1>7, <2>1, <2>2 DEF InReach, w
  <2> QED BY <1>3, <1>7, <2>1, <2>3 DEF w
<1>8. Rewind \in Nat
  BY DEF Clock, Excess, Rewind, HigherOf
<1>9. CASE ~Pinned /\ ~KeepCommitted /\ cfg.from = "table_max"
  <2> SUFFICES ASSUME last # None, ~RewindToMax PROVE w >= last
    BY <1>9
  <2>1. w = AdvanceFrom(Rewind)
    BY <1>9 DEF NewWatermark
  <2>2. seen # None /\ w = seen - Rewind /\ ~(last >= seen - Rewind)
    BY <2>1 DEF AdvanceFrom
  <2> HIDE DEF w
  <2> QED BY <1>8, <2>2
<1>10. CASE ~Pinned /\ ~KeepCommitted /\ cfg.from = "stream"
  <2>1. w = Rewound(Rewind)
    BY <1>10 DEF NewWatermark
  <2>2. /\ seen # None /\ w \in Int /\ w <= seen /\ seen \in Int
        /\ last # None /\ seen >= last => w >= last
    BY <1>8, <2>1, RewoundReaches
  <2> HIDE DEF w
  <2>3. Attained(w)
    <3>1. PICK k \in Selected : src[k].wm # None /\ src[k].wm >= seen
      BY <1>3, <1>10, <2>2 DEF Attained
    <3>2. src[k].wm \in Int
      BY <3>1
    <3>3. src[k].wm >= w
      BY <2>2, <3>1, <3>2
    <3> QED BY <3>1, <3>3 DEF Attained
  <2>4. last # None => seen >= last
    BY <1>6, <1>10, <2>2 DEF CInv, StreamReaches, Reading, ReadPlan
  <2> QED BY <2>2, <2>3, <2>4 DEF w
<1> QED BY <1>2, <1>4, <1>5, <1>7, <1>9, <1>10

\* What a finished run leaves in the state row.
LEMMA FinishSaves ==
  ASSUME IInv, Finish
  PROVE  /\ pc = "finish" /\ marker' = None
         /\ \/ committed' = committed
            \/ committed' = last
            \/ NewWatermark # None /\ committed' = NewWatermark
         /\ last # None => last = committed
<1>1. pc = "finish"
  BY DEF Finish
<1>2. IF cfg.advance /\ NewWatermark # None
      THEN committed' = NewWatermark /\ marker' = None
      ELSE IF Chunked
      THEN committed' = last /\ marker' = None
      ELSE committed' = committed /\ marker' = marker
  BY DEF Finish, state
<1>3. ~Chunked => marker = None
  BY DEF IInv, StateRow
<1>4. last # None => last = committed
  BY <1>1 DEF IInv, RunPlan, Planned
<1> QED BY <1>1, <1>2, <1>3, <1>4

\* A finished run's cursor is one some row is as new as.
LEMMA FinishReaches ==
  ASSUME IInv, CInv, Finish
  PROVE  CInv'
<1>1. /\ pc' = "idle" /\ UNCHANGED <<cfg, src>>
      /\ last' = None /\ resume' = None /\ upper' = None /\ seen' = None /\ best' = None
  BY ForgetIs DEF Finish, Exit, source
<1>2. /\ pc = "finish" /\ marker' = None
      /\ \/ committed' = committed
         \/ committed' = last
         \/ NewWatermark # None /\ committed' = NewWatermark
  BY FinishSaves
<1>3. CursorsAttained'
  <2>1. cfg.from # "table_max" => Attained(committed')
    <3>1. CASE committed' = committed \/ committed' = last
      BY <3>1 DEF CInv, CursorsAttained, Attained
    <3>2. CASE NewWatermark # None /\ committed' = NewWatermark
      BY <1>2, <3>2, NewWatermarkReaches
    <3> QED BY <1>2, <3>1, <3>2
  <2> QED BY <1>1, <1>2, <2>1 DEF CursorsAttained, Attained
<1>4. MarkersInReach'
  BY <1>1, <1>2 DEF MarkersInReach, InReach, Bounded, Planned
<1>5. StreamReaches'
  BY <1>1 DEF StreamReaches, Reading
<1> QED BY <1>3, <1>4, <1>5 DEF CInv

\* The initial rows have a watermark as late as the first cursor.
LEMMA InitReaches == ASSUME SourceNeverEmpty, Init PROVE CInv
<1> USE Constants
<1>1. /\ src = InitialSource /\ marker = None /\ pc = "idle"
      /\ last = None /\ resume = None /\ upper = None /\ seen = None /\ best = None
      /\ committed = None \/ committed = 1
  BY DEF Init
<1>2. PICK k \in Keys : k \in Selected /\ k \in InitialRows /\ k \notin NullRows
  BY DEF SourceNeverEmpty
<1>3. src[k].wm = 1
  BY <1>1, <1>2 DEF InitialSource
<1>4. CursorsAttained
  BY <1>1, <1>2, <1>3 DEF CursorsAttained, Attained
<1>5. MarkersInReach /\ StreamReaches
  BY <1>1 DEF MarkersInReach, InReach, StreamReaches, Bounded, Planned, Reading
<1> QED BY <1>4, <1>5 DEF CInv

\* Every step preserves CInv.
LEMMA StepReaches ==
  ASSUME Sound, SourceNeverEmpty, IInv, CInv, [Next]_vars
  PROVE  CInv'
<1>1. ASSUME NEW k \in Keys, Change(k) PROVE CInv'
  BY <1>1, ChangeReaches
<1>2. ASSUME NEW k \in Keys, Delete(k) PROVE CInv'
  BY <1>2 DEF Delete, SourceNeverEmpty
<1>3. ASSUME NEW landed \in SUBSET Keys, Fail(landed) PROVE CInv'
  BY <1>3, FailReaches
<1>4. CASE Tick
  BY <1>4, CursorsFrame DEF Tick, state, plan, read
<1>5. CASE DropDestination
  BY <1>5, CursorsFrame DEF DropDestination, source, state, plan, read
<1>6. CASE Begin
  BY <1>6, CursorsFrame DEF Begin, source, state, plan, read, Bounded, Planned, Reading
<1>7. CASE ReadCursor \/ ReadMarker
  BY <1>7, PlanReaches
<1>8. CASE Probe
  BY <1>8, ProbeReaches
<1>9. CASE ProbeBounds
  BY <1>9, CursorsFrame DEF ProbeBounds, source, state, read, Bounded, Planned, Reading
<1>10. CASE ClearDiscarded
  BY <1>10, ClearReaches
<1>11. CASE Prepare
  BY <1>11, PrepareReaches
<1>12. CASE ReadChunk
  BY <1>12, ReadChunkReaches
<1>13. CASE LandChunk
  BY <1>13, CursorsFrame DEF LandChunk, source, state, plan, Bounded, Planned, Reading
<1>14. CASE CommitChunk
  BY <1>14, CommitChunkReaches
<1>15. CASE \/ \E window \in SUBSET todo : ReadWindow(window)
            \/ \E rows \in SUBSET (Returned \cap todo) :
                 \E sent \in SUBSET rows : CancelWindow(rows, sent)
  BY <1>15, WindowReaches
<1>16. ASSUME NEW rows \in SUBSET Keys, LandSome(rows) PROVE CInv'
  BY <1>16, CursorsFrame DEF LandSome, source, state, plan
<1>17. CASE ReadDone
  BY <1>17, CursorsFrame DEF ReadDone, source, state, plan, Bounded, Planned, Reading
<1>18. CASE Finish
  BY <1>18, FinishReaches
<1>19. CASE UNCHANGED vars
  BY <1>19, CursorsFrame DEF vars, source, state, plan, read
<1> QED BY <1>1, <1>2, <1>3, <1>4, <1>5, <1>6, <1>7, <1>8, <1>9, <1>10, <1>11, <1>12,
           <1>13, <1>14, <1>15, <1>16, <1>17, <1>18, <1>19
        DEF Next, Environment, Run

\* A finished run leaves the saved cursor at or past the one it started from,
\* or, resuming a stream's marker, within the lookback of it: the floor of
\* WatermarkTracker::rewound holds through every failed attempt and resume.
\* SourceNeverEmpty: rows that a cursor was taken from are not deleted, so that
\* a probe of the source's MAX is not behind it.
THEOREM CursorsDoNotFall ==
  Sound /\ SourceNeverEmpty => (Spec => CursorNeverBehindStart)
<1> SUFFICES ASSUME Sound, SourceNeverEmpty PROVE Spec => CursorNeverBehindStart
  OBVIOUS
<1> DEFINE NotBehind ==
             Finish /\ last # None /\ ~RewindToMax
               => /\ committed' # None
                  /\ \/ committed' >= last
                     \/ Pinned /\ cfg.from = "stream" /\ committed' + Lookback > last
<1>1. Init => CInv
  BY InitReaches
<1>2. IInv /\ CInv /\ [Next]_vars => CInv'
  BY StepReaches
<1>3. IInv /\ CInv => NotBehind
  <2> SUFFICES ASSUME IInv, CInv, Finish, last # None, ~RewindToMax
               PROVE  /\ committed' # None
                      /\ \/ committed' >= last
                         \/ Pinned /\ cfg.from = "stream" /\ committed' + Lookback > last
    OBVIOUS
  <2>1. /\ pc = "finish" /\ last = committed /\ last \in Int
        /\ \/ committed' = last
           \/ NewWatermark # None /\ committed' = NewWatermark
    BY FinishSaves, Types DEF IInv
  <2>2. CASE committed' = last
    BY <2>1, <2>2
  <2>3. CASE NewWatermark # None /\ committed' = NewWatermark
    BY <2>1, <2>3, NewWatermarkReaches
  <2> QED BY <2>1, <2>2, <2>3
<1>4. NotBehind => [NotBehind]_vars
  OBVIOUS
<1> QED BY <1>1, <1>2, <1>3, <1>4, Invariance, PTL DEF Spec, CursorNeverBehindStart
=============================================================================
