----------------------------- MODULE Sinks_proofs -----------------------------
(***************************************************************************)
(* The theorems about ClickHouse, where it is the destination that runs:   *)
(* its inductive invariant CInv, and what the runs check of it.  First the *)
(* log, the batch and the tables, then what a step makes of each part of   *)
(* the invariant, what stays covered, and at the end the theorems.         *)
(***************************************************************************)
EXTENDS Sinks, FiniteSetTheorems, SequenceTheorems, WellFoundedInduction, TLAPS

\* A set of natural numbers that is not empty has a least member.
LEMMA ChNatMin == ASSUME NEW T \in SUBSET Nat, T # {}
                PROVE  Ch!Min(T) \in T /\ \A y \in T : Ch!Min(T) <= y
<1> DEFINE R == {ss \in Nat \X Nat : ss[1] < ss[2]}
<1>1. IsWellFoundedOn(R, Nat)
  BY NatLessThanWellFounded DEF OpToRel
<1>2. PICK x \in T : \A y \in T : ~(<<y, x>> \in R)
  BY <1>1, WFMin
<1>3. ASSUME NEW y \in T PROVE x <= y
  <2>1. <<y, x>> \in Nat \X Nat
    OBVIOUS
  <2>2. ~(y < x)
    BY <1>2, <2>1
  <2> QED BY <2>2
<1>4. \E m \in T : \A y \in T : m <= y
  BY <1>2, <1>3
<1> QED BY <1>4 DEF Ch!Min

\* One with a bound has a greatest.
LEMMA ChNatMax == ASSUME NEW S \in SUBSET Nat, S # {}, NEW b \in Nat, \A s \in S : s <= b
                PROVE  Ch!Max(S) \in S /\ \A s \in S : s <= Ch!Max(S)
<1> DEFINE T == {n \in Nat : b - n \in S}
<1>1. ASSUME NEW s \in S PROVE b - s \in T
  <2>1. b - s \in Nat /\ b - (b - s) = s
    OBVIOUS
  <2> QED BY <2>1
<1>a. T # {} /\ T \in SUBSET Nat
  BY <1>1
<1> HIDE DEF T
<1>2. Ch!Min(T) \in T /\ \A y \in T : Ch!Min(T) <= y
  BY <1>a, ChNatMin
<1>3. ASSUME NEW s \in S PROVE s <= b - Ch!Min(T)
  <2>1. Ch!Min(T) <= b - s /\ Ch!Min(T) \in Nat
    BY <1>1, <1>2, <1>a
  <2> QED BY <2>1
<1>4. \E m \in S : \A s \in S : m >= s
  BY <1>2, <1>3 DEF T
<1> QED BY <1>4 DEF Ch!Max

\* The instance counts as this module does.
LEMMA ChCardinality == ASSUME NEW S PROVE Ch!Cardinality(S) = Cardinality(S)
BY DEF Ch!Cardinality, Cardinality

\* What is in order of a finite set of numbers is all of it, each once.
LEMMA ChInOrderIs ==
  ASSUME NEW n \in Nat, NEW S \in SUBSET (1..n)
  PROVE  LET s == Ch!InOrder(S)
         IN /\ s \in Seq(S) /\ \A i, j \in 1..Len(s) : i < j => s[i] < s[j]
            /\ {s[i] : i \in 1..Len(s)} = S
<1> DEFINE m == Cardinality(S)
           below(v) == {u \in S : u <= v}
           r == [v \in S |-> Cardinality(below(v))]
<1>1. IsFiniteSet(S) /\ m \in Nat /\ \A T \in SUBSET S : IsFiniteSet(T) /\ Cardinality(T) \in Nat
  <2>1. IsFiniteSet(1..n)
    BY FS_Interval
  <2>2. IsFiniteSet(S)
    BY <2>1, FS_Subset
  <2>3. \A T \in SUBSET S : IsFiniteSet(T)
    BY <2>2, FS_Subset
  <2> QED BY <2>2, <2>3, FS_CardinalityType
<1>2. ASSUME NEW u \in S, NEW v \in S, u < v
      PROVE  r[u] < r[v]
  <2>1. below(u) \in SUBSET below(v) /\ v \notin below(u) /\ v \in below(v) /\ below(v) \in SUBSET S
        /\ below(u) \in SUBSET S
    <3>1. u \in Int /\ v \in Int /\ \A w \in S : w \in Int
      OBVIOUS
    <3>2. \A w \in S : w <= u => w <= v
      BY <1>2, <3>1
    <3>3. ~(v <= u) /\ v <= v
      BY <1>2, <3>1
    <3> QED BY <3>2, <3>3
  <2> HIDE DEF below
  <2>2. IsFiniteSet(below(v)) /\ Cardinality(below(u)) \in Nat /\ Cardinality(below(v)) \in Nat
    BY <1>1, <2>1
  <2>3. Cardinality(below(u)) <= Cardinality(below(v))
        /\ Cardinality(below(u)) # Cardinality(below(v))
    BY <2>1, <2>2, FS_Subset
  <2> QED BY <2>2, <2>3
<1>3. ASSUME NEW v \in S
      PROVE  r[v] \in 1..m
  <2>1. below(v) \in SUBSET S /\ v \in below(v)
    BY <1>3
  <2> HIDE DEF below
  <2>2. Cardinality(below(v)) <= m /\ Cardinality(below(v)) \in Nat
    BY <1>1, <2>1, FS_Subset
  <2>3. Cardinality(below(v)) # 0
    BY <1>1, <2>1, FS_EmptySet
  <2> QED BY <2>2, <2>3
<1>a. r \in [S -> 1..m] /\ S \subseteq Int /\ m \in Nat
  BY <1>1, <1>3
<1> HIDE DEF r, m
<1>4. r \in Injection(S, 1..m)
  BY <1>2, <1>a DEF Injection, IsInjective
<1>5. \A i \in 1..m : \E v \in S : r[v] = i
  <2>1. IsFiniteSet(1..m) /\ Cardinality(1..m) = m
    BY <1>a, FS_Interval
  <2>2. r \in Surjection(S, 1..m)
    BY <1>4, <2>1, FS_Injection DEF m
  <2> QED BY <2>2 DEF Surjection
<1> DEFINE g == [i \in 1..m |-> CHOOSE v \in S : r[v] = i]
<1>6. g \in [1..m -> S] /\ \A i \in 1..m : r[g[i]] = i
  BY <1>5
<1>7. \A i, j \in 1..m : i < j => g[i] < g[j]
  <2>1. ASSUME NEW i \in 1..m, NEW j \in 1..m, i < j
        PROVE  g[i] < g[j]
    <3>1. g[i] \in S /\ g[j] \in S /\ r[g[i]] = i /\ r[g[j]] = j
      BY <1>6
    <3> HIDE DEF g
    <3>a. i \in Int /\ j \in Int
      BY <1>a
    <3>2. g[i] \in Int /\ g[j] \in Int /\ i \in Int /\ j \in Int
      BY <1>a, <3>1, <3>a
    <3>3. CASE g[j] < g[i]
      BY <1>2, <2>1, <3>1, <3>2, <3>3
    <3>4. CASE g[j] = g[i]
      BY <2>1, <3>1, <3>2, <3>4
    <3> QED BY <3>2, <3>3, <3>4
  <2> QED BY <2>1
<1> DEFINE Sorted(t) == \A i, j \in DOMAIN t : i < j => t[i] < t[j]
           s == Ch!InOrder(S)
<1>8. g \in [1..m -> S] /\ Sorted(g)
  BY <1>6, <1>7
<1> HIDE DEF g
<1>9. s \in [1..m -> S] /\ Sorted(s)
  <2>1. Ch!InOrder(S) = CHOOSE t \in [1..m -> S] : Sorted(t)
    BY ChCardinality DEF Ch!InOrder, m
  <2> HIDE DEF Sorted
  <2> QED BY <1>8, <2>1
<1> HIDE DEF s
<1>10. s \in Seq(S) /\ Len(s) = m
  BY <1>9, <1>a, SeqDef
<1>11. s \in Injection(1..m, S)
  <2>1. DOMAIN s = 1..m /\ \A i \in 1..m : s[i] \in Int
    BY <1>9, <1>a
  <2>2. \A i, j \in 1..m : s[i] = s[j] => i = j
    BY <1>9, <1>a, <2>1
  <2> QED BY <1>9, <2>1, <2>2 DEF Injection, IsInjective
<1>12. s \in Surjection(1..m, S)
  <2>1. Cardinality(1..m) = m
    BY <1>a, FS_Interval
  <2> QED BY <1>1, <1>11, <2>1, FS_Injection DEF m
<1>13. {s[i] : i \in 1..m} = S
  BY <1>12 DEF Surjection
<1> QED BY <1>9, <1>10, <1>13 DEF s

-----------------------------------------------------------------------------
\* The log, and what kinds of transfer there are.
LEMMA ChTransfer ==
  ASSUME Ch!ClickHouseConstants, cfg \in ChTransfers
  PROVE  /\ Len(cfg.log) \in Nat /\ Ch!Versions = 1..Len(cfg.log)
         /\ \A v \in Ch!Versions : Ch!W(v) \in Nat /\ Ch!P(v) \in Int /\ v \in Nat
         /\ cfg.promote \in {"direct", "insert", "swap"} /\ cfg.lookback \in Nat
         /\ cfg.chunked => cfg.promote = "direct"
         /\ cfg.stale => \A v \in Ch!Versions : Ch!P(v) = Ch!W(v)
         /\ cfg.old \subseteq Ch!Versions
         /\ \A u, v \in Ch!Versions : u \in cfg.gone /\ Ch!K(u) = Ch!K(v) => v \in cfg.gone
<1>1. cfg.log \in Seq(Ch!Range(cfg.log))
  BY DEF Ch!ClickHouseConstants
<1>2. Len(cfg.log) \in Nat /\ Ch!Versions = 1..Len(cfg.log)
  BY <1>1, LenProperties DEF Ch!Versions
<1>3. \A v \in Ch!Versions : v \in Nat
  BY <1>2
<1>4. \A v \in Ch!Versions : Ch!W(v) \in Nat /\ Ch!P(v) \in Int
  BY DEF Ch!ClickHouseConstants, Ch!Versions, Ch!W, Ch!P
<1>5. \A u, v \in Ch!Versions : u \in cfg.gone /\ Ch!K(u) = Ch!K(v) => v \in cfg.gone
  BY DEF Ch!ClickHouseConstants, Ch!Versions, Ch!K
<1> QED BY <1>2, <1>3, <1>4, <1>5 DEF Ch!ClickHouseConstants, Ch!Versions, Ch!W, Ch!P

LEMMA ChNumbers ==
  ASSUME Ch!ClickHouseConstants
  PROVE  /\ ChRuns \in Nat /\ ChFaults \in Nat /\ ChRowsPerCall \in Nat /\ ChRowsPerCall >= 1
         /\ ChInsertAttempts \in Nat /\ ChInsertAttempts >= 1
  BY DEF Ch!ClickHouseConstants

LEMMA ChRowIs ==
  ASSUME Ch!Typed
  PROVE  /\ Ch!Row \in Ch!StateRow /\ Ch!Row.w \in Nat /\ Ch!Row.at \in Nat /\ Ch!Row.upper \in Nat
         /\ saved \in {<<>>, Ch!Absent} => Ch!Row = Ch!NoRow
         /\ Ch!NoRow \in Ch!StateRow
<1>1. Ch!NoRow \in Ch!StateRow
  BY DEF Ch!NoRow, Ch!StateRow
<1>2. CASE saved \in {<<>>, Ch!Absent}
  BY <1>1, <1>2 DEF Ch!Row, Ch!StateRow
<1>3. CASE saved \notin {<<>>, Ch!Absent}
  <2>1. saved \in Seq(Ch!StateRow) /\ saved # <<>>
    BY <1>3 DEF Ch!Typed
  <2>2. Len(saved) \in 1..Len(saved) /\ saved[Len(saved)] \in Ch!StateRow
    BY <2>1, EmptySeq, LenProperties, ElementOfSeq
  <2>3. Ch!Row = saved[Len(saved)]
    BY <1>3 DEF Ch!Row
  <2> QED BY <1>1, <1>3, <2>2, <2>3 DEF Ch!StateRow
<1> QED BY <1>2, <1>3

\* The batch: its rows are different versions.
LEMMA ChBatchIs ==
  ASSUME Ch!ClickHouseConstants, Ch!Typed
  PROVE  /\ Len(batch) \in Nat /\ sent \in Nat /\ sent <= Len(batch)
         /\ \A i \in 1..Len(batch) : batch[i] \in Ch!Versions
         /\ \A i, j \in 1..Len(batch) : batch[i] = batch[j] => i = j
<1>1. cfg \in ChTransfers /\ batch \in Seq(Ch!Versions) /\ sent \in 0..Len(batch)
  BY DEF Ch!Typed, Ch!TypeOK
<1>2. Len(batch) \in Nat /\ \A i \in 1..Len(batch) : batch[i] \in Ch!Versions
  BY <1>1, LenProperties, ElementOfSeq
<1>3. \A v \in Ch!Versions : v \in Nat
  BY <1>1, ChTransfer
<1>4. \A i, j \in 1..Len(batch) : batch[i] = batch[j] => i = j
  BY <1>2, <1>3 DEF Ch!Typed
<1> QED BY <1>1, <1>2, <1>4

\* The rows of an insert, and how many there are.
LEMMA ChCallIs ==
  ASSUME Ch!ClickHouseConstants, Ch!Typed, sent < Len(batch)
  PROVE  \E m \in Nat :
           /\ m > sent /\ m <= Len(batch)
           /\ Ch!Call = {batch[i] : i \in (sent + 1)..m}
           /\ sent + Cardinality(Ch!Call) = m
<1> DEFINE m == Ch!Min({sent + ChRowsPerCall, Len(batch)})
           call == {batch[i] : i \in (sent + 1)..m}
           f == [i \in (sent + 1)..m |-> batch[i]]
<1>1. /\ Len(batch) \in Nat /\ sent \in Nat /\ ChRowsPerCall \in Nat /\ ChRowsPerCall >= 1
      /\ \A i \in 1..Len(batch) : batch[i] \in Ch!Versions
      /\ \A i, j \in 1..Len(batch) : batch[i] = batch[j] => i = j
  BY ChBatchIs, ChNumbers
<1>2. m \in Nat /\ m > sent /\ m <= Len(batch)
  <2>1. {sent + ChRowsPerCall, Len(batch)} \in SUBSET Nat
    BY <1>1
  <2>2. m \in {sent + ChRowsPerCall, Len(batch)} /\ m <= Len(batch)
    BY <2>1, ChNatMin
  <2> QED BY <1>1, <2>2
<1>3. Ch!Call = call
  BY DEF Ch!Call
<1> HIDE DEF m
<1>4. f \in Bijection((sent + 1)..m, call)
  <2>1. (sent + 1)..m \subseteq 1..Len(batch)
    BY <1>1, <1>2
  <2>2. f \in Injection((sent + 1)..m, call)
    <3>1. f \in [(sent + 1)..m -> call]
      OBVIOUS
    <3>2. \A i, j \in (sent + 1)..m : f[i] = f[j] => i = j
      BY <1>1, <2>1
    <3> HIDE DEF f
    <3> QED BY <3>1, <3>2 DEF Injection, IsInjective
  <2>3. f \in Surjection((sent + 1)..m, call)
    <3>1. f \in [(sent + 1)..m -> call] /\ \A v \in call : \E i \in (sent + 1)..m : f[i] = v
      OBVIOUS
    <3> HIDE DEF f
    <3> QED BY <3>1 DEF Surjection
  <2> QED BY <2>2, <2>3 DEF Bijection
<1>5. IsFiniteSet((sent + 1)..m) /\ Cardinality((sent + 1)..m) = m - sent
  BY <1>1, <1>2, FS_Interval
<1>6. Cardinality(call) = m - sent
  <2>1. ExistsBijection((sent + 1)..m, call)
    BY <1>4 DEF ExistsBijection
  <2> HIDE DEF call
  <2> QED BY <1>5, <2>1, FS_Bijection
<1>7. sent + Cardinality(Ch!Call) = m
  BY <1>1, <1>2, <1>3, <1>6
<1> QED BY <1>2, <1>3, <1>7

\* A version visible has a newest one of its key.
LEMMA ChNewestIs ==
  ASSUME Ch!ClickHouseConstants, cfg \in ChTransfers, NEW n \in Nat, NEW v \in Ch!Visible(n)
  PROVE  \E u \in Ch!Newest(Ch!Visible(n)) : Ch!K(u) = Ch!K(v) /\ Ch!W(u) >= Ch!W(v)
<1> DEFINE own == {u \in Ch!Visible(n) : Ch!K(u) = Ch!K(v)}
           S == {Ch!W(u) : u \in own}
<1>1. \A u \in Ch!Visible(n) : u \in Ch!Versions /\ Ch!W(u) \in Nat /\ Ch!W(u) <= n
  BY ChTransfer DEF Ch!Visible
<1>2. S \in SUBSET Nat /\ S # {} /\ \A w \in S : w <= n
  BY <1>1
<1>3. Ch!Max(S) \in S /\ \A w \in S : w <= Ch!Max(S)
  <2> HIDE DEF S
  <2> QED BY <1>2, ChNatMax
<1>4. PICK u \in own : Ch!W(u) = Ch!Max(S)
  BY <1>3
<1>5. \A t \in own : Ch!W(t) <= Ch!W(u)
  BY <1>3, <1>4
<1>6. u \in Ch!Visible(n) /\ Ch!K(u) = Ch!K(v) /\ Ch!W(u) >= Ch!W(v)
  BY <1>1, <1>4, <1>5
<1>7. \A t \in Ch!Visible(n) : Ch!K(t) = Ch!K(u) => Ch!W(t) <= Ch!W(u)
  BY <1>5, <1>6
<1>8. u \in Ch!Newest(Ch!Visible(n))
  BY <1>6, <1>7 DEF Ch!Newest, Ch!NewestOf, Ch!K, Ch!W
<1> QED BY <1>6, <1>8

\* A version that is newest of many is newest of fewer.
LEMMA ChNewestOfFewer ==
  ASSUME NEW S, NEW T \in SUBSET S, NEW v \in T, v \in Ch!Newest(S)
  PROVE  v \in Ch!Newest(T)
  BY DEF Ch!Newest, Ch!NewestOf

\* What a run reads is visible.
LEMMA ChReadIs ==
  ASSUME Ch!ClickHouseConstants, Ch!Typed, NEW r \in Nat
  PROVE  /\ Ch!Read(r) \subseteq Ch!Visible(r) /\ Ch!Read(r) \in SUBSET (1..Len(cfg.log))
         /\ Ch!Visible(r) \subseteq Ch!Versions
            /\ \A v \in Ch!Visible(r) : Ch!W(v) \in Nat /\ Ch!W(v) <= r
<1>1. Ch!Read(r) \subseteq Ch!Visible(r)
  BY DEF Ch!Read, Ch!Newest, Ch!NewestOf
<1>2. Ch!Visible(r) \subseteq Ch!Versions /\ \A v \in Ch!Visible(r) : Ch!W(v) <= r
  BY DEF Ch!Visible
<1>3. cfg \in ChTransfers
  BY DEF Ch!Typed, Ch!TypeOK
<1> QED BY <1>1, <1>2, <1>3, ChTransfer

\* What a read goes up to is not before the cursor.
LEMMA ChUpperIs ==
  ASSUME Ch!ClickHouseConstants, Ch!Typed, NEW r \in Nat, Ch!Row.w <= r, Ch!Row.upper <= r
  PROVE  /\ Ch!UpperOf(r) \in 0..r
         /\ ~(cfg.chunked /\ Ch!Row.at > 0) => Ch!Row.w <= Ch!UpperOf(r)
<1>1. CASE cfg.chunked /\ Ch!Row.at > 0
  BY <1>1, ChRowIs DEF Ch!UpperOf
<1>2. CASE ~(cfg.chunked /\ Ch!Row.at > 0)
  <2> DEFINE S == {Ch!Row.w} \cup {Ch!W(v) : v \in Ch!Read(r)}
  <2>1. S \in SUBSET Nat /\ S # {} /\ \A w \in S : w <= r
    BY ChRowIs, ChReadIs
  <2>2. Ch!UpperOf(r) = Ch!Max(S)
    BY <1>2 DEF Ch!UpperOf
  <2>3. Ch!Row.w \in S
    OBVIOUS
  <2> HIDE DEF S
  <2>4. Ch!Max(S) \in S /\ \A w \in S : w <= Ch!Max(S)
    BY <2>1, ChNatMax
  <2>5. Ch!Max(S) \in Nat /\ Ch!Max(S) <= r
    BY <2>1, <2>4
  <2>6. Ch!Row.w <= Ch!Max(S)
    BY <2>3, <2>4
  <2> HIDE DEF Ch!UpperOf
  <2>7. Ch!UpperOf(r) \in 0..r
    BY <2>2, <2>5
  <2> QED BY <2>2, <2>6, <2>7
<1> QED BY <1>1, <1>2

\* The table that is not there is no sequence of state rows.
LEMMA ChAbsentIs ==
  /\ <<>> # Ch!Absent
  /\ \A s \in Seq(Ch!StateRow) : s # Ch!Absent
<1>1. Len(Ch!Absent) = 1 /\ Ch!Absent[1].w = -1
  BY DEF Ch!Absent
<1>2. Len(<<>>) = 0
  OBVIOUS
<1>3. ASSUME NEW s \in Seq(Ch!StateRow), s = Ch!Absent
      PROVE  FALSE
  <2>1. s[1] \in Ch!StateRow
    <3>1. Len(s) = 1 /\ s \in Seq(Ch!StateRow)
      BY <1>1, <1>3
    <3>2. 1 \in 1..Len(s)
      BY <3>1
    <3> QED BY <3>1, <3>2, ElementOfSeq
  <2>2. s[1].w \in Nat
    BY <2>1 DEF Ch!StateRow
  <2> QED BY <1>1, <1>3, <2>2
<1> QED BY <1>1, <1>2, <1>3

-----------------------------------------------------------------------------
\* A write of a state row: the token is new, so the row is there.
LEMMA ChRowWritten ==
  ASSUME Ch!Typed, Ch!Told, Ch!WriteRow, Ch!NewRow \in Ch!StateRow
  PROVE  /\ saved' \in Seq(Ch!StateRow) /\ Ch!Row' = Ch!NewRow
         /\ chWrites' = chWrites + 1 /\ tokens' = tokens \cup {Ch!StateToken} /\ ready' = TRUE
<1>1. Ch!StateToken \notin tokens
  BY DEF Ch!Told, Ch!StateToken, Ch!Typed
<1>2. Ch!Created \in Seq(Ch!StateRow)
  BY EmptySeq DEF Ch!Created, Ch!Typed
<1>3. /\ saved' = Append(Ch!Created, Ch!NewRow) /\ saved' \in Seq(Ch!StateRow)
      /\ Len(saved') = Len(Ch!Created) + 1 /\ Len(Ch!Created) \in Nat
         /\ saved'[Len(saved')] = Ch!NewRow
  BY <1>1, <1>2, AppendProperties, LenProperties DEF Ch!WriteRow
<1>4. saved' # <<>>
  BY <1>3
<1>5. saved' # Ch!Absent
  BY <1>3, ChAbsentIs
<1>6. Ch!Row' = saved'[Len(saved')]
  BY <1>4, <1>5 DEF Ch!Row, Ch!Absent
<1> QED BY <1>3, <1>6 DEF Ch!WriteRow

\* The row that is written.
LEMMA ChNewRowIs ==
  ASSUME Ch!ClickHouseConstants, Ch!Typed, Ch!Stepped, Ch!Told
  PROVE  /\ at = "mark" => Ch!NewRow = [w |-> Ch!Row.w, at |-> batch[sent], upper |-> upper]
         /\ at # "mark" => Ch!NewRow = [w |-> upper, at |-> 0, upper |-> 0]
         /\ Ch!NewRow \in Ch!StateRow
<1>1. upper \in Nat
  BY DEF Ch!Told, Ch!Typed
<1>2. at = "mark" => sent \in 1..Len(batch) /\ batch[sent] \in Nat
  <2>1. cfg \in ChTransfers
    BY DEF Ch!Typed, Ch!TypeOK
  <2> QED BY <2>1, ChBatchIs, ChTransfer DEF Ch!Stepped
<1> QED BY <1>1, <1>2, ChRowIs DEF Ch!NewRow, Ch!StateRow

\* A table that is there, with what is added or taken away.
LEMMA ChTables ==
  ASSUME NEW t, NEW V, t \in [V -> Nat], NEW rows
  PROVE  /\ Ch!Adding(t, rows) \in [V -> Nat] /\ Ch!Without(t, rows) \in [V -> Nat]
         /\ \A v \in V : v \in Ch!Held(t) => v \in Ch!Held(Ch!Adding(t, rows))
         /\ \A v \in V : v \in Ch!Held(Ch!Adding(t, rows)) <=> v \in Ch!Held(t) \/ v \in rows
         /\ \A v \in V : v \in Ch!Held(Ch!Without(t, rows)) <=> v \in Ch!Held(t) /\ v \notin rows
         /\ \A s : s = Ch!Missing \/ s \in [V -> Nat] =>
              /\ Ch!SumOf(s, t) \in [V -> Nat]
              /\ \A v \in V : v \in Ch!Held(Ch!SumOf(s, t)) <=> v \in Ch!Held(t) \/ v \in Ch!Held(s)
<1>1. Ch!Adding(t, rows) \in [V -> Nat] /\ Ch!Without(t, rows) \in [V -> Nat]
  BY DEF Ch!Adding, Ch!Without
<1>2. \A v \in V : v \in Ch!Held(Ch!Adding(t, rows)) <=> v \in Ch!Held(t) \/ v \in rows
  BY DEF Ch!Adding, Ch!Held
<1>3. \A v \in V : v \in Ch!Held(Ch!Without(t, rows)) <=> v \in Ch!Held(t) /\ v \notin rows
  BY DEF Ch!Without, Ch!Held
<1>4. ASSUME NEW s, s = Ch!Missing \/ s \in [V -> Nat]
      PROVE  /\ Ch!SumOf(s, t) \in [V -> Nat]
             /\ \A v \in V : v \in Ch!Held(Ch!SumOf(s, t)) <=> v \in Ch!Held(t) \/ v \in Ch!Held(s)
  <2>1. CASE s = Ch!Missing
    <3>1. DOMAIN s = {}
      BY <2>1 DEF Ch!Missing
    <3> QED BY <3>1 DEF Ch!SumOf, Ch!Held
  <2>2. CASE s \in [V -> Nat]
    BY <2>2 DEF Ch!SumOf, Ch!Held
  <2> QED BY <1>4, <2>1, <2>2
<1> QED BY <1>1, <1>2, <1>3, <1>4

\* Some of the types.
LEMMA ChKept0 ==
  ASSUME Ch!Typed
  PROVE  cfg \in ChTransfers /\ dest \in [Ch!Versions -> Nat] /\ attempt \in 1..ChInsertAttempts
         /\ failures \in 0..ChFaults /\ ready \in BOOLEAN /\ sent \in 0..Len(batch)
  BY DEF Ch!Typed, Ch!TypeOK

-----------------------------------------------------------------------------
(* The types after a step.                                                 *)

\* A transfer's log stays as it is.
LEMMA ChLogStays ==
  ASSUME Ch!Next
  PROVE  /\ cfg' = cfg /\ Ch!Versions' = Ch!Versions
         /\ \A v : Ch!W(v)' = Ch!W(v) /\ Ch!P(v)' = Ch!P(v) /\ Ch!K(v)' = Ch!K(v)
         /\ \A n : Ch!Visible(n)' = Ch!Visible(n)
            /\ Ch!Newest(Ch!Visible(n))' = Ch!Newest(Ch!Visible(n))
<1>1. cfg' = cfg
  BY DEF Ch!Next, Ch!StartRun, Ch!Prepare, Ch!DropState, Ch!CompactState, Ch!Insert,
         Ch!InsertFails, Ch!DeleteStale,
         Ch!InsertSelect, Ch!ExchangeTables, Ch!DropStaging, Ch!PersistRow, Ch!Crash, Ch!vars
<1>2. Ch!Versions' = Ch!Versions
      /\ \A v : Ch!W(v)' = Ch!W(v) /\ Ch!P(v)' = Ch!P(v) /\ Ch!K(v)' = Ch!K(v)
  BY <1>1 DEF Ch!Versions, Ch!W, Ch!P, Ch!K
<1>3. \A n : Ch!Visible(n)' = Ch!Visible(n)
  BY <1>1, <1>2 DEF Ch!Visible
<1>4. \A n : Ch!Newest(Ch!Visible(n))' = Ch!Newest(Ch!Visible(n))
  BY <1>1, <1>3 DEF Ch!Newest
<1> QED BY <1>1, <1>2, <1>3, <1>4

\* Where a statement leads.
LEMMA ChLeads ==
  ASSUME Ch!ClickHouseConstants, Ch!Typed, NEW where \in Ch!Steps
  PROVE  /\ Ch!Applies(where) => at' \in {where, "cleanup"} /\ failures' \in 0..ChFaults
         /\ Ch!Refused => at' = "cleanup" /\ failures' \in 0..ChFaults
         /\ Ch!Fault => failures' \in 0..ChFaults
<1>1. failures \in 0..ChFaults /\ ChFaults \in Nat
  BY ChKept0, ChNumbers
<1>2. Ch!Fault => failures' \in 0..ChFaults
  BY <1>1 DEF Ch!Fault
<1> QED BY <1>1, <1>2 DEF Ch!Applies, Ch!Refused, Ch!Goto

\* Where a run goes after its start or after a state row.
LEMMA ChStepsOn ==
  /\ Ch!NextStep \in Ch!Steps /\ Ch!AfterRow \in Ch!Steps
  /\ Ch!NextStep = "insert" => sent < Len(batch)
  /\ Ch!NextStep \in {"promote", "persist"} => ~(sent < Len(batch))
  /\ Ch!NextStep = "promote" => cfg.promote # "direct"
  /\ Ch!NextStep = "persist" => cfg.promote = "direct"
  /\ Ch!NextStep \in {"insert", "promote", "persist"}
  BY DEF Ch!NextStep, Ch!AfterRow, Ch!Steps

\* The counters and flags keep their types.
LEMMA ChCountsStep ==
  ASSUME Ch!ClickHouseConstants, Ch!Typed, Ch!Next
  PROVE  /\ at' \in Ch!Steps /\ run' \in 0..ChRuns /\ attempt' \in 1..ChInsertAttempts
            /\ epoch' \in Nat
         /\ ready' \in BOOLEAN /\ failures' \in 0..ChFaults /\ chWrites' \in Nat
<1>1. /\ at \in Ch!Steps /\ run \in 0..ChRuns /\ attempt \in 1..ChInsertAttempts /\ epoch \in Nat
      /\ ready \in BOOLEAN /\ failures \in 0..ChFaults /\ chWrites \in Nat
      /\ ChRuns \in Nat /\ ChFaults \in Nat /\ ChInsertAttempts \in Nat /\ ChInsertAttempts >= 1
  BY ChNumbers DEF Ch!Typed, Ch!TypeOK
<1>2. CASE Ch!StartRun
  <2>1. /\ run' \in 0..ChRuns /\ attempt' \in 1..ChInsertAttempts /\ epoch' \in Nat
        /\ failures' \in 0..ChFaults /\ chWrites' \in Nat
    BY <1>1, <1>2 DEF Ch!StartRun, Ch!saved
  <2>2. ready' \in BOOLEAN
    BY <1>2 DEF Ch!StartRun
  <2>3. at' \in Ch!Steps
    BY <1>2 DEF Ch!StartRun, Ch!Steps, Ch!Goto
  <2> QED BY <2>1, <2>2, <2>3
<1>3. CASE Ch!Prepare
  BY <1>1, <1>3, ChStepsOn DEF Ch!Prepare, Ch!Goto
<1>4. CASE Ch!DropState \/ Ch!CompactState \/ (Ch!Ended /\ UNCHANGED Ch!vars)
  <2>1. /\ at' = at /\ run' = run /\ attempt' = attempt /\ epoch' = epoch /\ chWrites' = chWrites
        /\ ready' = ready
    BY <1>4 DEF Ch!DropState, Ch!CompactState, Ch!vars, Ch!saved
  <2>2. failures' \in 0..ChFaults
    BY <1>1, <1>4 DEF Ch!DropState, Ch!CompactState, Ch!Fault, Ch!vars
  <2> QED BY <1>1, <2>1, <2>2
<1>5. CASE Ch!Insert
  BY <1>1, <1>5 DEF Ch!Insert, Ch!Goto, Ch!Steps, Ch!saved
<1>6. CASE Ch!InsertFails
  <2>1. at' \in Ch!Steps /\ run' = run /\ epoch' = epoch /\ chWrites' = chWrites /\ ready' = ready
    BY <1>1, <1>6 DEF Ch!InsertFails, Ch!Goto, Ch!Steps, Ch!saved
  <2>2. attempt' \in 1..ChInsertAttempts
    BY <1>1, <1>6 DEF Ch!InsertFails
  <2>3. failures' \in 0..ChFaults
    BY <1>1, <1>6 DEF Ch!InsertFails, Ch!Fault
  <2> QED BY <1>1, <2>1, <2>2, <2>3
<1>7. CASE Ch!DeleteStale \/ Ch!InsertSelect \/ Ch!ExchangeTables
  <2>1. run' = run /\ attempt' = attempt /\ epoch' = epoch /\ chWrites' = chWrites /\ ready' = ready
    BY <1>7 DEF Ch!DeleteStale, Ch!InsertSelect, Ch!ExchangeTables, Ch!saved
  <2>2. Ch!Applies("copy") \/ Ch!Applies("drop") \/ Ch!Refused
    BY <1>7 DEF Ch!DeleteStale, Ch!InsertSelect, Ch!ExchangeTables
  <2>3. at' \in Ch!Steps /\ failures' \in 0..ChFaults
    BY <2>2, ChLeads DEF Ch!Steps
  <2> QED BY <1>1, <2>1, <2>3
<1>8. CASE Ch!DropStaging
  <2>1. run' = run /\ attempt' = attempt /\ epoch' = epoch /\ chWrites' = chWrites /\ ready' = ready
    BY <1>8 DEF Ch!DropStaging, Ch!saved
  <2>2. at' \in Ch!Steps /\ failures' \in 0..ChFaults
    BY <1>1, <1>8 DEF Ch!DropStaging, Ch!Fault, Ch!Goto, Ch!Steps
  <2> QED BY <1>1, <2>1, <2>2
<1>9. CASE Ch!PersistRow
  <2>1. run' = run /\ attempt' = attempt /\ epoch' = epoch
    BY <1>9 DEF Ch!PersistRow
  <2>a. chWrites' \in Nat
    BY <1>1, <1>9 DEF Ch!PersistRow, Ch!WriteRow, Ch!saved
  <2>b. ready' = TRUE \/ ready' = ready
    BY <1>9 DEF Ch!PersistRow, Ch!WriteRow
  <2>2. chWrites' \in Nat /\ ready' \in BOOLEAN
    BY <1>1, <2>a, <2>b
  <2>3. Ch!Applies(Ch!AfterRow) \/ Ch!Refused
    BY <1>9 DEF Ch!PersistRow
  <2>4. at' \in Ch!Steps /\ failures' \in 0..ChFaults
    BY <2>3, ChLeads, ChStepsOn DEF Ch!Steps
  <2> QED BY <1>1, <2>1, <2>2, <2>4
<1>10. CASE Ch!Crash
  <2>1. /\ at' = "dead" /\ ready' = FALSE /\ run' = run /\ attempt' = attempt /\ epoch' = epoch
        /\ chWrites' = chWrites /\ Ch!Fault
    BY <1>10 DEF Ch!Crash, Ch!Goto, Ch!saved
  <2>2. failures' \in 0..ChFaults
    BY <1>1, <2>1 DEF Ch!Fault
  <2> QED BY <1>1, <2>1, <2>2 DEF Ch!Steps
<1> QED BY <1>2, <1>3, <1>4, <1>5, <1>6, <1>7, <1>8, <1>9, <1>10 DEF Ch!Next

\* The state table, and its newest row.
LEMMA ChStateStep ==
  ASSUME Ch!ClickHouseConstants, Ch!Typed, Ch!Stepped, Ch!Told, Ch!Next
  PROVE  /\ saved' = Ch!Absent \/ saved' \in Seq(Ch!StateRow)
         /\ Ch!DropState => Ch!Row' = Ch!NoRow
         /\ Ch!PersistRow /\ Ch!WriteRow => Ch!Row' = Ch!NewRow
         /\ ~Ch!DropState => Ch!Row' = Ch!Row \/ (Ch!PersistRow /\ Ch!WriteRow)
<1>1. saved = Ch!Absent \/ saved \in Seq(Ch!StateRow)
  BY DEF Ch!Typed
<1>2. CASE saved' = saved
  BY <1>1, <1>2, ChRowWritten, ChNewRowIs, ChRowIs DEF Ch!Row, Ch!DropState
<1>3. CASE Ch!DropState
  <2>1. saved' = Ch!Absent /\ Ch!Row' = Ch!NoRow
    BY <1>3 DEF Ch!DropState, Ch!Row
  <2>2. ~(Ch!PersistRow /\ Ch!WriteRow)
    <3>1. SUFFICES ASSUME Ch!PersistRow, Ch!WriteRow PROVE FALSE
      OBVIOUS
    <3>2. chWrites' = chWrites /\ chWrites' = chWrites + 1 /\ chWrites \in Nat
      BY <1>3, <3>1 DEF Ch!DropState, Ch!WriteRow, Ch!Typed
    <3> QED BY <3>2
  <2> QED BY <1>3, <2>1, <2>2
<1>4. CASE Ch!CompactState
  <2>1. saved' = <<Ch!Row>> /\ Ch!Row \in Ch!StateRow
    BY <1>4, ChRowIs DEF Ch!CompactState
  <2>2. saved' # <<>> /\ saved' # Ch!Absent /\ Len(saved') = 1 /\ saved'[1] = Ch!Row
    BY <2>1 DEF Ch!StateRow, Ch!Absent
  <2>3. Ch!Row' = Ch!Row
    BY <2>2 DEF Ch!Row, Ch!Absent
  <2>4. ~(Ch!PersistRow /\ Ch!WriteRow)
    <3>1. SUFFICES ASSUME Ch!PersistRow, Ch!WriteRow PROVE FALSE
      OBVIOUS
    <3>2. chWrites' = chWrites /\ chWrites' = chWrites + 1 /\ chWrites \in Nat
      BY <1>4, <3>1 DEF Ch!CompactState, Ch!WriteRow, Ch!Typed
    <3> QED BY <3>2
  <2>5. ~Ch!DropState
    BY <2>2 DEF Ch!DropState
  <2> QED BY <2>1, <2>3, <2>4, <2>5
<1>5. CASE Ch!Prepare
  <2>1. saved' = saved \/ (saved = Ch!Absent /\ saved' = <<>>)
    BY <1>5 DEF Ch!Prepare, Ch!Created
  <2>2. CASE saved' = saved
    BY <1>2, <2>2
  <2>3. CASE saved = Ch!Absent /\ saved' = <<>>
    <3>1. Ch!Row' = Ch!NoRow /\ Ch!Row = Ch!NoRow
      BY <2>3 DEF Ch!Row
    <3>2. saved' # Ch!Absent /\ at = "prepare"
      <4>1. <<>> # Ch!Absent
        BY ChAbsentIs
      <4>2. at = "prepare"
        BY <1>5 DEF Ch!Prepare
      <4> QED BY <2>3, <4>1, <4>2
    <3>3. saved' \in Seq(Ch!StateRow)
      BY <2>3, EmptySeq
    <3>4. ~Ch!DropState
      BY <3>2 DEF Ch!DropState
    <3>5. ~Ch!PersistRow
      BY <3>2 DEF Ch!PersistRow
    <3> QED BY <3>1, <3>3, <3>4, <3>5
  <2> QED BY <2>1, <2>2, <2>3
<1>6. CASE Ch!PersistRow /\ Ch!WriteRow
  <2>1. saved' \in Seq(Ch!StateRow) /\ Ch!Row' = Ch!NewRow
    BY <1>6, ChRowWritten, ChNewRowIs
  <2>2. saved' # Ch!Absent
    BY <2>1, ChAbsentIs
  <2>3. ~Ch!DropState
    BY <2>2 DEF Ch!DropState
  <2> QED BY <1>6, <2>1, <2>3
<1>7. saved' = saved \/ Ch!DropState \/ Ch!CompactState \/ Ch!Prepare
      \/ (Ch!PersistRow /\ Ch!WriteRow)
  BY DEF Ch!Next, Ch!StartRun, Ch!Insert, Ch!InsertFails, Ch!DeleteStale, Ch!InsertSelect,
         Ch!ExchangeTables, Ch!DropStaging,
         Ch!PersistRow, Ch!Crash, Ch!vars, Ch!saved
<1> QED BY <1>2, <1>3, <1>4, <1>5, <1>6, <1>7

\* The batch of a run is what it reads, in order.
LEMMA ChBatchStep ==
  ASSUME Ch!ClickHouseConstants, Ch!Typed, Ch!Stepped, Ch!Next
  PROVE  /\ batch' \in Seq(Ch!Versions)
            /\ \A i, j \in 1..Len(batch') : i < j => batch'[i] < batch'[j]
         /\ Ch!StartRun => sent' = 0 /\ {batch'[i] : i \in 1..Len(batch')} = Ch!Read(run + 1)
         /\ ~Ch!StartRun => batch' = batch /\ upper' = upper
         /\ ~Ch!StartRun /\ ~Ch!Insert => sent' = sent
         /\ ~Ch!StartRun => run' = run
         /\ sent' \in 0..Len(batch') /\ Len(batch') \in Nat
<1>1. cfg \in ChTransfers /\ Len(batch) \in Nat /\ sent \in 0..Len(batch)
  BY ChBatchIs, ChKept0
<1>2. CASE Ch!StartRun
  <2>1. batch' = Ch!InOrder(Ch!Read(run + 1)) /\ sent' = 0 /\ run + 1 \in Nat
    BY <1>2 DEF Ch!StartRun, Ch!Typed
  <2>2. Len(cfg.log) \in Nat /\ Ch!Versions = 1..Len(cfg.log)
    BY <1>1, ChTransfer
  <2>3. Ch!Read(run + 1) \in SUBSET (1..Len(cfg.log))
    BY <2>1, ChReadIs
  <2>4. /\ batch' \in Seq(Ch!Read(run + 1))
           /\ \A i, j \in 1..Len(batch') : i < j => batch'[i] < batch'[j]
        /\ {batch'[i] : i \in 1..Len(batch')} = Ch!Read(run + 1)
    <3> DEFINE n == Len(cfg.log)
               S == Ch!Read(run + 1)
    <3>1. batch' = Ch!InOrder(S) /\ n \in Nat /\ S \in SUBSET (1..n)
      BY <2>1, <2>2, <2>3
    <3> HIDE DEF n, S
    <3> DEFINE s == Ch!InOrder(S)
    <3>2. /\ s \in Seq(S) /\ \A i, j \in 1..Len(s) : i < j => s[i] < s[j]
          /\ {s[i] : i \in 1..Len(s)} = S
      BY <3>1, ChInOrderIs
    <3>3. batch' = s
      BY <3>1
    <3> HIDE DEF s
    <3> QED BY <3>2, <3>3 DEF S
  <2>5. batch' \in Seq(Ch!Versions) /\ Len(batch') \in Nat
    <3>1. Ch!Read(run + 1) \subseteq Ch!Versions
      BY <2>2, <2>3
    <3>2. batch' \in Seq(Ch!Read(run + 1))
      BY <2>4
    <3>3. batch' \in Seq(Ch!Versions)
      BY <3>1, <3>2, SeqMonotonic
    <3> QED BY <3>3, LenProperties
  <2>6. sent' \in 0..Len(batch')
    BY <2>1, <2>5
  <2> QED BY <1>2, <2>1, <2>4, <2>5, <2>6, Zenon
<1>3. CASE Ch!Insert
  <2>1. batch' = batch /\ upper' = upper /\ run' = run /\ sent' = sent + Cardinality(Ch!Call)
        /\ at = "insert"
    BY ChCardinality, <1>3 DEF Ch!Insert
  <2>2. sent' \in 0..Len(batch)
    BY <1>1, <2>1, ChCallIs DEF Ch!Stepped
  <2>3. ~Ch!StartRun
    BY <2>1 DEF Ch!StartRun, Ch!Over
  <2> QED BY <1>1, <1>3, <2>1, <2>2, <2>3 DEF Ch!Typed
<1>4. CASE ~Ch!StartRun /\ ~Ch!Insert
  <2>1. batch' = batch /\ upper' = upper /\ sent' = sent /\ run' = run
    BY <1>4
    DEF Ch!Next, Ch!Prepare, Ch!DropState, Ch!CompactState, Ch!InsertFails, Ch!DeleteStale,
        Ch!InsertSelect, Ch!ExchangeTables,
        Ch!DropStaging, Ch!PersistRow, Ch!Crash, Ch!vars, Ch!reading
  <2> QED BY <1>1, <1>4, <2>1 DEF Ch!Typed
<1> QED BY <1>2, <1>3, <1>4

\* An insert that is made: where, and what is there after it.
LEMMA ChStores ==
  ASSUME Ch!ClickHouseConstants, Ch!Typed, at = "insert", Ch!Stepped, NEW rows, Ch!StoreBlocks(rows)
  PROVE  /\ cfg.promote = "direct" =>
              /\ staging = Ch!Missing /\ staging' = Ch!Missing
                 /\ dest' = Ch!Adding(dest, Ch!Kept(rows))
              /\ dest' \in [Ch!Versions -> Nat]
         /\ cfg.promote # "direct" =>
              /\ staging # Ch!Missing /\ dest' = dest
                 /\ staging' = Ch!Adding(staging, Ch!Kept(rows))
              /\ staging' \in [Ch!Versions -> Nat]
<1>1. dest \in [Ch!Versions -> Nat]
  BY ChKept0
<1>2. CASE cfg.promote = "direct"
  <2>1. staging = Ch!Missing
    BY <1>2 DEF Ch!Typed
  <2> QED BY <1>1, <1>2, <2>1, ChTables DEF Ch!StoreBlocks
<1>3. CASE cfg.promote # "direct"
  <2>1. staging \in [Ch!Versions -> Nat]
    BY <1>3 DEF Ch!Typed
  <2>2. batch[1] \in Ch!Versions
    BY ChBatchIs DEF Ch!Stepped
  <2>3. staging # Ch!Missing
    <3>1. DOMAIN Ch!Missing = {}
      BY DEF Ch!Missing
    <3> QED BY <2>1, <2>2, <3>1
  <2> QED BY <1>3, <2>1, <2>3, ChTables DEF Ch!StoreBlocks
<1> QED BY <1>2, <1>3

\* The tables keep their types.
LEMMA ChTablesStep ==
  ASSUME Ch!ClickHouseConstants, Ch!Typed, Ch!Stepped, Ch!Next
  PROVE  /\ dest' \in [Ch!Versions -> Nat]
         /\ staging' = Ch!Missing \/ staging' \in [Ch!Versions -> Nat]
         /\ cfg.promote = "direct" => staging' = Ch!Missing
         /\ cfg.promote # "direct" /\ at' \in {"insert", "promote", "copy"} =>
              staging' \in [Ch!Versions -> Nat]
<1>1. /\ cfg \in ChTransfers /\ dest \in [Ch!Versions -> Nat]
      /\ staging = Ch!Missing \/ staging \in [Ch!Versions -> Nat]
      /\ cfg.promote = "direct" => staging = Ch!Missing
      /\ cfg.promote # "direct" /\ at \in {"insert", "promote", "copy"} =>
         staging \in [Ch!Versions -> Nat]
  BY ChKept0 DEF Ch!Typed
<1>2. CASE Ch!StartRun
  BY <1>1, <1>2 DEF Ch!StartRun, Ch!tables, Ch!Goto
<1>3. CASE Ch!Prepare
  <2>1. Ch!Empty \in [Ch!Versions -> Nat] /\ dest' = dest
    BY <1>3 DEF Ch!Empty, Ch!Prepare
  <2> QED BY <1>1, <1>3, <2>1 DEF Ch!Prepare
<1>4. CASE Ch!DropState \/ Ch!CompactState \/ (Ch!Ended /\ UNCHANGED Ch!vars)
  BY <1>1, <1>4 DEF Ch!DropState, Ch!CompactState, Ch!vars, Ch!tables
<1>5. CASE Ch!Insert
  <2>1. at = "insert" /\ Ch!StoreBlocks(Ch!Call)
    BY <1>5 DEF Ch!Insert
  <2>2. CASE cfg.promote = "direct"
    BY <1>1, <2>1, <2>2, ChStores
  <2>3. CASE cfg.promote # "direct"
    BY <1>1, <2>1, <2>3, ChStores
  <2> QED BY <2>2, <2>3
<1>6. CASE Ch!InsertFails
  <2>1. at = "insert" /\ \E rows : Ch!StoreBlocks(rows)
    BY <1>6 DEF Ch!InsertFails
  <2>2. CASE cfg.promote = "direct"
    BY <1>1, <2>1, <2>2, ChStores
  <2>3. CASE cfg.promote # "direct"
    BY <1>1, <2>1, <2>3, ChStores
  <2> QED BY <2>2, <2>3
<1>7. CASE Ch!DeleteStale
  <2>1. staging' = staging /\ (dest' = dest \/ dest' = Ch!Without(dest, Ch!Stale)) /\ at = "promote"
    BY <1>7 DEF Ch!DeleteStale
  <2>2. dest' \in [Ch!Versions -> Nat]
    BY <1>1, <2>1, ChTables
  <2> QED BY <1>1, <2>1, <2>2
<1>8. CASE Ch!InsertSelect
  <2>1. staging' = staging /\ (dest' = dest \/ dest' = Ch!SumOf(staging, dest)) /\ at = "copy"
    BY <1>8 DEF Ch!InsertSelect
  <2>2. dest' \in [Ch!Versions -> Nat]
    BY <1>1, <2>1, ChTables
  <2> QED BY <1>1, <2>1, <2>2
<1>9. CASE Ch!ExchangeTables
  <2>1. at = "promote" /\ ((dest' = staging /\ staging' = dest) \/ UNCHANGED <<dest, staging>>)
        /\ cfg.promote = "swap"
    BY <1>9 DEF Ch!ExchangeTables
  <2> QED BY <1>1, <2>1
<1>10. CASE Ch!DropStaging
  <2>1. dest' = dest /\ (staging' = Ch!Missing \/ staging' = staging)
        /\ at' \in {"failed", "ok", "persist"}
    BY <1>10 DEF Ch!DropStaging, Ch!Goto
  <2> QED BY <1>1, <2>1
<1>11. CASE Ch!PersistRow \/ Ch!Crash
  <2>1. dest' = dest /\ staging' = staging
    BY <1>11 DEF Ch!PersistRow, Ch!Crash, Ch!tables
  <2>2. CASE cfg.promote = "direct"
    BY <1>1, <2>1, <2>2
  <2>3. CASE cfg.promote # "direct"
    <3>1. at' \notin {"insert", "promote", "copy"}
      <4>1. CASE Ch!Crash
        BY <4>1 DEF Ch!Crash, Ch!Goto
      <4>2. CASE Ch!PersistRow
        <5>1. at = "persist"
          BY <1>1, <2>3, <4>2, ChTransfer DEF Ch!PersistRow, Ch!Stepped
        <5>2. Ch!Applies(Ch!AfterRow) \/ Ch!Refused
          BY <4>2 DEF Ch!PersistRow
        <5> QED BY <5>1, <5>2 DEF Ch!AfterRow, Ch!Applies, Ch!Refused, Ch!Goto
      <4> QED BY <1>11, <4>1, <4>2
    <3> QED BY <1>1, <2>1, <3>1
  <2> QED BY <2>2, <2>3
<1> QED BY <1>2, <1>3, <1>4, <1>5, <1>6, <1>7, <1>8, <1>9, <1>10, <1>11 DEF Ch!Next

\* Together.
LEMMA ChTypedStep ==
  ASSUME Ch!ClickHouseConstants, Ch!Typed, Ch!Stepped, Ch!Told, Ch!Next
  PROVE  Ch!Typed'
<1>1. cfg' = cfg /\ Ch!Versions' = Ch!Versions /\ cfg \in ChTransfers
  BY ChLogStays, ChKept0
<1>2. run' \in Nat /\ attempt' \in Nat
  BY ChCountsStep, ChNumbers
<1>3. \A i \in DOMAIN saved' : saved'[i].at \in Nat /\ saved'[i].upper \in Nat
  <2>1. saved' = Ch!Absent \/ saved' \in Seq(Ch!StateRow)
    BY ChStateStep
  <2>2. CASE saved' = Ch!Absent
    BY <2>2 DEF Ch!Absent
  <2>3. CASE saved' \in Seq(Ch!StateRow)
    <3>1. \A i \in DOMAIN saved' : saved'[i] \in Ch!StateRow
      BY <2>3, LenProperties, ElementOfSeq
    <3> QED BY <3>1 DEF Ch!StateRow
  <2> QED BY <2>1, <2>2, <2>3
<1>4. Ch!TypeOK'
  <2>1. ready' \in BOOLEAN
    BY ChCountsStep
  <2>2. dest' \in [Ch!Versions' -> Nat] /\ cfg' \in ChTransfers
    BY <1>1, ChTablesStep
  <2>3. sent' \in 0..Len(batch')
    BY ChBatchStep
  <2> QED BY <1>3, <2>1, <2>2, <2>3, ChCountsStep DEF Ch!TypeOK
<1>5. /\ batch' \in Seq(Ch!Versions') /\ \A i, j \in 1..Len(batch') : i < j => batch'[i] < batch'[j]
  BY <1>1, ChBatchStep
<1>6. saved' = Ch!Absent \/ saved' \in Seq(Ch!StateRow)
  BY ChStateStep
<1>7. /\ staging' = Ch!Missing \/ staging' \in [Ch!Versions' -> Nat]
      /\ cfg'.promote = "direct" => staging' = Ch!Missing
      /\ cfg'.promote # "direct" /\ at' \in {"insert", "promote", "copy"} =>
           staging' \in [Ch!Versions' -> Nat]
  BY <1>1, ChTablesStep
<1> QED BY <1>2, <1>4, <1>5, <1>6, <1>7, ChCountsStep DEF Ch!Typed, Ch!Absent, Ch!Missing

-----------------------------------------------------------------------------
(* The order of the steps, and what the state table says.                  *)

\* Each step is still of what it is of.
LEMMA ChSteppedStep ==
  ASSUME Ch!ClickHouseConstants, Ch!Typed, Ch!Stepped, Ch!Next
  PROVE  Ch!Stepped'
<1>1. /\ cfg' = cfg /\ cfg.promote \in {"direct", "insert", "swap"}
      /\ cfg.chunked => cfg.promote = "direct"
      /\ Len(batch) \in Nat /\ sent \in 0..Len(batch)
  BY ChLogStays, ChKept0, ChTransfer, ChBatchIs
<1>2. CASE Ch!StartRun
  BY <1>2 DEF Ch!StartRun, Ch!Goto, Ch!Stepped
<1>3. CASE Ch!Prepare
  <2>1. at' = Ch!NextStep /\ batch' = batch /\ sent' = sent
    BY <1>3 DEF Ch!Prepare, Ch!Goto, Ch!reading
  <2> QED BY <1>1, <2>1, ChStepsOn DEF Ch!Stepped
<1>4. CASE Ch!DropState \/ Ch!CompactState \/ (Ch!Ended /\ UNCHANGED Ch!vars)
  <2>1. at' = at /\ batch' = batch /\ sent' = sent
    BY <1>4 DEF Ch!DropState, Ch!CompactState, Ch!vars, Ch!reading
  <2> QED BY <1>1, <2>1 DEF Ch!Stepped
<1>5. CASE Ch!Insert
  <2>1. /\ batch' = batch /\ sent' = sent + Cardinality(Ch!Call) /\ at = "insert"
           /\ sent < Len(batch)
        /\ at' = IF cfg.chunked THEN "mark"
                 ELSE IF sent + Cardinality(Ch!Call) < Len(batch) THEN "insert"
                 ELSE IF cfg.promote = "direct" THEN "persist" ELSE "promote"
    BY ChCardinality, <1>5 DEF Ch!Insert, Ch!Goto, Ch!Stepped
  <2>2. sent' \in 1..Len(batch)
    BY <1>1, <2>1, ChCallIs
  <2>3. CASE cfg.chunked
    BY <1>1, <2>1, <2>2, <2>3 DEF Ch!Stepped
  <2>4. CASE ~cfg.chunked /\ sent' < Len(batch)
    BY <1>1, <2>1, <2>2, <2>4 DEF Ch!Stepped
  <2>5. CASE ~cfg.chunked /\ ~(sent' < Len(batch))
    BY <1>1, <2>1, <2>2, <2>5 DEF Ch!Stepped
  <2> QED BY <2>3, <2>4, <2>5
<1>6. CASE Ch!InsertFails
  <2>1. at' \in {at, "cleanup"} /\ batch' = batch /\ sent' = sent
    BY <1>6 DEF Ch!InsertFails, Ch!Goto, Ch!reading
  <2> QED BY <1>1, <2>1 DEF Ch!Stepped
<1>7. CASE Ch!DeleteStale \/ Ch!InsertSelect \/ Ch!ExchangeTables
  <2>1. batch' = batch /\ sent' = sent /\ cfg.promote # "direct"
    BY <1>7 DEF Ch!DeleteStale, Ch!InsertSelect, Ch!ExchangeTables, Ch!reading, Ch!Stepped
  <2>2. \/ Ch!DeleteStale /\ cfg.promote = "insert" /\ at = "promote" /\ at' \in {"copy", "cleanup"}
        \/ ~Ch!DeleteStale /\ at' \in {"drop", "cleanup"}
    BY <1>7 DEF Ch!DeleteStale, Ch!InsertSelect, Ch!ExchangeTables, Ch!Applies, Ch!Refused, Ch!Goto
  <2> QED BY <1>1, <2>1, <2>2 DEF Ch!Stepped
<1>8. CASE Ch!DropStaging
  <2>1. batch' = batch /\ sent' = sent
    BY <1>8 DEF Ch!DropStaging, Ch!reading
  <2>2. at' \in {"failed", "ok"} \/ (at' = "persist" /\ cfg.promote # "swap")
    BY <1>8 DEF Ch!DropStaging, Ch!Goto
  <2> QED BY <1>1, <2>1, <2>2 DEF Ch!Stepped
<1>9. CASE Ch!PersistRow
  <2>1. batch' = batch /\ sent' = sent /\ at' \in {Ch!AfterRow, "cleanup"}
    BY <1>9 DEF Ch!PersistRow, Ch!reading, Ch!Applies, Ch!Refused, Ch!Goto
  <2>2. at = "mark" => cfg.promote = "direct"
    BY <1>1 DEF Ch!Stepped
  <2>3. at' \in {"ok", "cleanup"} \/ (at = "mark" /\ at' = Ch!NextStep)
    BY <1>9, <2>1 DEF Ch!PersistRow, Ch!AfterRow
  <2> QED BY <1>1, <2>1, <2>2, <2>3, ChStepsOn DEF Ch!Stepped
<1>10. CASE Ch!Crash
  BY <1>10 DEF Ch!Crash, Ch!Goto, Ch!Stepped
<1> QED BY <1>2, <1>3, <1>4, <1>5, <1>6, <1>7, <1>8, <1>9, <1>10 DEF Ch!Next

\* What the newest row of the state table may become.
LEMMA ChRowStep ==
  ASSUME Ch!ClickHouseConstants, Ch!Typed, Ch!Stepped, Ch!Told, Ch!Next
  PROVE  \/ Ch!Row' = Ch!Row /\ ~(Ch!PersistRow /\ Ch!WriteRow)
         \/ Ch!Row' = Ch!NoRow /\ Ch!DropState
         \/ /\ Ch!PersistRow /\ Ch!WriteRow /\ at = "mark" /\ cfg.chunked /\ sent \in 1..Len(batch)
            /\ Ch!Row' = [w |-> Ch!Row.w, at |-> batch[sent], upper |-> upper]
         \/ /\ Ch!PersistRow /\ Ch!WriteRow /\ at = "persist" /\ cfg.promote # "swap"
            /\ Ch!Row' = [w |-> upper, at |-> 0, upper |-> 0]
<1>1. CASE Ch!DropState
  BY <1>1, ChStateStep
<1>2. CASE Ch!PersistRow /\ Ch!WriteRow
  <2>1. Ch!Row' = Ch!NewRow /\ at \in {"mark", "persist"}
    BY <1>2, ChStateStep DEF Ch!PersistRow
  <2>2. at = "mark" => cfg.chunked /\ sent \in 1..Len(batch)
    BY ChBatchIs DEF Ch!Stepped
  <2> QED BY <1>2, <2>1, <2>2, ChNewRowIs DEF Ch!Stepped
<1>3. CASE ~Ch!DropState /\ ~(Ch!PersistRow /\ Ch!WriteRow)
  BY <1>3, ChStateStep
<1> QED BY <1>1, <1>2, <1>3

\* A run goes on until it is over, and begins as the next one.
LEMMA ChRunningStep ==
  ASSUME Ch!ClickHouseConstants, Ch!Typed, Ch!Next
  PROVE  Ch!Running' => \/ Ch!StartRun /\ run' > 0 /\ at' = "prepare"
                        \/ ~Ch!StartRun /\ Ch!Running /\ run' = run /\ cfg' = cfg
<1>1. SUFFICES ASSUME Ch!Running', ~Ch!StartRun PROVE Ch!Running /\ run' = run /\ cfg' = cfg
  BY DEF Ch!StartRun, Ch!Typed, Ch!Goto
<1>2. run' = run /\ cfg' = cfg
  BY <1>1, ChLogStays
  DEF Ch!Next, Ch!Prepare, Ch!DropState, Ch!CompactState, Ch!Insert, Ch!InsertFails,
      Ch!DeleteStale, Ch!InsertSelect,
      Ch!ExchangeTables, Ch!DropStaging, Ch!PersistRow, Ch!Crash, Ch!vars
<1>3. CASE Ch!DropState \/ Ch!CompactState \/ UNCHANGED Ch!vars
  BY <1>1, <1>3 DEF Ch!DropState, Ch!CompactState, Ch!vars, Ch!Running
<1>4. CASE Ch!Prepare \/ Ch!Insert \/ Ch!InsertFails \/ Ch!DeleteStale \/ Ch!InsertSelect
           \/ Ch!ExchangeTables \/ Ch!PersistRow
  BY <1>4 DEF Ch!Prepare, Ch!Insert, Ch!InsertFails, Ch!DeleteStale, Ch!InsertSelect,
              Ch!ExchangeTables, Ch!PersistRow, Ch!Running
<1>5. CASE Ch!DropStaging \/ Ch!Crash
  BY <1>1, <1>5 DEF Ch!DropStaging, Ch!Crash, Ch!Goto, Ch!Running
<1> QED BY <1>1, <1>2, <1>3, <1>4, <1>5 DEF Ch!Next

\* The state table still says what it says.
LEMMA ChToldStep ==
  ASSUME Ch!ClickHouseConstants, Ch!Typed, Ch!Stepped, Ch!Told, Ch!Next
  PROVE  Ch!Told'
<1>1. /\ cfg' = cfg /\ cfg.promote \in {"direct", "insert", "swap"}
      /\ cfg.chunked => cfg.promote = "direct"
      /\ run \in Nat /\ upper \in 0..run /\ Ch!Row.w <= run /\ Ch!Row.upper <= run
      /\ Ch!Row.w \in Nat /\ Ch!Row.at \in Nat /\ Ch!Row.upper \in Nat
  BY ChLogStays, ChKept0, ChTransfer, ChRowIs DEF Ch!Typed, Ch!Told
<1>2. /\ Ch!NoRow.w = 0 /\ Ch!NoRow.at = 0 /\ Ch!NoRow.upper = 0
  BY DEF Ch!NoRow
<1>3. upper' \in 0..run' /\ run' >= run /\ run' \in Nat
  <2>1. CASE Ch!StartRun
    <3>1. run' = run + 1 /\ upper' = Ch!UpperOf(run + 1)
      BY <2>1 DEF Ch!StartRun
    <3>2. Ch!UpperOf(run + 1) \in 0..(run + 1)
      BY <1>1, ChUpperIs
    <3> QED BY <1>1, <3>1, <3>2
  <2>2. CASE ~Ch!StartRun
    BY <1>1, <2>2, ChBatchStep
  <2> QED BY <2>1, <2>2
<1>4. Ch!Row'.w <= run' /\ Ch!Row'.upper <= run'
  <2>1. Ch!Row'.w <= run /\ Ch!Row'.upper <= run
    BY <1>1, <1>2, ChRowStep
  <2>2. Ch!Row' \in Ch!StateRow
    BY ChRowIs, ChNewRowIs, ChStateStep
  <2>3. Ch!Row'.w \in Nat /\ Ch!Row'.upper \in Nat
    BY <2>2 DEF Ch!StateRow
  <2> QED BY <1>1, <1>3, <2>1, <2>3
<1>5. cfg'.promote = "swap" => Ch!Row' = Ch!NoRow
  BY <1>1, ChRowStep DEF Ch!Told
<1>6. ~cfg'.chunked => Ch!Row'.at = 0
  BY <1>1, <1>2, ChRowStep DEF Ch!Told
<1>7. \A t \in tokens' : t[2] \in 0..(chWrites' - 1)
  <2>1. chWrites \in Nat /\ \A t \in tokens : t[2] \in 0..(chWrites - 1)
    BY DEF Ch!Typed, Ch!Told
  <2>2. CASE Ch!PersistRow /\ Ch!WriteRow
    <3>1. chWrites' = chWrites + 1 /\ tokens' = tokens \cup {Ch!StateToken}
          /\ Ch!StateToken[2] = chWrites
      BY <2>2 DEF Ch!WriteRow, Ch!StateToken
    <3> HIDE DEF Ch!StateToken
    <3>2. ASSUME NEW t \in tokens' PROVE t[2] \in 0..(chWrites' - 1)
      <4>1. CASE t \in tokens
        <5>1. t[2] \in 0..(chWrites - 1)
          BY <2>1, <4>1
        <5> QED BY <2>1, <3>1, <5>1
      <4>2. CASE t = Ch!StateToken
        BY <2>1, <3>1, <4>2
      <4> QED BY <3>1, <4>1, <4>2
    <3> QED BY <3>2
  <2>3. CASE ~(Ch!PersistRow /\ Ch!WriteRow)
    <3>1. chWrites' = chWrites /\ (tokens' = tokens \/ tokens' = {})
      BY <2>3
      DEF Ch!Next, Ch!StartRun, Ch!Prepare, Ch!DropState, Ch!CompactState, Ch!Insert,
          Ch!InsertFails, Ch!DeleteStale,
          Ch!InsertSelect, Ch!ExchangeTables, Ch!DropStaging, Ch!PersistRow, Ch!Crash, Ch!vars,
          Ch!saved
    <3> QED BY <2>1, <3>1
  <2> QED BY <2>2, <2>3
<1>8. Ch!StateTold'
  <2>1. SUFFICES ASSUME at' = "ok", run' > 0, cfg'.promote # "swap", saved' # Ch!Absent
                 PROVE  Ch!Row' = Ch!NewRow'
    BY DEF Ch!StateTold
  <2>2. Ch!NewRow' = [w |-> upper', at |-> 0, upper |-> 0]
    BY <2>1 DEF Ch!NewRow
  <2>3. CASE at = "ok" /\ ~Ch!StartRun
    <3>1. upper' = upper /\ run' = run /\ saved # Ch!Absent
      <4>1. Ch!DropState \/ Ch!CompactState \/ UNCHANGED Ch!vars
        BY <2>3
        DEF Ch!Next, Ch!Prepare, Ch!Insert, Ch!InsertFails, Ch!DeleteStale, Ch!InsertSelect,
            Ch!ExchangeTables,
            Ch!DropStaging, Ch!PersistRow, Ch!Crash, Ch!Over
      <4>2. saved # Ch!Absent
        BY <2>1, <4>1 DEF Ch!DropState, Ch!CompactState, Ch!vars, Ch!saved
      <4> QED BY <2>3, <4>2, ChBatchStep
    <3>2. Ch!Row = Ch!NewRow /\ Ch!NewRow = [w |-> upper, at |-> 0, upper |-> 0]
      BY <1>1, <2>1, <2>3, <3>1 DEF Ch!Told, Ch!StateTold, Ch!NewRow
    <3>3. Ch!Row' = Ch!Row
      BY <2>1, <2>3, ChRowStep DEF Ch!DropState
    <3> QED BY <2>2, <3>1, <3>2, <3>3
  <2>4. CASE at # "ok" \/ Ch!StartRun
    <3>1. Ch!PersistRow /\ at = "persist" /\ at' = "ok"
      <4>1. ~Ch!StartRun /\ ~Ch!Prepare /\ ~Ch!DropState /\ ~Ch!CompactState
            /\ ~(Ch!Ended /\ UNCHANGED Ch!vars)
        BY <2>1, <2>4, ChStepsOn
        DEF Ch!StartRun, Ch!Prepare, Ch!DropState, Ch!CompactState, Ch!vars, Ch!Goto
      <4>2. ~Ch!Insert /\ ~Ch!InsertFails /\ ~Ch!Crash
        BY <2>1 DEF Ch!Insert, Ch!InsertFails, Ch!Crash, Ch!Goto
      <4>3. ~Ch!DeleteStale /\ ~Ch!InsertSelect /\ ~Ch!ExchangeTables
        BY <2>1
        DEF Ch!DeleteStale, Ch!InsertSelect, Ch!ExchangeTables, Ch!Applies, Ch!Refused, Ch!Goto
      <4>4. ~Ch!DropStaging
        BY <1>1, <2>1 DEF Ch!DropStaging, Ch!Goto
      <4>5. Ch!PersistRow
        BY <4>1, <4>2, <4>3, <4>4 DEF Ch!Next
      <4>6. at = "persist"
        BY <2>1, <4>5, ChStepsOn DEF Ch!PersistRow, Ch!AfterRow, Ch!Applies, Ch!Refused, Ch!Goto
      <4> QED BY <2>1, <4>5, <4>6
    <3>2. Ch!WriteRow
      BY <3>1 DEF Ch!PersistRow, Ch!Refused, Ch!Goto
    <3>3. Ch!Row' = Ch!NewRow /\ upper' = upper
      BY <3>1, <3>2, ChStateStep DEF Ch!PersistRow, Ch!reading
    <3>4. Ch!NewRow = [w |-> upper, at |-> 0, upper |-> 0]
      BY <3>1, ChNewRowIs
    <3> QED BY <2>2, <3>3, <3>4
  <2> QED BY <2>3, <2>4
<1>9. Ch!Running' => run' > 0
  BY ChRunningStep DEF Ch!Told
<1> QED BY <1>3, <1>4, <1>5, <1>6, <1>7, <1>8, <1>9 DEF Ch!Told

-----------------------------------------------------------------------------
(* The blocks, and what a staging table holds.                             *)

\* After an insert what was sent of it is there, and its blocks were seen.
LEMMA ChStoredIs ==
  ASSUME Ch!ClickHouseConstants, Ch!Typed, Ch!Stepped, Ch!Seen, at = "insert",
         NEW rows \in SUBSET Ch!Call, Ch!StoreBlocks(rows)
  PROVE  /\ cfg.promote = "direct" =>
              /\ staging' = Ch!Missing
              /\ \A v \in Ch!Versions : v \in Ch!Held(dest') <=> v \in Ch!Held(dest) \/ v \in rows
         /\ cfg.promote # "direct" =>
              /\ dest' = dest /\ staging' \in [Ch!Versions -> Nat]
              /\ \A v \in Ch!Versions : v \in Ch!Held(staging') <=>
                 v \in Ch!Held(staging) \/ v \in rows
         /\ \A b \in blocks' : b \in blocks \/ \E v \in rows : b = Ch!Block(v)
<1>1. \A b \in blocks' : b \in blocks \/ \E v \in rows : b = Ch!Block(v)
  BY DEF Ch!StoreBlocks
<1>2. /\ Ch!Kept(rows) \subseteq rows
      /\ \A v \in rows : v \notin Ch!Kept(rows) => Ch!Block(v) \in blocks
  BY DEF Ch!Kept
<1>3. \A v : Ch!Block(v)[4] = v /\ (cfg.promote # "direct" => Ch!RunOf(Ch!Block(v)) = run)
  <2>1. \A v : Ch!Block(v)[4] = v
    BY DEF Ch!Block
  <2>2. cfg.promote # "direct" => staging # Ch!Missing
    BY ChStores
  <2>3. CASE cfg.token
    BY <2>3 DEF Ch!RunOf, Ch!Block, Ch!Token, Ch!TokenOfInsert
  <2>4. CASE ~cfg.token
    BY <2>2, <2>4 DEF Ch!RunOf, Ch!Block
  <2> QED BY <2>1, <2>3, <2>4
<1>4. dest \in [Ch!Versions -> Nat] /\ (cfg.promote # "direct" => staging \in [Ch!Versions -> Nat])
  BY ChKept0 DEF Ch!Typed
<1>5. CASE cfg.promote = "direct"
  <2>1. staging' = Ch!Missing /\ dest' = Ch!Adding(dest, Ch!Kept(rows))
    BY <1>5, ChStores
  <2>2. \A v \in Ch!Versions : v \in Ch!Held(dest') <=> v \in Ch!Held(dest) \/ v \in Ch!Kept(rows)
    BY <1>4, <2>1, ChTables
  <2>3. \A v \in rows : v \notin Ch!Kept(rows) => v \in Ch!Held(dest)
    BY <1>2, <1>3, <1>5 DEF Ch!Seen
  <2> QED BY <1>1, <1>2, <1>5, <2>1, <2>2, <2>3
<1>6. CASE cfg.promote # "direct"
  <2>1. dest' = dest /\ staging' = Ch!Adding(staging, Ch!Kept(rows))
        /\ staging' \in [Ch!Versions -> Nat]
    BY <1>6, ChStores
  <2>2. \A v \in Ch!Versions : v \in Ch!Held(staging') <=>
        v \in Ch!Held(staging) \/ v \in Ch!Kept(rows)
    BY <1>4, <1>6, <2>1, ChTables
  <2>3. \A v \in rows : v \notin Ch!Kept(rows) => v \in Ch!Held(staging)
    BY <1>2, <1>3, <1>6 DEF Ch!Seen
  <2> QED BY <1>1, <1>2, <1>6, <2>1, <2>2, <2>3
<1> QED BY <1>5, <1>6

\* What either outcome of an insert stores.
LEMMA ChInsertIs ==
  ASSUME Ch!ClickHouseConstants, Ch!Typed, Ch!Stepped, Ch!Insert \/ Ch!InsertFails
  PROVE  /\ at = "insert" /\ batch' = batch /\ upper' = upper /\ run' = run /\ cfg' = cfg
         /\ \E rows \in SUBSET Ch!Call : Ch!StoreBlocks(rows) /\ (Ch!Insert => rows = Ch!Call)
         /\ Ch!Call \subseteq Ch!Whole /\ Ch!Call \subseteq Ch!Versions
         /\ ~Ch!InsertFails => sent' = sent + Cardinality(Ch!Call) /\ sent' \in 1..Len(batch)
              /\ \A i \in 1..sent' : i <= sent \/ batch[i] \in Ch!Call
         /\ Ch!Insert => sent' = sent + Cardinality(Ch!Call)
         /\ Ch!InsertFails => sent' = sent /\ epoch' = epoch
<1>1. /\ at = "insert" /\ batch' = batch /\ upper' = upper /\ run' = run /\ cfg' = cfg
      /\ Ch!Insert => sent' = sent + Cardinality(Ch!Call)
      /\ Ch!InsertFails => sent' = sent /\ epoch' = epoch
  BY ChCardinality DEF Ch!Insert, Ch!InsertFails, Ch!reading
<1>2. \E rows \in SUBSET Ch!Call : Ch!StoreBlocks(rows) /\ (Ch!Insert => rows = Ch!Call)
  <2>1. CASE Ch!Insert
    BY <2>1 DEF Ch!Insert
  <2>2. CASE ~Ch!Insert
    <3>1. PICK rows \in {{v \in Ch!Call : v < u} : u \in Ch!Call} \cup {Ch!Call} : Ch!StoreBlocks(rows)
      BY <2>2 DEF Ch!InsertFails
    <3>2. rows \in SUBSET Ch!Call
      OBVIOUS
    <3> QED BY <2>2, <3>1, <3>2
  <2> QED BY <2>1, <2>2
<1>3. PICK m \in Nat : /\ m > sent /\ m <= Len(batch)
                       /\ Ch!Call = {batch[i] : i \in (sent + 1)..m}
                       /\ sent + Cardinality(Ch!Call) = m
  BY <1>1, ChCallIs DEF Ch!Stepped
<1>4. Len(batch) \in Nat /\ sent \in Nat /\ \A i \in 1..Len(batch) : batch[i] \in Ch!Versions
  BY ChBatchIs
<1>5. Ch!Call \subseteq Ch!Whole /\ Ch!Call \subseteq Ch!Versions
  BY <1>3, <1>4 DEF Ch!Whole
<1>6. \A i \in 1..m : i <= sent \/ batch[i] \in Ch!Call
  BY <1>3, <1>4
<1> QED BY <1>1, <1>2, <1>3, <1>4, <1>5, <1>6

\* The rows of the blocks that were seen are still there.
LEMMA ChSeenStep ==
  ASSUME Ch!ClickHouseConstants, Ch!Typed, Ch!Stepped, Ch!Told, Ch!Seen, Ch!Next
  PROVE  Ch!Seen'
<1>1. cfg' = cfg /\ Ch!Versions' = Ch!Versions /\ run \in Nat /\ dest \in [Ch!Versions -> Nat]
      /\ cfg.promote \in {"direct", "insert", "swap"}
  BY ChLogStays, ChKept0, ChTransfer DEF Ch!Typed
<1>2. CASE Ch!Insert \/ Ch!InsertFails
  <2>1. PICK rows \in SUBSET Ch!Call : Ch!StoreBlocks(rows)
    BY <1>2, ChInsertIs
  <2>2. at = "insert" /\ run' = run /\ Ch!Call \subseteq Ch!Versions
    BY <1>2, ChInsertIs
  <2>3. \A b \in blocks' : b \in blocks \/ \E v \in rows : b = Ch!Block(v)
    BY <2>1, <2>2, ChStoredIs
  <2>4. CASE cfg.promote = "direct"
    <3>1. \A v \in Ch!Versions : v \in Ch!Held(dest') <=> v \in Ch!Held(dest) \/ v \in rows
      BY <2>1, <2>2, <2>4, ChStoredIs
    <3>2. \A v \in rows : Ch!Block(v)[4] = v /\ v \in Ch!Versions
      BY <2>2 DEF Ch!Block
    <3>3. \A b \in blocks : b[4] \in Ch!Held(dest) /\ b[4] \in Ch!Versions
      BY <1>1, <2>4 DEF Ch!Seen, Ch!Held
    <3> QED BY <1>1, <2>3, <2>4, <3>1, <3>2, <3>3 DEF Ch!Seen
  <2>5. CASE cfg.promote # "direct"
    <3>1. \A v \in Ch!Versions : v \in Ch!Held(staging') <=> v \in Ch!Held(staging) \/ v \in rows
      BY <2>1, <2>2, <2>5, ChStoredIs
    <3>2. \A v \in rows : Ch!Block(v)[4] = v /\ v \in Ch!Versions /\ Ch!RunOf(Ch!Block(v)) = run
      <4>1. staging # Ch!Missing
        BY <2>1, <2>2, <2>5, ChStores
      <4>2. CASE cfg.token
        BY <2>2, <4>2 DEF Ch!RunOf, Ch!Block, Ch!Token, Ch!TokenOfInsert
      <4>3. CASE ~cfg.token
        BY <2>2, <4>1, <4>3 DEF Ch!RunOf, Ch!Block
      <4> QED BY <4>2, <4>3
    <3>3. staging \in [Ch!Versions -> Nat]
      BY <2>2, <2>5 DEF Ch!Typed
    <3>4. \A b \in blocks : /\ Ch!RunOf(b) \in 0..run
                            /\ Ch!RunOf(b) = run =>
                               b[4] \in Ch!Held(staging) /\ b[4] \in Ch!Versions
      BY <2>2, <2>5, <3>3 DEF Ch!Seen, Ch!Held
    <3>5. \A b : Ch!RunOf(b)' = Ch!RunOf(b)
      BY <1>1 DEF Ch!RunOf
    <3>6. at' # "prepare"
      BY <1>2, <2>2 DEF Ch!Insert, Ch!InsertFails, Ch!Goto
    <3>7. ASSUME NEW b \in blocks'
          PROVE  Ch!RunOf(b) \in 0..run /\ (Ch!RunOf(b) = run => b[4] \in Ch!Held(staging'))
      <4>1. CASE b \in blocks
        BY <3>1, <3>4, <4>1
      <4>2. CASE b \notin blocks
        <5>1. PICK v \in rows : b = Ch!Block(v)
          BY <2>3, <4>2
        <5> HIDE DEF Ch!Block
        <5> QED BY <1>1, <3>1, <3>2, <5>1
      <4> QED BY <4>1, <4>2
    <3>8. /\ cfg'.promote # "direct"
          /\ \A b \in blocks' : Ch!RunOf(b)' \in 0..run'
             /\ (Ch!RunOf(b)' = run' => b[4] \in Ch!Held(staging'))
      BY <1>1, <2>2, <2>5, <3>5, <3>7
    <3> QED BY <3>6, <3>8 DEF Ch!Seen
  <2> QED BY <2>4, <2>5
<1>3. CASE ~Ch!Insert /\ ~Ch!InsertFails
  <2>1. blocks' = blocks
    BY <1>3
    DEF Ch!Next, Ch!StartRun, Ch!Prepare, Ch!DropState, Ch!CompactState, Ch!DeleteStale,
        Ch!InsertSelect, Ch!ExchangeTables,
        Ch!DropStaging, Ch!PersistRow, Ch!Crash, Ch!vars, Ch!tables
  <2>2. \A b : Ch!RunOf(b)' = Ch!RunOf(b)
    BY <1>1 DEF Ch!RunOf
  <2>3. CASE cfg.promote = "direct"
    <3>1. dest' = dest
      <4>1. at \notin {"promote", "copy"}
        BY <2>3 DEF Ch!Stepped
      <4> QED BY <1>3, <4>1
          DEF Ch!Next, Ch!StartRun, Ch!Prepare, Ch!DropState, Ch!CompactState, Ch!DeleteStale,
              Ch!InsertSelect,
              Ch!ExchangeTables, Ch!DropStaging, Ch!PersistRow, Ch!Crash, Ch!vars, Ch!tables
    <3> QED BY <1>1, <2>1, <2>3, <3>1 DEF Ch!Seen
  <2>4. CASE cfg.promote # "direct"
    <3>1. \A b \in blocks : Ch!RunOf(b) \in 0..run /\ (at = "prepare" => Ch!RunOf(b) < run)
                              /\ (at = "insert" /\ Ch!RunOf(b) = run => b[4] \in Ch!Held(staging))
      BY <2>4 DEF Ch!Seen
    <3>2. CASE Ch!StartRun
      <4>1. run' = run + 1 /\ at' = "prepare"
        BY <3>2 DEF Ch!StartRun, Ch!Goto
      <4>2. \A b \in blocks : Ch!RunOf(b) \in 0..run' /\ Ch!RunOf(b) < run'
        BY <1>1, <3>1, <4>1
      <4> QED BY <1>1, <2>1, <2>2, <2>4, <4>1, <4>2 DEF Ch!Seen
    <3>3. CASE Ch!Prepare
      <4>1. run' = run /\ at = "prepare" /\ at' # "prepare"
        BY <3>3, ChStepsOn DEF Ch!Prepare, Ch!Goto
      <4>2. \A b \in blocks : Ch!RunOf(b) \in 0..run' /\ Ch!RunOf(b) # run'
        BY <1>1, <3>1, <4>1
      <4> QED BY <1>1, <2>1, <2>2, <2>4, <4>1, <4>2 DEF Ch!Seen
    <3>4. CASE ~Ch!StartRun /\ ~Ch!Prepare
      <4>1. run' = run
        BY <3>4, ChBatchStep
      <4>2. (at' = at /\ staging' = staging) \/ at' \notin {"insert", "prepare"}
        <5>1. CASE Ch!DropState \/ Ch!CompactState \/ UNCHANGED Ch!vars
          BY <5>1 DEF Ch!DropState, Ch!CompactState, Ch!vars, Ch!tables
        <5>2. CASE Ch!DeleteStale \/ Ch!InsertSelect \/ Ch!ExchangeTables
          BY <5>2
          DEF Ch!DeleteStale, Ch!InsertSelect, Ch!ExchangeTables, Ch!Applies, Ch!Refused, Ch!Goto
        <5>3. CASE Ch!DropStaging \/ Ch!Crash
          BY <5>3 DEF Ch!DropStaging, Ch!Crash, Ch!Goto
        <5>4. CASE Ch!PersistRow
          <6>1. at = "persist"
            BY <1>1, <2>4, <5>4, ChTransfer, ChKept0 DEF Ch!PersistRow, Ch!Stepped
          <6> QED BY <5>4, <6>1 DEF Ch!PersistRow, Ch!AfterRow, Ch!Applies, Ch!Refused, Ch!Goto
        <5> QED BY <1>3, <3>4, <5>1, <5>2, <5>3, <5>4 DEF Ch!Next
      <4> QED BY <1>1, <2>1, <2>2, <2>4, <3>1, <4>1, <4>2 DEF Ch!Seen
    <3> QED BY <3>2, <3>3, <3>4
  <2> QED BY <2>3, <2>4
<1> QED BY <1>2, <1>3

\* A staging table still holds what was sent and nothing else.
LEMMA ChStagedStep ==
  ASSUME Ch!ClickHouseConstants, Ch!Typed, Ch!Stepped, Ch!Told, Ch!Seen, Ch!Staged, Ch!Next
  PROVE  Ch!Staged'
<1>1. SUFFICES ASSUME cfg'.promote # "direct", at' \in {"insert", "promote", "copy"}
               PROVE  Ch!Sent' \subseteq Ch!Held(staging') /\ Ch!Held(staging') \subseteq Ch!Whole'
  BY DEF Ch!Staged
<1>2. cfg' = cfg /\ Ch!Versions' = Ch!Versions /\ cfg.promote # "direct"
  BY <1>1, ChLogStays
<1>3. Ch!Staged /\ (at \in {"insert", "promote", "copy"} =>
                   Ch!Sent \subseteq Ch!Held(staging) /\ Ch!Held(staging) \subseteq Ch!Whole)
  BY <1>2 DEF Ch!Staged
<1>4. CASE Ch!Insert \/ Ch!InsertFails
  <2>1. at = "insert" /\ batch' = batch /\ Ch!Call \subseteq Ch!Whole
        /\ Ch!Call \subseteq Ch!Versions
    BY <1>4, ChInsertIs
  <2>2. PICK rows \in SUBSET Ch!Call : Ch!StoreBlocks(rows) /\ (Ch!Insert => rows = Ch!Call)
    BY <1>4, ChInsertIs
  <2>3. \A v \in Ch!Versions : v \in Ch!Held(staging') <=> v \in Ch!Held(staging) \/ v \in rows
    BY <1>2, <2>1, <2>2, ChStoredIs
  <2>4. Ch!Whole' = Ch!Whole
    BY <2>1 DEF Ch!Whole
  <2>5. staging' \in [Ch!Versions -> Nat] /\ staging \in [Ch!Versions -> Nat]
    BY <1>2, <2>1, <2>2, ChStoredIs DEF Ch!Typed
  <2>6. Ch!Held(staging') \subseteq Ch!Versions /\ Ch!Held(staging) \subseteq Ch!Versions
    BY <2>5 DEF Ch!Held
  <2>7. Ch!Held(staging') \subseteq Ch!Whole'
    BY <1>3, <2>1, <2>2, <2>3, <2>4, <2>6
  <2>8. ASSUME NEW i \in 1..sent' PROVE batch[i] \in Ch!Held(staging')
    <3>1. batch[i] \in Ch!Sent \/ (Ch!Insert /\ batch[i] \in Ch!Call)
      <4>1. CASE Ch!InsertFails
        BY <2>8, <4>1, ChInsertIs DEF Ch!Sent
      <4>2. CASE ~Ch!InsertFails
        <5>1. i <= sent \/ batch[i] \in Ch!Call
          BY <1>4, <2>8, <4>2, ChInsertIs
        <5>2. i \in Nat /\ i >= 1 /\ sent \in Nat
          BY <1>4, <2>8, <4>2, ChInsertIs, ChBatchIs
        <5> QED BY <1>4, <4>2, <5>1, <5>2 DEF Ch!Sent
      <4> QED BY <4>1, <4>2
    <3> QED BY <1>3, <2>1, <2>2, <2>3, <2>6, <3>1
  <2>9. Ch!Sent' \subseteq Ch!Held(staging')
    BY <2>1, <2>8 DEF Ch!Sent
  <2> QED BY <2>7, <2>9
<1>5. CASE Ch!Prepare
  <2>1. staging' = Ch!Empty /\ sent' = 0 /\ batch' = batch
    BY <1>2, <1>5 DEF Ch!Prepare, Ch!Stepped, Ch!reading
  <2>2. Ch!Held(staging') = {} /\ Ch!Sent' = {}
    <3>1. Ch!Held(Ch!Empty) = {}
      BY DEF Ch!Held, Ch!Empty
    <3> QED BY <2>1, <3>1 DEF Ch!Sent
  <2> QED BY <2>2
<1>6. CASE ~Ch!Insert /\ ~Ch!InsertFails /\ ~Ch!Prepare
  <2>1. at \in {"insert", "promote", "copy"} /\ staging' = staging /\ batch' = batch /\ sent' = sent
    <3>1. CASE Ch!DropState \/ Ch!CompactState \/ UNCHANGED Ch!vars
      BY <1>1, <3>1 DEF Ch!DropState, Ch!CompactState, Ch!vars, Ch!tables, Ch!reading
    <3>2. CASE Ch!DeleteStale
      BY <3>2 DEF Ch!DeleteStale, Ch!reading
    <3>3. CASE Ch!StartRun \/ Ch!InsertSelect \/ Ch!ExchangeTables \/ Ch!DropStaging \/ Ch!Crash
      BY <1>1, <3>3
      DEF Ch!StartRun, Ch!InsertSelect, Ch!ExchangeTables, Ch!DropStaging, Ch!Crash, Ch!Applies,
          Ch!Refused, Ch!Goto
    <3>4. CASE Ch!PersistRow
      <4>1. at = "persist"
        BY <1>2, <3>4, ChTransfer, ChKept0 DEF Ch!PersistRow, Ch!Stepped
      <4> QED BY <1>1, <3>4, <4>1 DEF Ch!PersistRow, Ch!AfterRow, Ch!Applies, Ch!Refused, Ch!Goto
    <3> QED BY <1>6, <3>1, <3>2, <3>3, <3>4 DEF Ch!Next
  <2> QED BY <1>3, <2>1 DEF Ch!Sent, Ch!Whole
<1> QED BY <1>4, <1>5, <1>6

\* With tokens a row is still in the staging table once at most.
LEMMA ChOnceStep ==
  ASSUME Ch!ClickHouseConstants, Ch!Typed, Ch!Stepped, Ch!Told, Ch!Seen, Ch!Staged, Ch!Once, Ch!Next
  PROVE  Ch!Once'
<1>1. SUFFICES ASSUME cfg.token, cfg.dedups
               PROVE  /\ staging' # Ch!Missing => \A v \in Ch!Versions : staging'[v] <= 1
                      /\ cfg.promote = "swap" => \A v \in Ch!Versions : dest'[v] <= 1
                      /\ staging' # Ch!Missing /\ at' = "insert" =>
                           \A v \in Ch!Versions : staging'[v] > 0 =>
                             v \in Ch!Sent' \/ (v \in Ch!Call' /\ Ch!Block(v)' \in blocks')
  BY ChLogStays DEF Ch!Once, Ch!StoredOnce, Ch!Missing
<1>2. /\ staging # Ch!Missing => \A v \in Ch!Versions : staging[v] <= 1
      /\ cfg.promote = "swap" => \A v \in Ch!Versions : dest[v] <= 1
      /\ staging # Ch!Missing /\ at = "insert" =>
           \A v \in Ch!Versions : staging[v] > 0 =>
           v \in Ch!Sent \/ (v \in Ch!Call /\ Ch!Block(v) \in blocks)
  BY <1>1 DEF Ch!Once, Ch!StoredOnce
<1>3. cfg' = cfg /\ Ch!Versions' = Ch!Versions /\ cfg.promote \in {"direct", "insert", "swap"}
      /\ dest \in [Ch!Versions -> Nat]
  BY ChLogStays, ChTransfer, ChKept0
<1>4. CASE Ch!Insert \/ Ch!InsertFails
  <2>1. at = "insert" /\ batch' = batch /\ run' = run /\ Ch!Call \subseteq Ch!Versions
    BY <1>4, ChInsertIs
  <2>2. PICK rows \in SUBSET Ch!Call : Ch!StoreBlocks(rows) /\ (Ch!Insert => rows = Ch!Call)
    BY <1>4, ChInsertIs
  <2>3. CASE cfg.promote = "direct"
    BY <2>1, <2>2, <2>3, ChStoredIs
  <2>4. CASE cfg.promote # "direct"
    <3>1. staging # Ch!Missing /\ dest' = dest /\ staging' = Ch!Adding(staging, Ch!Kept(rows))
          /\ staging \in [Ch!Versions -> Nat] /\ staging' \in [Ch!Versions -> Nat]
      BY <2>1, <2>2, <2>4, ChStores DEF Ch!Typed
    <3>2. \A v \in Ch!Versions :
             staging'[v] = staging[v] + IF v \in rows /\ Ch!Block(v) \notin blocks THEN 1 ELSE 0
      BY <1>1, <3>1 DEF Ch!Adding, Ch!Kept
    <3>3. \A v \in Ch!Call : v \notin Ch!Sent
      <4>1. PICK m \in Nat : m > sent /\ m <= Len(batch)
                 /\ Ch!Call = {batch[i] : i \in (sent + 1)..m}
        BY <2>1, ChCallIs DEF Ch!Stepped
      <4>2. Len(batch) \in Nat /\ sent \in Nat
            /\ \A i, j \in 1..Len(batch) : batch[i] = batch[j] => i = j
        BY ChBatchIs
      <4>3. \A i \in 1..sent, j \in (sent + 1)..m : batch[i] # batch[j]
        BY <4>1, <4>2
      <4> QED BY <4>1, <4>3 DEF Ch!Sent
    <3>4. ASSUME NEW v \in Ch!Versions PROVE staging'[v] <= 1
      <4>1. CASE v \in rows /\ Ch!Block(v) \notin blocks
        <5>1. ~(staging[v] > 0)
          BY <1>2, <2>1, <3>1, <3>3, <4>1
        <5> HIDE DEF Ch!Block
        <5> QED BY <3>1, <3>2, <4>1, <5>1
      <4>2. CASE ~(v \in rows /\ Ch!Block(v) \notin blocks)
        BY <1>2, <3>1, <3>2, <4>2
      <4> QED BY <4>1, <4>2
    <3>5. ASSUME NEW v \in Ch!Versions, staging'[v] > 0, at' = "insert"
          PROVE  v \in Ch!Sent' \/ (v \in Ch!Call' /\ Ch!Block(v)' \in blocks')
      <4>1. v \in Ch!Sent \/ (v \in Ch!Call /\ Ch!Block(v) \in blocks) \/ v \in rows
        BY <1>2, <2>1, <3>1, <3>2, <3>5
      <4>2. CASE ~Ch!InsertFails
        <5>1. PICK m \in Nat : /\ m > sent /\ m <= Len(batch)
                               /\ Ch!Call = {batch[i] : i \in (sent + 1)..m}
                               /\ sent + Cardinality(Ch!Call) = m
          BY <2>1, ChCallIs DEF Ch!Stepped
        <5>2. sent' = m /\ sent \in Nat
          BY <1>4, <4>2, <5>1, ChInsertIs, ChBatchIs
        <5>3. Ch!Sent' = {batch[i] : i \in 1..m}
          BY <2>1, <5>2 DEF Ch!Sent
        <5>4. 1..sent \subseteq 1..m /\ (sent + 1)..m \subseteq 1..m
          BY <5>1, <5>2
        <5>5. Ch!Sent = {batch[i] : i \in 1..sent}
          BY DEF Ch!Sent
        <5>6. Ch!Sent \subseteq Ch!Sent' /\ Ch!Call \subseteq Ch!Sent'
          BY <5>1, <5>3, <5>4, <5>5
        <5> QED BY <2>2, <4>1, <5>6
      <4>3. CASE Ch!InsertFails
        <5>1. sent' = sent /\ epoch' = epoch
          BY <1>4, <4>3, ChInsertIs
        <5>2. Ch!Sent' = Ch!Sent /\ Ch!Call' = Ch!Call
          BY <2>1, <5>1 DEF Ch!Sent, Ch!Call
        <5>3. staging' # Ch!Missing
          <6>1. DOMAIN Ch!Missing = {}
            BY DEF Ch!Missing
          <6> QED BY <3>1, <3>5, <6>1
        <5>4. Ch!Block(v)' = Ch!Block(v)
          BY <1>1, <1>3, <2>1, <3>1, <5>1, <5>3 DEF Ch!Block, Ch!Token, Ch!TokenOfInsert
        <5>5. Ch!Block(v) \in blocks' \/ v \in Ch!Sent
          BY <1>1, <2>2, <4>1 DEF Ch!StoreBlocks
        <5> QED BY <2>2, <4>1, <5>2, <5>4, <5>5
      <4> QED BY <4>2, <4>3
    <3> QED BY <1>2, <3>1, <3>4, <3>5
  <2> QED BY <2>3, <2>4
<1>5. CASE Ch!Prepare
  <2>1. dest' = dest /\ (staging' # Ch!Missing => staging' = Ch!Empty)
    BY <1>5 DEF Ch!Prepare
  <2>2. \A v \in Ch!Versions : Ch!Empty[v] = 0
    BY DEF Ch!Empty
  <2> QED BY <1>2, <2>1, <2>2
<1>6. CASE Ch!ExchangeTables
  <2>1. (dest' = staging /\ staging' = dest) \/ UNCHANGED <<dest, staging>>
    BY <1>6 DEF Ch!ExchangeTables
  <2>2. at' # "insert" /\ cfg.promote = "swap" /\ at = "promote"
    BY <1>6 DEF Ch!ExchangeTables, Ch!Applies, Ch!Refused, Ch!Goto
  <2>3. staging \in [Ch!Versions -> Nat]
    BY <2>2 DEF Ch!Typed
  <2>4. \A v \in Ch!Versions : staging[v] <= 1
    <3>1. CASE staging = Ch!Missing
      <4>1. DOMAIN Ch!Missing = {}
        BY DEF Ch!Missing
      <4> QED BY <2>3, <3>1, <4>1
    <3> QED BY <1>2, <3>1
  <2> QED BY <1>2, <2>1, <2>2, <2>4
<1>7. CASE ~Ch!Insert /\ ~Ch!InsertFails /\ ~Ch!Prepare /\ ~Ch!ExchangeTables
  <2>1. staging' \in {Ch!Missing, staging} /\ (cfg.promote = "swap" => dest' = dest)
    <3>1. CASE Ch!StartRun \/ Ch!DropState \/ Ch!CompactState \/ UNCHANGED Ch!vars \/ Ch!PersistRow
               \/ Ch!Crash
      BY <3>1
      DEF Ch!StartRun, Ch!DropState, Ch!CompactState, Ch!vars, Ch!tables, Ch!PersistRow, Ch!Crash
    <3>2. CASE Ch!DeleteStale \/ Ch!InsertSelect
      BY <3>2 DEF Ch!DeleteStale, Ch!InsertSelect, Ch!Stepped
    <3>3. CASE Ch!DropStaging
      BY <3>3 DEF Ch!DropStaging
    <3> QED BY <1>7, <3>1, <3>2, <3>3 DEF Ch!Next
  <2>2. at' = "insert" /\ staging' # Ch!Missing =>
          /\ at = "insert" /\ staging' = staging /\ sent' = sent /\ batch' = batch
             /\ blocks' = blocks
          /\ run' = run /\ epoch' = epoch
    <3>1. CASE Ch!DropState \/ Ch!CompactState \/ UNCHANGED Ch!vars
      BY <3>1 DEF Ch!DropState, Ch!CompactState, Ch!vars, Ch!tables, Ch!reading
    <3>2. CASE Ch!StartRun \/ Ch!DeleteStale \/ Ch!InsertSelect \/ Ch!DropStaging \/ Ch!Crash
      BY <3>2 DEF Ch!StartRun, Ch!DeleteStale, Ch!InsertSelect, Ch!DropStaging, Ch!Crash,
                  Ch!Applies, Ch!Refused, Ch!Goto
    <3>3. CASE Ch!PersistRow
      <4>1. CASE cfg.promote = "direct"
        <5>1. staging' = Ch!Missing
          BY <4>1, ChTablesStep
        <5> QED BY <5>1
      <4>2. CASE cfg.promote # "direct"
        <5>1. at = "persist"
          BY <3>3, <4>2, ChTransfer, ChKept0 DEF Ch!PersistRow, Ch!Stepped
        <5> QED BY <3>3, <5>1 DEF Ch!PersistRow, Ch!AfterRow, Ch!Applies, Ch!Refused, Ch!Goto
      <4> QED BY <4>1, <4>2
    <3> QED BY <1>7, <3>1, <3>2, <3>3 DEF Ch!Next
  <2>3. ASSUME at' = "insert", staging' # Ch!Missing, NEW v \in Ch!Versions, staging'[v] > 0
        PROVE  v \in Ch!Sent' \/ (v \in Ch!Call' /\ Ch!Block(v)' \in blocks')
    <3>1. Ch!Sent' = Ch!Sent /\ Ch!Call' = Ch!Call /\ Ch!Block(v)' = Ch!Block(v)
      BY <1>3, <2>2, <2>3 DEF Ch!Sent, Ch!Call, Ch!Block, Ch!Token, Ch!TokenOfInsert
    <3> QED BY <1>2, <2>2, <2>3, <3>1
  <2> QED BY <1>2, <2>1, <2>3
<1> QED BY <1>4, <1>5, <1>6, <1>7

-----------------------------------------------------------------------------
(* What is past the cursor.                                                *)

\* What stale rows are: of keys that are gone.
LEMMA ChStaleAreGone ==
  ASSUME Ch!ClickHouseConstants, Ch!Typed, Ch!Stepped, Ch!Told, Ch!Staged, Ch!Reading,
         Ch!DeleteStale,
         NEW u \in Ch!Stale
  PROVE  u \in cfg.gone
<1>1. /\ at = "promote" /\ cfg.promote = "insert" /\ sent = Len(batch) /\ cfg \in ChTransfers
         /\ run \in Nat
      /\ upper \in 0..run
  BY ChKept0 DEF Ch!DeleteStale, Ch!Stepped, Ch!Typed, Ch!Told
<1>2. Ch!Held(staging) \subseteq Ch!Whole /\ Ch!Whole \subseteq Ch!Held(staging)
  BY <1>1 DEF Ch!Staged, Ch!Sent, Ch!Whole
<1> DEFINE held == Ch!Held(staging)
           spans == {Ch!P(v) : v \in held}
<1>3. /\ cfg.stale /\ held # {} /\ u \in Ch!Held(dest)
      /\ Ch!P(u) \in Ch!Min(spans)..Ch!Max(spans) /\ Ch!K(u) \notin {Ch!K(v) : v \in held}
  <2>1. u \in (IF cfg.stale /\ Ch!StagedAny
                 THEN {v \in Ch!Held(dest) : Ch!P(v) \in (IF held = {} THEN {0} ELSE Ch!Between(spans))
                                          /\ Ch!K(v) \notin {Ch!K(t) : t \in held}}
                 ELSE {})
    BY DEF Ch!Stale
  <2>2. cfg.stale /\ held # {}
    BY <2>1 DEF Ch!StagedAny
  <2>3. spans # {}
    BY <2>2
  <2>4. Ch!Between(spans) = Ch!Min(spans)..Ch!Max(spans)
    BY <2>3 DEF Ch!Between
  <2> QED BY <2>1, <2>2, <2>4
<1>4. held \subseteq Ch!Versions /\ u \in Ch!Versions
  <2>1. staging \in [Ch!Versions -> Nat] /\ dest \in [Ch!Versions -> Nat]
    BY <1>1, ChKept0 DEF Ch!Typed
  <2> QED BY <1>3, <2>1 DEF Ch!Held
<1>5. Ch!P(u) = Ch!W(u) /\ Ch!W(u) \in Nat
      /\ \A v \in held : Ch!P(v) = Ch!W(v) /\ Ch!W(v) \in Nat /\ Ch!W(v) <= run
  <2>1. \A v \in held : Ch!W(v) <= run
    BY <1>1, <1>2 DEF Ch!Reading, Ch!Running, Ch!Visible
  <2> QED BY <1>1, <1>3, <1>4, <2>1, ChTransfer
<1>6. PICK s \in held : Ch!P(s) = Ch!Min(spans)
  <2>1. spans \in SUBSET Nat /\ spans # {}
    BY <1>3, <1>5
  <2>2. Ch!Min(spans) \in spans
    <3> HIDE DEF spans
    <3> QED BY <2>1, ChNatMin
  <2> QED BY <2>2
<1>7. PICK t \in held : Ch!P(t) = Ch!Max(spans)
  <2>1. spans \in SUBSET Nat /\ spans # {} /\ \A w \in spans : w <= run
    BY <1>3, <1>5
  <2>2. Ch!Max(spans) \in spans
    <3> HIDE DEF spans
    <3> QED BY <1>1, <2>1, ChNatMax
  <2> QED BY <2>2
<1>8. Ch!W(u) >= Ch!W(s) /\ Ch!W(u) <= run
  <2>1. Ch!Min(spans) = Ch!W(s) /\ Ch!Max(spans) = Ch!W(t) /\ Ch!W(t) <= run /\ Ch!W(s) \in Nat
        /\ Ch!W(t) \in Nat
    BY <1>5, <1>6, <1>7
  <2> HIDE DEF spans
  <2>2. Ch!W(u) \in Ch!W(s)..Ch!W(t)
    BY <1>3, <1>5, <2>1
  <2> QED BY <1>1, <1>5, <2>1, <2>2
<1>9. SUFFICES ASSUME u \notin cfg.gone PROVE FALSE
  OBVIOUS
<1>10. u \in Ch!Visible(run)
  BY <1>4, <1>8, <1>9 DEF Ch!Visible
<1>11. u \in Ch!Whole
  BY <1>1, <1>2, <1>6, <1>8, <1>10 DEF Ch!Reading, Ch!Running
<1> QED BY <1>2, <1>3, <1>11

\* But for an exchange, the destination keeps the rows the source has.
LEMMA ChRowsStay ==
  ASSUME Ch!ClickHouseConstants, Ch!CInv, Ch!Next, ~Ch!ExchangeTables
  PROVE  \A v \in Ch!Versions \ cfg.gone : v \in Ch!Held(dest) => v \in Ch!Held(dest')
<1>1. Ch!Typed /\ Ch!Stepped /\ Ch!Told /\ Ch!Seen /\ Ch!Staged /\ Ch!Reading
      /\ dest \in [Ch!Versions -> Nat]
  BY ChKept0 DEF Ch!CInv
<1>2. CASE Ch!Insert \/ Ch!InsertFails
  <2>1. PICK rows \in SUBSET Ch!Call : Ch!StoreBlocks(rows)
    BY <1>1, <1>2, ChInsertIs
  <2>2. at = "insert"
    BY <1>1, <1>2, ChInsertIs
  <2>3. CASE cfg.promote = "direct"
    BY <1>1, <2>1, <2>2, <2>3, ChStoredIs
  <2>4. CASE cfg.promote # "direct"
    BY <1>1, <2>1, <2>2, <2>4, ChStoredIs
  <2> QED BY <2>3, <2>4
<1>3. CASE Ch!DeleteStale
  <2>1. dest' = dest \/ dest' = Ch!Without(dest, Ch!Stale)
    BY <1>3 DEF Ch!DeleteStale
  <2>2. \A v \in Ch!Versions : v \in Ch!Held(Ch!Without(dest, Ch!Stale)) <=>
        v \in Ch!Held(dest) /\ v \notin Ch!Stale
    BY <1>1, ChTables
  <2>3. Ch!Stale \subseteq cfg.gone
    BY <1>1, <1>3, ChStaleAreGone
  <2> QED BY <2>1, <2>2, <2>3
<1>4. CASE Ch!InsertSelect
  <2>1. (dest' = dest \/ dest' = Ch!SumOf(staging, dest))
        /\ (staging = Ch!Missing \/ staging \in [Ch!Versions -> Nat])
    BY <1>1, <1>4 DEF Ch!InsertSelect, Ch!Typed
  <2>2. \A v \in Ch!Versions : v \in Ch!Held(Ch!SumOf(staging, dest)) <=>
        v \in Ch!Held(dest) \/ v \in Ch!Held(staging)
    BY <1>1, <2>1, ChTables
  <2> QED BY <2>1, <2>2
<1>5. CASE ~Ch!Insert /\ ~Ch!InsertFails /\ ~Ch!DeleteStale /\ ~Ch!InsertSelect
  BY <1>5
  DEF Ch!Next, Ch!StartRun, Ch!Prepare, Ch!DropState, Ch!CompactState, Ch!DropStaging,
      Ch!PersistRow, Ch!Crash, Ch!vars, Ch!tables
<1> QED BY <1>2, <1>3, <1>4, <1>5

\* So what is covered stays so.
LEMMA ChCoverStays ==
  ASSUME Ch!ClickHouseConstants, Ch!CInv, Ch!Next, ~Ch!ExchangeTables
  PROVE  \A n : \A v \in Ch!Newest(Ch!Visible(n)) : Ch!Covered(v) => Ch!Covered(v)'
<1>1. cfg' = cfg /\ \A v : Ch!K(v)' = Ch!K(v) /\ Ch!W(v)' = Ch!W(v)
  BY ChLogStays
<1>2. SUFFICES ASSUME NEW n, NEW v \in Ch!Newest(Ch!Visible(n)), Ch!Covered(v)
               PROVE  Ch!Covered(v)'
  OBVIOUS
<1>3. v \in Ch!Versions /\ v \notin cfg.gone
  BY DEF Ch!Newest, Ch!NewestOf, Ch!Visible
<1>4. PICK u \in Ch!Held(dest) : Ch!K(u) = Ch!K(v) /\ Ch!W(u) >= Ch!W(v)
  BY <1>2 DEF Ch!Covered
<1>5. u \in Ch!Versions /\ cfg \in ChTransfers
  <2>1. dest \in [Ch!Versions -> Nat] /\ cfg \in ChTransfers
    BY ChKept0 DEF Ch!CInv
  <2> QED BY <2>1 DEF Ch!Held
<1>6. u \notin cfg.gone
  BY <1>3, <1>4, <1>5, ChTransfer
<1>7. u \in Ch!Held(dest')
  BY <1>4, <1>5, <1>6, ChRowsStay
<1>8. Ch!K(u)' = Ch!K(v)' /\ Ch!W(u)' >= Ch!W(v)'
  BY <1>1, <1>4
<1> QED BY <1>7, <1>8 DEF Ch!Covered

\* An exchange puts all that is visible there.
LEMMA ChExchangeCovers ==
  ASSUME Ch!ClickHouseConstants, Ch!CInv, Ch!Next, Ch!ExchangeTables
  PROVE  dest' = dest \/ \A v \in Ch!Visible(0) : Ch!Covered(v)'
<1>1. /\ Ch!Typed /\ Ch!Stepped /\ Ch!Told /\ Ch!Staged /\ Ch!Reading /\ at = "promote"
         /\ cfg.promote = "swap"
      /\ sent = Len(batch) /\ run \in Nat
  BY DEF Ch!CInv, Ch!ExchangeTables, Ch!Stepped, Ch!Typed
<1>2. SUFFICES ASSUME dest' = staging, NEW v \in Ch!Visible(0) PROVE Ch!Covered(v)'
  BY DEF Ch!ExchangeTables
<1>3. v \in Ch!Visible(run)
  BY <1>1, ChReadIs DEF Ch!Visible
<1>4. PICK u \in Ch!Whole : Ch!K(u) = Ch!K(v) /\ Ch!W(u) >= Ch!W(v)
  BY <1>1, <1>3 DEF Ch!Reading, Ch!Running
<1>5. u \in Ch!Held(dest')
  BY <1>1, <1>2, <1>4 DEF Ch!Staged, Ch!Sent, Ch!Whole
<1>6. Ch!K(u)' = Ch!K(v)' /\ Ch!W(u)' >= Ch!W(v)'
  BY <1>4, ChLogStays
<1> QED BY <1>5, <1>6 DEF Ch!Covered

\* What the run's rows become when it goes on: those it no longer owes are
\* there.
LEMMA ChOwedStep ==
  ASSUME Ch!ClickHouseConstants, Ch!CInv, Ch!Next, ~Ch!StartRun, Ch!Running', cfg.promote # "swap",
         NEW v \in Ch!Owed
  PROVE  v \in Ch!Owed' \/ v \in Ch!Held(dest')
<1>1. /\ Ch!Typed /\ Ch!Stepped /\ Ch!Told /\ Ch!Seen /\ Ch!Staged /\ cfg' = cfg /\ batch' = batch
      /\ Len(batch) \in Nat /\ sent \in Nat /\ sent <= Len(batch)
      /\ \A i \in 1..Len(batch) : batch[i] \in Ch!Versions
  BY ChBatchIs, ChBatchStep, ChLogStays DEF Ch!CInv
<1>2. /\ v \in Ch!Whole /\ Ch!Whole' = Ch!Whole /\ Ch!Whole \subseteq Ch!Versions
      /\ at \in {"prepare", "insert", "mark", "promote", "copy"}
  BY <1>1 DEF Ch!Owed, Ch!Whole
<1>3. CASE cfg.promote = "direct"
  <2>1. PICK i \in (sent + 1)..Len(batch) : v = batch[i]
    BY <1>2, <1>3 DEF Ch!Owed
  <2>2. CASE Ch!Insert
    <3>1. PICK m \in Nat : /\ m > sent /\ m <= Len(batch)
                           /\ Ch!Call = {batch[j] : j \in (sent + 1)..m}
                           /\ sent + Cardinality(Ch!Call) = m
      BY <1>1, <2>2, ChCallIs DEF Ch!Insert, Ch!Stepped
    <3>2. sent' = m
      BY ChCardinality, <2>2, <3>1 DEF Ch!Insert
    <3>3. CASE i <= m
      <4>1. v \in Ch!Call
        BY <2>1, <1>1, <3>1, <3>3
      <4>2. Ch!StoreBlocks(Ch!Call) /\ at = "insert"
        BY <2>2 DEF Ch!Insert
      <4>3. v \in Ch!Versions
        BY <1>2
      <4> QED BY <1>1, <1>3, <4>1, <4>2, <4>3, ChStoredIs
    <3>4. CASE ~(i <= m)
      <4>1. i \in (sent' + 1)..Len(batch) /\ sent' < Len(batch)
        BY <1>1, <2>1, <3>1, <3>2, <3>4
      <4>2. at' \in {"mark", "insert"}
        BY <2>2, <3>1, <3>2, <4>1 DEF Ch!Insert, Ch!Goto
      <4> QED BY <1>1, <1>3, <2>1, <4>1, <4>2 DEF Ch!Owed
    <3> QED BY <3>3, <3>4
  <2>3. CASE ~Ch!Insert
    <3>1. sent' = sent
      BY <2>3, ChBatchStep DEF Ch!CInv
    <3>2. at' \in {"prepare", "insert", "mark", "promote", "copy"}
      <4>1. CASE Ch!Prepare
        BY <1>1, <2>1, <4>1 DEF Ch!Prepare, Ch!NextStep, Ch!Goto
      <4>2. CASE Ch!PersistRow
        <5>1. at' = Ch!AfterRow /\ at = "mark"
          BY <1>2, <4>2 DEF Ch!PersistRow, Ch!Applies, Ch!Refused, Ch!Goto, Ch!Running
        <5> QED BY <1>1, <2>1, <5>1 DEF Ch!AfterRow, Ch!NextStep
      <4>3. CASE Ch!DropState \/ Ch!CompactState \/ UNCHANGED Ch!vars
        BY <1>2, <4>3 DEF Ch!DropState, Ch!CompactState, Ch!vars
      <4>4. CASE Ch!InsertFails
        BY <1>2, <4>4 DEF Ch!InsertFails, Ch!Goto, Ch!Running
      <4>5. CASE Ch!DeleteStale \/ Ch!InsertSelect \/ Ch!ExchangeTables \/ Ch!DropStaging
                 \/ Ch!Crash
        BY <1>1, <1>2, <1>3, <4>5
        DEF Ch!DeleteStale, Ch!InsertSelect, Ch!ExchangeTables, Ch!DropStaging, Ch!Crash, Ch!Goto,
            Ch!Running, Ch!Stepped
      <4> QED BY <2>3, <4>1, <4>2, <4>3, <4>4, <4>5 DEF Ch!Next
    <3> QED BY <1>1, <1>3, <2>1, <3>1, <3>2 DEF Ch!Owed
  <2> QED BY <2>2, <2>3
<1>4. CASE cfg.promote # "direct"
  <2>1. CASE Ch!InsertSelect
    <3>1. at = "copy" /\ sent = Len(batch) /\ dest' = Ch!SumOf(staging, dest)
      BY <1>1, <2>1 DEF Ch!InsertSelect, Ch!Refused, Ch!Goto, Ch!Running, Ch!Stepped
    <3>2. v \in Ch!Held(staging)
      BY <1>1, <1>2, <1>4, <3>1 DEF Ch!Staged, Ch!Sent, Ch!Whole
    <3>3. staging \in [Ch!Versions -> Nat] /\ dest \in [Ch!Versions -> Nat]
      BY <1>1, <1>4, <3>1, ChKept0 DEF Ch!Typed
    <3> QED BY <1>2, <3>1, <3>2, <3>3, ChTables
  <2>2. CASE ~Ch!InsertSelect
    <3>1. at' \in {"prepare", "insert", "mark", "promote", "copy"}
      <4>1. CASE Ch!Prepare
        BY <1>4, <4>1, ChStepsOn DEF Ch!Prepare, Ch!Goto
      <4>2. CASE Ch!PersistRow
        BY <1>1, <1>2, <1>4, <4>2, ChTransfer, ChKept0 DEF Ch!PersistRow, Ch!Stepped
      <4>3. CASE Ch!DropState \/ Ch!CompactState \/ UNCHANGED Ch!vars
        BY <1>2, <4>3 DEF Ch!DropState, Ch!CompactState, Ch!vars
      <4>4. CASE Ch!InsertFails
        BY <1>2, <4>4 DEF Ch!InsertFails, Ch!Goto, Ch!Running
      <4>5. CASE Ch!Insert
        BY <1>1, <1>4, <4>5, ChTransfer, ChKept0 DEF Ch!Insert, Ch!Goto
      <4>6. CASE Ch!DeleteStale
        BY <4>6 DEF Ch!DeleteStale, Ch!Applies, Ch!Refused, Ch!Goto, Ch!Running
      <4>7. CASE Ch!ExchangeTables \/ Ch!DropStaging \/ Ch!Crash
        BY <1>2, <4>7 DEF Ch!ExchangeTables, Ch!DropStaging, Ch!Crash, Ch!Goto, Ch!Running
      <4> QED BY <2>2, <4>1, <4>2, <4>3, <4>4, <4>5, <4>6, <4>7 DEF Ch!Next
    <3> QED BY <1>1, <1>2, <1>4, <3>1 DEF Ch!Owed
  <2> QED BY <2>1, <2>2
<1> QED BY <1>3, <1>4

\* When the run begins it owes what the destination has not of what it goes
\* up to.
LEMMA ChStartOwes ==
  ASSUME Ch!ClickHouseConstants, Ch!CInv, Ch!StartRun
  PROVE  Ch!Reading'
<1>1. /\ Ch!Typed /\ Ch!Stepped /\ Ch!Told /\ Ch!Saved /\ Ch!Next /\ run \in Nat /\ run + 1 \in Nat
      /\ Ch!Row.w <= run + 1 /\ Ch!Row.upper <= run + 1
      /\ Ch!Row.w \in Nat /\ Ch!Row.at \in Nat /\ Ch!Row.upper \in Nat /\ cfg \in ChTransfers
         /\ cfg.lookback \in Nat
      /\ cfg.promote \in {"direct", "insert", "swap"}
      /\ cfg.chunked => cfg.promote = "direct"
  BY ChRowIs, ChKept0, ChTransfer DEF Ch!CInv, Ch!Typed, Ch!Told, Ch!Next
<1>2. /\ run' = run + 1 /\ at' = "prepare" /\ sent' = 0 /\ Ch!Row' = Ch!Row /\ dest' = dest
      /\ upper' = Ch!UpperOf(run + 1) /\ cfg' = cfg
  BY DEF Ch!StartRun, Ch!Goto, Ch!saved, Ch!tables, Ch!Row
<1>3. Ch!Whole' = Ch!Read(run + 1)
  BY <1>1, ChBatchStep DEF Ch!Whole
<1>4. /\ \A n : Ch!Visible(n)' = Ch!Visible(n)
         /\ Ch!Newest(Ch!Visible(n))' = Ch!Newest(Ch!Visible(n))
      /\ \A v : Ch!K(v)' = Ch!K(v) /\ Ch!W(v)' = Ch!W(v)
  BY <1>1, ChLogStays
<1>5. Ch!Visible(run)' = Ch!Visible(run + 1)
  BY <1>2 DEF Ch!Visible, Ch!Versions, Ch!W
<1>6. Ch!Whole' \subseteq Ch!Visible(run)'
  BY <1>1, <1>3, <1>5, ChReadIs
<1>7. cfg'.promote = "swap" =>
        \A v \in Ch!Visible(run)' : \E u \in Ch!Whole' : Ch!K(u)' = Ch!K(v)' /\ Ch!W(u)' >= Ch!W(v)'
  <2>1. SUFFICES ASSUME cfg.promote = "swap", NEW v \in Ch!Visible(run + 1)
                 PROVE  \E u \in Ch!Whole' : Ch!K(u)' = Ch!K(v)' /\ Ch!W(u)' >= Ch!W(v)'
    BY <1>2, <1>5
  <2>2. Ch!Whole' = Ch!Newest(Ch!Visible(run + 1))
    BY <1>3, <2>1 DEF Ch!Read
  <2>3. \E u \in Ch!Newest(Ch!Visible(run + 1)) : Ch!K(u) = Ch!K(v) /\ Ch!W(u) >= Ch!W(v)
    BY <1>1, ChNewestIs
  <2> QED BY <1>4, <2>2, <2>3
<1>8. \A v \in Ch!Whole' : cfg.promote # "swap" => Ch!W(v) > Ch!Row.w - cfg.lookback
  BY <1>3 DEF Ch!Read
<1>9. cfg'.chunked => \A v \in Ch!Whole' : Ch!W(v)' > Ch!Row'.w - cfg'.lookback
  BY <1>1, <1>2, <1>4, <1>8
<1>10. cfg'.promote = "insert" =>
         \A u \in Ch!Whole' : \A v \in Ch!Visible(run)' : Ch!W(v)' >= Ch!W(u)' => v \in Ch!Whole'
  <2>1. SUFFICES ASSUME cfg.promote = "insert", NEW u \in Ch!Whole', NEW v \in Ch!Visible(run + 1),
                        Ch!W(v) >= Ch!W(u)
                 PROVE  v \in Ch!Whole'
    BY <1>2, <1>4, <1>5
  <2>2. Ch!Read(run + 1) = {t \in Ch!Visible(run + 1) : Ch!W(t) > Ch!Row.w - cfg.lookback}
    BY <1>1, <2>1 DEF Ch!Read
  <2>3. Ch!W(u) > Ch!Row.w - cfg.lookback /\ Ch!W(u) \in Nat /\ Ch!W(v) \in Nat
    BY <1>1, <1>3, <2>1, <2>2, ChReadIs
  <2>4. Ch!W(v) > Ch!Row.w - cfg.lookback
    BY <1>1, <2>1, <2>3
  <2> QED BY <1>3, <2>2, <2>4
<1>11. cfg'.promote # "swap" =>
       \A v \in Ch!Newest(Ch!Visible(upper))' : Ch!Covered(v)' \/ v \in Ch!Owed'
  <2>1. Ch!Newest(Ch!Visible(upper))' = Ch!Newest(Ch!Visible(Ch!UpperOf(run + 1)))
    BY <1>2 DEF Ch!Newest, Ch!Visible, Ch!Versions, Ch!W
  <2>2. \A v : Ch!Covered(v)' <=> Ch!Covered(v)
    BY <1>2, <1>4 DEF Ch!Covered
  <2>3. Ch!Owed' = Ch!Whole'
    BY <1>2 DEF Ch!Owed, Ch!Whole
  <2>4. SUFFICES ASSUME cfg.promote # "swap", NEW v \in Ch!Newest(Ch!Visible(Ch!UpperOf(run + 1)))
                 PROVE  Ch!Covered(v) \/ v \in Ch!Read(run + 1)
    BY <1>2, <1>3, <2>1, <2>2, <2>3
  <2>5. Ch!UpperOf(run + 1) \in 0..(run + 1)
    BY <1>1, ChUpperIs
  <2>6. v \in Ch!Visible(Ch!UpperOf(run + 1)) /\ Ch!W(v) <= Ch!UpperOf(run + 1) /\ Ch!W(v) \in Nat
        /\ v \in Ch!Versions \ cfg.gone
    BY <1>1, <2>5, ChTransfer DEF Ch!Newest, Ch!NewestOf, Ch!Visible
  <2>7. v \in Ch!Visible(run + 1)
    BY <1>1, <2>5, <2>6 DEF Ch!Visible
  <2>8. CASE cfg.chunked /\ Ch!Row.at > 0
    <3>1. Ch!UpperOf(run + 1) = Ch!Row.upper
      BY <2>8 DEF Ch!UpperOf
    <3>2. Ch!Covered(v) \/ (v > Ch!Row.at /\ Ch!W(v) > Ch!Row.w - cfg.lookback)
      BY <1>1, <2>8, <3>1 DEF Ch!Saved
    <3>3. Ch!Read(run + 1) = {t \in Ch!Visible(run + 1) :
                             t > Ch!Row.at /\ Ch!W(t) > Ch!Row.w - cfg.lookback
                             /\ Ch!W(t) <= Ch!Row.upper}
      BY <2>4, <2>8 DEF Ch!Read
    <3> QED BY <2>6, <2>7, <3>1, <3>2, <3>3
  <2>9. CASE ~(cfg.chunked /\ Ch!Row.at > 0)
    <3>1. CASE Ch!W(v) <= Ch!Row.w
      <4>1. Ch!Visible(Ch!Row.w) \subseteq Ch!Visible(Ch!UpperOf(run + 1))
        <5>1. Ch!Row.w <= Ch!UpperOf(run + 1)
          BY <1>1, <2>9, ChUpperIs
        <5> QED BY <1>1, <2>5, <5>1, ChReadIs DEF Ch!Visible
      <4>2. v \in Ch!Visible(Ch!Row.w)
        BY <2>6, <3>1 DEF Ch!Visible
      <4>3. v \in Ch!Newest(Ch!Visible(Ch!Row.w))
        BY <4>1, <4>2, ChNewestOfFewer
      <4> QED BY <1>1, <4>3 DEF Ch!Saved, Ch!CoveredTo
    <3>2. CASE ~(Ch!W(v) <= Ch!Row.w)
      <4>1. Ch!W(v) > Ch!Row.w - cfg.lookback
        BY <1>1, <2>6, <3>2
      <4>2. Ch!Read(run + 1) = {t \in Ch!Visible(run + 1) : Ch!W(t) > Ch!Row.w - cfg.lookback}
        BY <2>4, <2>9 DEF Ch!Read
      <4> QED BY <2>7, <4>1, <4>2
    <3> QED BY <3>1, <3>2
  <2> QED BY <2>8, <2>9
<1> QED BY <1>6, <1>7, <1>9, <1>10, <1>11 DEF Ch!Reading

\* What a run reads is still what it is, and it owes no less than is missing.
LEMMA ChReadingStep ==
  ASSUME Ch!ClickHouseConstants, Ch!CInv, Ch!Next
  PROVE  Ch!Reading'
<1>1. SUFFICES ASSUME Ch!Running', ~Ch!StartRun PROVE Ch!Reading'
  BY ChStartOwes DEF Ch!Reading
<1>2. /\ Ch!Typed /\ Ch!Stepped /\ Ch!Told /\ Ch!Running /\ run' = run /\ cfg' = cfg
         /\ batch' = batch /\ upper' = upper
      /\ cfg \in ChTransfers /\ cfg.lookback \in Nat /\ Ch!Row.w \in Nat /\ run \in Nat
  BY <1>1, ChRunningStep, ChBatchStep, ChKept0, ChTransfer, ChRowIs DEF Ch!CInv, Ch!Typed
<1>3. /\ Ch!Whole \subseteq Ch!Visible(run)
      /\ cfg.promote = "swap" =>
         \A v \in Ch!Visible(run) : \E u \in Ch!Whole : Ch!K(u) = Ch!K(v) /\ Ch!W(u) >= Ch!W(v)
      /\ cfg.promote # "swap" =>
         \A v \in Ch!Newest(Ch!Visible(upper)) : Ch!Covered(v) \/ v \in Ch!Owed
      /\ cfg.chunked => \A v \in Ch!Whole : Ch!W(v) > Ch!Row.w - cfg.lookback
      /\ cfg.promote = "insert" =>
           \A u \in Ch!Whole : \A v \in Ch!Visible(run) : Ch!W(v) >= Ch!W(u) => v \in Ch!Whole
  BY <1>2 DEF Ch!CInv, Ch!Reading
<1>4. /\ Ch!Whole' = Ch!Whole /\ Ch!Visible(run)' = Ch!Visible(run)
      /\ Ch!Newest(Ch!Visible(upper))' = Ch!Newest(Ch!Visible(upper))
      /\ \A v : Ch!K(v)' = Ch!K(v) /\ Ch!W(v)' = Ch!W(v)
  BY <1>2, ChLogStays DEF Ch!Whole, Ch!Visible, Ch!Newest, Ch!Versions, Ch!W
<1>5. Ch!Row'.w <= Ch!Row.w
  <2>1. Ch!NoRow.w = 0
    BY DEF Ch!NoRow
  <2>2. ~(at = "persist" /\ Ch!PersistRow /\ Ch!WriteRow)
    BY <1>1 DEF Ch!PersistRow, Ch!AfterRow, Ch!Applies, Ch!Refused, Ch!Goto, Ch!Running
  <2> QED BY <1>2, <2>1, <2>2, ChRowStep
<1>6. Ch!Row'.w \in Nat
  <2>1. Ch!Row' \in Ch!StateRow
    BY <1>2, ChRowIs, ChNewRowIs, ChStateStep
  <2> QED BY <2>1 DEF Ch!StateRow
<1>7. cfg'.chunked => \A v \in Ch!Whole' : Ch!W(v)' > Ch!Row'.w - cfg'.lookback
  <2>1. ASSUME cfg.chunked, NEW v \in Ch!Whole PROVE Ch!W(v) > Ch!Row'.w - cfg.lookback
    <3>1. Ch!W(v) > Ch!Row.w - cfg.lookback /\ Ch!W(v) \in Nat
      BY <1>2, <1>3, <2>1, ChReadIs
    <3> QED BY <1>2, <1>5, <1>6, <3>1
  <2> QED BY <1>2, <1>4, <2>1
<1>8. cfg'.promote # "swap" =>
      \A v \in Ch!Newest(Ch!Visible(upper))' : Ch!Covered(v)' \/ v \in Ch!Owed'
  <2>1. SUFFICES ASSUME cfg.promote # "swap", NEW v \in Ch!Newest(Ch!Visible(upper))
                 PROVE  Ch!Covered(v)' \/ v \in Ch!Owed'
    BY <1>2, <1>4
  <2>2. CASE Ch!Covered(v)
    BY <2>1, <2>2, ChCoverStays DEF Ch!ExchangeTables
  <2>3. CASE v \in Ch!Owed
    <3>1. v \in Ch!Owed' \/ v \in Ch!Held(dest')
      BY <1>1, <2>1, <2>3, ChOwedStep
    <3>2. Ch!W(v)' \in Nat
      BY <1>2, <1>4, <2>1, ChTransfer DEF Ch!Newest, Ch!NewestOf, Ch!Visible
    <3>3. Ch!W(v)' >= Ch!W(v)' /\ Ch!K(v)' = Ch!K(v)'
      BY <3>2
    <3> QED BY <3>1, <3>3 DEF Ch!Covered
  <2> QED BY <1>3, <2>1, <2>2, <2>3
<1> QED BY <1>2, <1>3, <1>4, <1>7, <1>8 DEF Ch!Reading

\* What is not past the cursor is still there.
LEMMA ChSavedStep ==
  ASSUME Ch!ClickHouseConstants, Ch!CInv, Ch!Next
  PROVE  Ch!Saved'
<1>1. /\ Ch!Typed /\ Ch!Stepped /\ Ch!Told /\ cfg' = cfg /\ cfg \in ChTransfers
      /\ Ch!Row.w \in Nat /\ Ch!Row.at \in Nat /\ Ch!Row.upper \in Nat /\ run \in Nat
      /\ \A n : Ch!Newest(Ch!Visible(n))' = Ch!Newest(Ch!Visible(n))
      /\ \A v : Ch!K(v)' = Ch!K(v) /\ Ch!W(v)' = Ch!W(v)
      /\ Ch!CoveredTo(0) /\ Ch!CoveredTo(Ch!Row.w)
  BY ChKept0, ChRowIs, ChLogStays DEF Ch!CInv, Ch!Typed, Ch!Saved
<1>2. Ch!Newest(Ch!Visible(Ch!Row.w))' = Ch!Newest(Ch!Visible(Ch!Row'.w))
      /\ Ch!Newest(Ch!Visible(Ch!Row.upper))' = Ch!Newest(Ch!Visible(Ch!Row'.upper))
  BY <1>1 DEF Ch!Newest, Ch!Visible, Ch!Versions, Ch!W
<1>3. Ch!NoRow.w = 0 /\ Ch!NoRow.at = 0 /\ Ch!NoRow.upper = 0
  BY DEF Ch!NoRow
<1>4. CASE ~Ch!ExchangeTables
  <2>1. \A n : \A v \in Ch!Newest(Ch!Visible(n)) : Ch!Covered(v) => Ch!Covered(v)'
    BY <1>4, ChCoverStays
  <2>2. Ch!CoveredTo(0)'
    BY <1>1, <2>1 DEF Ch!CoveredTo
  <2>3. CASE Ch!Row' = Ch!Row
    <3>1. \A v \in Ch!Newest(Ch!Visible(Ch!Row'.w)) : Ch!Covered(v)'
      BY <1>1, <2>1, <2>3 DEF Ch!CoveredTo
    <3>2. Ch!CoveredTo(Ch!Row.w)'
      BY <1>2, <3>1 DEF Ch!CoveredTo
    <3>3. Ch!Row'.at > 0 => \A v \in Ch!Newest(Ch!Visible(Ch!Row.upper))' :
                           Ch!Covered(v)'
                           \/ (v > Ch!Row'.at /\ Ch!W(v)' > Ch!Row'.w - cfg'.lookback)
      <4>1. Ch!Row.at > 0 => \A v \in Ch!Newest(Ch!Visible(Ch!Row.upper)) :
                            Ch!Covered(v) \/ (v > Ch!Row.at /\ Ch!W(v) > Ch!Row.w - cfg.lookback)
        BY DEF Ch!CInv, Ch!Saved
      <4> QED BY <1>1, <1>2, <2>1, <2>3, <4>1
    <3> QED BY <2>2, <3>2, <3>3 DEF Ch!Saved
  <2>4. CASE Ch!Row' = Ch!NoRow
    <3>1. \A v \in Ch!Newest(Ch!Visible(Ch!Row'.w)) : Ch!Covered(v)'
      BY <1>1, <1>3, <2>1, <2>4 DEF Ch!CoveredTo
    <3>2. Ch!CoveredTo(Ch!Row.w)'
      BY <1>2, <3>1 DEF Ch!CoveredTo
    <3> QED BY <1>3, <2>2, <2>4, <3>2 DEF Ch!Saved
  <2>5. CASE Ch!PersistRow /\ Ch!WriteRow /\ Ch!Row' # Ch!Row /\ Ch!Row' # Ch!NoRow
    <3>1. /\ Ch!Running /\ dest' = dest /\ upper \in 0..run /\ Ch!Reading /\ cfg.promote # "swap"
          /\ \A v \in Ch!Newest(Ch!Visible(upper)) : Ch!Covered(v) \/ v \in Ch!Owed
      <4>1. at = "mark" \/ at = "persist"
        BY <2>5 DEF Ch!PersistRow
      <4>2. cfg.promote # "swap"
        BY <1>1, <4>1, ChTransfer DEF Ch!Stepped
      <4> QED BY <1>1, <2>5, <4>1, <4>2
              DEF Ch!CInv, Ch!Running, Ch!Reading, Ch!Told, Ch!PersistRow, Ch!tables
    <3>2. CASE /\ at = "mark" /\ cfg.chunked /\ sent \in 1..Len(batch)
               /\ Ch!Row' = [w |-> Ch!Row.w, at |-> batch[sent], upper |-> upper]
      <4>1. Ch!Row'.w = Ch!Row.w /\ Ch!Row'.at = batch[sent] /\ Ch!Row'.upper = upper
        BY <3>2
      <4>2. \A v \in Ch!Newest(Ch!Visible(Ch!Row'.w)) : Ch!Covered(v)'
        BY <1>1, <2>1, <4>1 DEF Ch!CoveredTo
      <4>3. Ch!CoveredTo(Ch!Row.w)'
        BY <1>2, <4>2 DEF Ch!CoveredTo
      <4>4. ASSUME NEW v \in Ch!Newest(Ch!Visible(upper)), v \in Ch!Owed
            PROVE  v > batch[sent] /\ Ch!W(v) > Ch!Row.w - cfg.lookback
        <5>1. cfg.promote = "direct"
          BY <1>1, <3>2, ChTransfer
        <5>2. PICK i \in (sent + 1)..Len(batch) : v = batch[i]
          BY <3>2, <4>4, <5>1 DEF Ch!Owed
        <5>3. sent \in Nat /\ Len(batch) \in Nat /\ i \in 1..Len(batch) /\ sent < i
          BY <1>1, <5>2, ChBatchIs
        <5>4. batch[sent] < batch[i] /\ batch[i] \in Ch!Versions /\ batch[sent] \in Ch!Versions
          BY <1>1, <3>2, <5>3, ChBatchIs DEF Ch!Typed
        <5>5. batch[i] \in Nat /\ batch[sent] \in Nat
          BY <1>1, <5>4, ChTransfer
        <5>6. v \in Ch!Whole
          BY <5>2, <5>3 DEF Ch!Whole
        <5>7. Ch!W(v) > Ch!Row.w - cfg.lookback
          BY <3>1, <3>2, <5>6 DEF Ch!Reading
        <5> QED BY <5>2, <5>4, <5>5, <5>7
      <4>5. \A v \in Ch!Newest(Ch!Visible(Ch!Row.upper))' :
              Ch!Covered(v)' \/ (v > Ch!Row'.at /\ Ch!W(v)' > Ch!Row'.w - cfg'.lookback)
        BY <1>1, <1>2, <2>1, <3>1, <4>1, <4>4
      <4> QED BY <2>2, <4>3, <4>5 DEF Ch!Saved
    <3>3. CASE at = "persist" /\ Ch!Row' = [w |-> upper, at |-> 0, upper |-> 0]
      <4>1. Ch!Owed = {}
        BY <3>3 DEF Ch!Owed
      <4>2. Ch!Row'.w = upper /\ Ch!Row'.at = 0
        BY <3>3
      <4>3. \A v \in Ch!Newest(Ch!Visible(Ch!Row'.w)) : Ch!Covered(v)'
        BY <2>1, <3>1, <4>1, <4>2
      <4>4. Ch!CoveredTo(Ch!Row.w)'
        BY <1>2, <4>3 DEF Ch!CoveredTo
      <4> QED BY <2>2, <4>2, <4>4 DEF Ch!Saved
    <3> QED BY <1>1, <2>5, <3>2, <3>3, ChRowStep
  <2> QED BY <1>1, <2>3, <2>4, <2>5, ChRowStep
<1>5. CASE Ch!ExchangeTables
  <2>1. cfg.promote = "swap" /\ Ch!Row = Ch!NoRow /\ Ch!Row' = Ch!Row
    BY <1>1, <1>5 DEF Ch!ExchangeTables, Ch!Told, Ch!saved, Ch!Row
  <2>2. \A v \in Ch!Newest(Ch!Visible(0)) : Ch!Covered(v)'
    <3>1. CASE dest' = dest
      <4>1. \A v : Ch!Covered(v)' <=> Ch!Covered(v)
        BY <1>1, <3>1 DEF Ch!Covered
      <4> QED BY <1>1, <4>1 DEF Ch!CoveredTo
    <3>2. CASE dest' # dest
      BY <1>5, <3>2, ChExchangeCovers DEF Ch!Newest, Ch!NewestOf
    <3> QED BY <3>1, <3>2
  <2>3. Ch!CoveredTo(0)'
    BY <1>1, <2>2 DEF Ch!CoveredTo
  <2>4. Ch!CoveredTo(Ch!Row.w)'
    BY <1>2, <1>3, <2>1, <2>2 DEF Ch!CoveredTo
  <2> QED BY <1>3, <2>1, <2>3, <2>4 DEF Ch!Saved
<1> QED BY <1>4, <1>5

-----------------------------------------------------------------------------
(* The invariant.                                                          *)

\* It holds at the start.
LEMMA ChStarts ==
  ASSUME Ch!ClickHouseConstants, Ch!Init
  PROVE  Ch!CInv
<1>1. /\ cfg \in ChTransfers /\ run = 0 /\ at = "ok" /\ attempt = 1 /\ epoch = 0 /\ upper = 0
         /\ batch = <<>>
      /\ sent = 0 /\ staging = Ch!Missing /\ blocks = {} /\ saved = Ch!Absent /\ tokens = {}
         /\ chWrites = 0
      /\ ready = FALSE /\ failures = 0
      /\ dest = [v \in Ch!Versions |-> IF v \in cfg.old THEN 1 ELSE 0]
  BY DEF Ch!Init
<1>2. Ch!Row = Ch!NoRow /\ Ch!NoRow.w = 0 /\ Ch!NoRow.at = 0 /\ Ch!NoRow.upper = 0
  BY <1>1 DEF Ch!Row, Ch!NoRow
<1>3. dest \in [Ch!Versions -> Nat]
      /\ \A v \in Ch!Versions : dest[v] <= 1 /\ (v \in Ch!Held(dest) <=> v \in cfg.old)
  BY <1>1 DEF Ch!Held
<1>4. Ch!Typed
  <2>1. \A i \in DOMAIN saved : saved[i].at \in Nat /\ saved[i].upper \in Nat
    BY <1>1 DEF Ch!Absent
  <2>2. Len(batch) = 0 /\ batch \in Seq(Ch!Versions)
    BY <1>1, EmptySeq
  <2>3. ready \in BOOLEAN
    BY <1>1
  <2>4. run \in 0..ChRuns /\ attempt \in 1..ChInsertAttempts /\ sent \in 0..Len(batch)
        /\ failures \in 0..ChFaults
    BY <1>1, <2>2, ChNumbers
  <2>5. Ch!TypeOK
    BY <1>1, <1>3, <2>1, <2>3, <2>4 DEF Ch!TypeOK
  <2> QED BY <1>1, <2>2, <2>5 DEF Ch!Typed, Ch!Steps
<1>5. Ch!Stepped
  BY <1>1 DEF Ch!Stepped
<1>6. Ch!Told
  BY <1>1, <1>2 DEF Ch!Told, Ch!Running, Ch!StateTold
<1>7. Ch!Seen
  BY <1>1 DEF Ch!Seen
<1>8. Ch!Staged
  BY <1>1 DEF Ch!Staged
<1>9. Ch!Once
  BY <1>1, <1>3 DEF Ch!Once, Ch!StoredOnce
<1>10. Ch!Saved
  <2>1. \A v \in Ch!NewestOf(cfg.log, {u \in DOMAIN cfg.log \ cfg.gone : cfg.log[u].w <= 0}) :
           \E u \in cfg.old : cfg.log[u].k = cfg.log[v].k /\ cfg.log[u].w >= cfg.log[v].w
    BY <1>1 DEF Ch!ClickHouseConstants
  <2>2. Ch!Newest(Ch!Visible(0)) = Ch!NewestOf(cfg.log,
        {u \in DOMAIN cfg.log \ cfg.gone : cfg.log[u].w <= 0})
    BY DEF Ch!Newest, Ch!Visible, Ch!Versions, Ch!W
  <2>3. cfg.old \subseteq Ch!Held(dest)
    BY <1>1, <1>3, ChTransfer
  <2>4. Ch!CoveredTo(0)
    BY <2>1, <2>2, <2>3 DEF Ch!CoveredTo, Ch!Covered, Ch!K, Ch!W
  <2> QED BY <1>2, <2>4 DEF Ch!Saved
<1>11. Ch!Reading
  BY <1>1 DEF Ch!Reading, Ch!Running
<1> QED BY <1>4, <1>5, <1>6, <1>7, <1>8, <1>9, <1>10, <1>11 DEF Ch!CInv

\* It is of the variables.
LEMMA ChStutters ==
  ASSUME Ch!CInv, UNCHANGED Ch!vars
  PROVE  Ch!CInv'
<1>1. /\ cfg' = cfg /\ run' = run /\ at' = at /\ attempt' = attempt /\ epoch' = epoch
         /\ upper' = upper
      /\ batch' = batch /\ sent' = sent /\ dest' = dest /\ staging' = staging /\ blocks' = blocks
      /\ saved' = saved /\ tokens' = tokens /\ chWrites' = chWrites /\ ready' = ready
         /\ failures' = failures
  BY DEF Ch!vars, Ch!reading, Ch!tables, Ch!saved
<1>2. Ch!Versions' = Ch!Versions /\ Ch!Row' = Ch!Row /\ Ch!Whole' = Ch!Whole /\ Ch!Sent' = Ch!Sent
      /\ Ch!NewRow' = Ch!NewRow
  BY <1>1 DEF Ch!Versions, Ch!Row, Ch!Whole, Ch!Sent, Ch!NewRow
<1>3. Ch!Typed' /\ Ch!Stepped' /\ Ch!Seen' /\ Ch!Staged'
  BY <1>1, <1>2 DEF Ch!CInv, Ch!Typed, Ch!TypeOK, Ch!Stepped, Ch!Seen, Ch!RunOf, Ch!Staged
<1>4. Ch!Told'
  BY <1>1, <1>2 DEF Ch!CInv, Ch!Told, Ch!Running, Ch!StateTold
<1>5. Ch!Once'
  BY <1>1, <1>2 DEF Ch!CInv, Ch!Once, Ch!StoredOnce, Ch!Call, Ch!Block, Ch!Token, Ch!TokenOfInsert
<1>6. Ch!Saved' /\ Ch!Reading'
  BY <1>1, <1>2
  DEF Ch!CInv, Ch!Saved, Ch!Reading, Ch!Running, Ch!CoveredTo, Ch!Covered, Ch!Newest, Ch!Visible,
      Ch!Versions, Ch!K, Ch!W, Ch!Owed
<1> QED BY <1>3, <1>4, <1>5, <1>6 DEF Ch!CInv

\* A step keeps it.
LEMMA ChSteps0 ==
  ASSUME Ch!ClickHouseConstants, Ch!CInv, [Ch!Next]_Ch!vars
  PROVE  Ch!CInv'
<1>1. CASE Ch!Next
  BY <1>1, ChTypedStep, ChSteppedStep, ChToldStep, ChSeenStep, ChStagedStep, ChOnceStep,
     ChSavedStep, ChReadingStep
  DEF Ch!CInv
<1>2. CASE UNCHANGED Ch!vars
  BY <1>2, ChStutters
<1> QED BY <1>1, <1>2

\* What it promises.
LEMMA ChPromises ==
  ASSUME Ch!ClickHouseConstants, Ch!CInv
  PROVE  Ch!TypeOK /\ Ch!StoredOnce /\ Ch!CursorCovered /\ Ch!StateTold
<1>1. Ch!TypeOK /\ Ch!StateTold
  BY DEF Ch!CInv, Ch!Typed, Ch!Told
<1>2. Ch!StoredOnce
  BY DEF Ch!CInv, Ch!Once, Ch!StoredOnce
<1>3. Ch!CursorCovered
  BY DEF Ch!CInv, Ch!Saved, Ch!CursorCovered, Ch!CoveredTo, Ch!Covered, Ch!Visible
<1> QED BY <1>1, <1>2, <1>3

-----------------------------------------------------------------------------
(* One destination runs in each behaviour.                                 *)

\* Where it is ClickHouse it starts as its own module says, its steps are that
\* module's, and it stays the one.
LEMMA ChRuns0 ==
  /\ SinksInit => (which = "clickhouse" => Ch!Init)
  /\ [SinksNext]_sinksVars =>
       which' = which /\ (which = "clickhouse" => [Ch!Next]_Ch!vars)
<1>1. SinksInit => (which = "clickhouse" => Ch!Init)
  BY DEF SinksInit
<1>2. UNCHANGED sinksVars => which' = which /\ UNCHANGED Ch!vars
  BY DEF sinksVars, chOnly, bqChOnly, Ch!vars, Ch!reading, Ch!tables, Ch!saved
<1>3. SinksNext => which' = which /\ (which = "clickhouse" => Ch!Next)
  BY DEF SinksNext, CsvStep, BqStep, ChStep
<1> QED BY <1>1, <1>2, <1>3

\* The inductive invariant of the ClickHouse destination holds in every state.
THEOREM ClickHouseInvariant == SinksSpec => [](which = "clickhouse" => Ch!CInv)
<1>1. SinksInit => (which = "clickhouse" => Ch!CInv)
  BY ChRuns0, ClickHouseInstance, ChStarts
<1>2. (which = "clickhouse" => Ch!CInv) /\ [SinksNext]_sinksVars =>
      (which = "clickhouse" => Ch!CInv)'
  BY ChRuns0, ClickHouseInstance, ChSteps0
<1> QED BY <1>1, <1>2, PTL DEF SinksSpec

\* insert_batches with a deduplication token of its own: a staging table, and
\* the table a swap makes of it, has a row of a run once, though blocks of an
\* attempt were stored, or its answer was lost, and it was made again.
THEOREM RowsAreStoredOnce == SinksSpec => []ChStoredOnce
<1>1. (which = "clickhouse" => Ch!CInv) => ChStoredOnce
  BY ClickHouseInstance, ChPromises DEF ChStoredOnce
<1> QED BY <1>1, ClickHouseInvariant, PTL

\* The cursor in the state table, and the marker of a chunked read, are never
\* past a row the destination has not: not after lost answers, attempts that
\* were dropped as duplicates, promotions that failed between their
\* statements, deletes of stale rows, and state tables dropped by hand.
THEOREM ClickHouseCursorIsCovered == SinksSpec => []ChCursorCovered
<1>1. (which = "clickhouse" => Ch!CInv) => ChCursorCovered
  BY ClickHouseInstance, ChPromises DEF ChCursorCovered
<1> QED BY <1>1, ClickHouseInvariant, PTL

\* persist_watermark: the row a run that succeeds writes is the newest in the
\* state table, which never drops it as one it has seen.
THEOREM StateIsTold == SinksSpec => []ChStateTold
<1>1. (which = "clickhouse" => Ch!CInv) => ChStateTold
  BY ClickHouseInstance, ChPromises DEF ChStateTold
<1> QED BY <1>1, ClickHouseInvariant, PTL
=============================================================================
