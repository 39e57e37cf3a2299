--------------------------- MODULE BigQuery_proofs ---------------------------
(***************************************************************************)
(* The theorems about BigQuery, where it is the destination that runs: its *)
(* inductive invariant BInv, and what the runs check of it.  First sums,   *)
(* the log and the MERGE, then what a step changes and what it makes of    *)
(* each part of the invariant, and at the end the theorems.                *)
(***************************************************************************)
EXTENDS Sinks_proofs, CsvFolder_proofs, SumTheorems

\* Of the subsets of a finite set that its members stand for one is smallest.
LEMMA BqSmallestOf == ASSUME NEW S, IsFiniteSet(S), S # {}, NEW f \in [S -> SUBSET S]
                    PROVE  \E x \in S : \A y \in S : f[y] \subseteq f[x] => f[y] = f[x]
<1> DEFINE T == {f[x] : x \in S}
<1>1. T \subseteq SUBSET S /\ T # {}
  OBVIOUS
<1>2. PICK s \in T : \A u \in T : u \subseteq s => u = s
  <2> HIDE DEF T
  <2> QED BY <1>1, SmallestSubset
<1> QED BY <1>2

\* A finite set of integers that is not empty has a least and a greatest
\* member.
LEMMA BqIntMin == ASSUME NEW S, \A z \in S : z \in Int, IsFiniteSet(S), S # {}
                PROVE  Bq!Min(S) \in S /\ \A y \in S : Bq!Min(S) <= y
<1> DEFINE below == [x \in S |-> {y \in S : y < x}]
<1>1. below \in [S -> SUBSET S]
  OBVIOUS
<1>2. \A x, y \in S : y \in below[x] <=> y < x
  OBVIOUS
<1> HIDE DEF below
<1>3. PICK x \in S : \A y \in S : below[y] \subseteq below[x] => below[y] = below[x]
  BY <1>1, BqSmallestOf
<1>4. ASSUME NEW y \in S, y < x
      PROVE  FALSE
  <2>1. x \in Int /\ y \in Int
    OBVIOUS
  <2>2. \A z \in S : z \in below[y] => z \in below[x]
    BY <1>2, <1>4, <2>1
  <2>3. below[y] \subseteq below[x]
    BY <1>1, <2>2
  <2>4. y \in below[x] /\ y \notin below[y]
    BY <1>2, <1>4, <2>1
  <2> QED BY <1>3, <2>3, <2>4
<1>5. \A y \in S : x <= y
  BY <1>4
<1> QED BY <1>5 DEF Bq!Min

\* A finite set of integers has a largest.
LEMMA BqIntMax == ASSUME NEW S, \A z \in S : z \in Int, IsFiniteSet(S), S # {}
                PROVE  Bq!Max(S) \in S /\ \A y \in S : y <= Bq!Max(S)
<1> DEFINE above == [x \in S |-> {y \in S : x < y}]
<1>1. above \in [S -> SUBSET S]
  OBVIOUS
<1>2. \A x, y \in S : y \in above[x] <=> x < y
  OBVIOUS
<1> HIDE DEF above
<1>3. PICK x \in S : \A y \in S : above[y] \subseteq above[x] => above[y] = above[x]
  BY <1>1, BqSmallestOf
<1>4. ASSUME NEW y \in S, x < y
      PROVE  FALSE
  <2>1. x \in Int /\ y \in Int
    OBVIOUS
  <2>2. \A z \in S : z \in above[y] => z \in above[x]
    BY <1>2, <1>4, <2>1
  <2>3. above[y] \subseteq above[x]
    BY <1>1, <2>2
  <2>4. y \in above[x] /\ y \notin above[y]
    BY <1>2, <1>4, <2>1
  <2> QED BY <1>3, <2>3, <2>4
<1>5. \A y \in S : x >= y
  BY <1>4
<1>6. Bq!Max(S) \in S /\ \A y \in S : Bq!Max(S) >= y
  BY <1>5 DEF Bq!Max
<1>7. \A y \in S : Bq!Max(S) >= y => y <= Bq!Max(S)
  BY <1>6
<1> QED BY <1>6, <1>7

\* The lesser of two.
LEMMA BqMinOfTwo == ASSUME NEW a \in Int, NEW b \in Int
                  PROVE  Bq!Min({a, b}) = IF a <= b THEN a ELSE b
<1> DEFINE S == {a, b}
           m == Bq!Min(S)
<1>1. (\A z \in S : z \in Int) /\ S # {} /\ IsFiniteSet(S)
  <2>1. IsFiniteSet({a}) /\ IsFiniteSet({b})
    BY FS_Singleton
  <2>2. IsFiniteSet({a} \cup {b}) /\ S = {a} \cup {b}
    BY <2>1, FS_Union
  <2> QED BY <2>2
<1>2. m \in S /\ \A y \in S : m <= y
  <2> HIDE DEF S
  <2> QED BY <1>1, BqIntMin
<1>3. (m = a \/ m = b) /\ m <= a /\ m <= b
  <2> HIDE DEF m
  <2> QED BY <1>2
<1> HIDE DEF m
<1> QED BY <1>3 DEF m

\* The instance counts as this module does.
LEMMA BqCardinality == ASSUME NEW S PROVE Bq!Cardinality(S) = Cardinality(S)
  BY DEF Bq!Cardinality, Cardinality

\* What is in order of a finite set of numbers is all of it, each once.
LEMMA BqInOrderIs ==
  ASSUME NEW n \in Nat, NEW S \in SUBSET (1..n)
  PROVE  LET s == Bq!InOrder(S)
         IN /\ s \in Seq(S) /\ \A i, j \in 1..Len(s) : i < j => s[i] < s[j]
            /\ {s[i] : i \in 1..Len(s)} = S
<1> DEFINE m == Bq!Cardinality(S)
           below(v) == {u \in S : u <= v}
           r == [v \in S |-> Bq!Cardinality(below(v))]
<1>1. IsFiniteSet(S) /\ m \in Nat /\ \A T \in SUBSET S : IsFiniteSet(T) /\ Bq!Cardinality(T) \in Nat
  <2>1. IsFiniteSet(1..n)
    BY FS_Interval, BqCardinality
  <2>2. IsFiniteSet(S)
    BY <2>1, FS_Subset, BqCardinality
  <2>3. \A T \in SUBSET S : IsFiniteSet(T)
    BY <2>2, FS_Subset, BqCardinality
  <2> QED BY <2>2, <2>3, FS_CardinalityType, BqCardinality
<1>2. ASSUME NEW u \in S, NEW v \in S, u < v
      PROVE  r[u] < r[v]
  <2>1. below(u) \in SUBSET below(v) /\ v \notin below(u) /\ v \in below(v) /\ below(v) \in SUBSET S
        /\ below(u) \in SUBSET S
    <3>1. u \in Int /\ v \in Int /\ \A w \in S : w \in Int
      OBVIOUS
    <3>2. \A w \in S : w <= u => w <= v
      BY <1>2, <3>1
    <3>3. ~(v <= u) /\ v <= v
      BY <1>2, <3>1
    <3> QED BY <3>2, <3>3
  <2> HIDE DEF below
  <2>2. IsFiniteSet(below(v)) /\ Bq!Cardinality(below(u)) \in Nat
        /\ Bq!Cardinality(below(v)) \in Nat
    BY <1>1, <2>1
  <2>3. Bq!Cardinality(below(u)) <= Bq!Cardinality(below(v))
        /\ Bq!Cardinality(below(u)) # Bq!Cardinality(below(v))
    BY <2>1, <2>2, FS_Subset, BqCardinality
  <2> QED BY <2>2, <2>3
<1>3. ASSUME NEW v \in S
      PROVE  r[v] \in 1..m
  <2>1. below(v) \in SUBSET S /\ v \in below(v)
    BY <1>3
  <2> HIDE DEF below
  <2>2. Bq!Cardinality(below(v)) <= m /\ Bq!Cardinality(below(v)) \in Nat
    BY <1>1, <2>1, FS_Subset, BqCardinality
  <2>3. Bq!Cardinality(below(v)) # 0
    BY <1>1, <2>1, FS_EmptySet, BqCardinality
  <2> QED BY <2>2, <2>3
<1>a. r \in [S -> 1..m] /\ S \subseteq Int /\ m \in Nat
  BY <1>1, <1>3
<1> HIDE DEF r, m
<1>4. r \in Injection(S, 1..m)
  BY <1>2, <1>a DEF Injection, IsInjective
<1>5. \A i \in 1..m : \E v \in S : r[v] = i
  <2>1. IsFiniteSet(1..m) /\ Bq!Cardinality(1..m) = m
    BY <1>a, FS_Interval, BqCardinality
  <2>2. r \in Surjection(S, 1..m)
    BY <1>4, <2>1, FS_Injection, BqCardinality DEF m
  <2> QED BY <2>2 DEF Surjection
<1> DEFINE g == [i \in 1..m |-> CHOOSE v \in S : r[v] = i]
<1>6. g \in [1..m -> S] /\ \A i \in 1..m : r[g[i]] = i
  BY <1>5
<1>7. \A i, j \in 1..m : i < j => g[i] < g[j]
  <2>1. ASSUME NEW i \in 1..m, NEW j \in 1..m, i < j
        PROVE  g[i] < g[j]
    <3>1. g[i] \in S /\ g[j] \in S /\ r[g[i]] = i /\ r[g[j]] = j
      BY <1>6
    <3> HIDE DEF g
    <3>a. i \in Int /\ j \in Int
      BY <1>a
    <3>2. g[i] \in Int /\ g[j] \in Int /\ i \in Int /\ j \in Int
      BY <1>a, <3>1, <3>a
    <3>3. CASE g[j] < g[i]
      BY <1>2, <2>1, <3>1, <3>2, <3>3
    <3>4. CASE g[j] = g[i]
      BY <2>1, <3>1, <3>2, <3>4
    <3> QED BY <3>2, <3>3, <3>4
  <2> QED BY <2>1
<1> DEFINE Sorted(t) == \A i, j \in DOMAIN t : i < j => t[i] < t[j]
           s == Bq!InOrder(S)
<1>8. g \in [1..m -> S] /\ Sorted(g)
  BY <1>6, <1>7
<1> HIDE DEF g
<1>9. s \in [1..m -> S] /\ Sorted(s)
  <2>1. Bq!InOrder(S) = CHOOSE t \in [1..m -> S] : Sorted(t)
    BY DEF Bq!InOrder, m
  <2> HIDE DEF Sorted
  <2> QED BY <1>8, <2>1
<1> HIDE DEF s
<1>10. s \in Seq(S) /\ Len(s) = m
  BY <1>9, <1>a, SeqDef
<1>11. s \in Injection(1..m, S)
  <2>1. DOMAIN s = 1..m /\ \A i \in 1..m : s[i] \in Int
    BY <1>9, <1>a
  <2>2. \A i, j \in 1..m : s[i] = s[j] => i = j
    BY <1>9, <1>a, <2>1
  <2> QED BY <1>9, <2>1, <2>2 DEF Injection, IsInjective
<1>12. s \in Surjection(1..m, S)
  <2>1. Bq!Cardinality(1..m) = m
    BY <1>a, FS_Interval, BqCardinality
  <2> QED BY <1>1, <1>11, <2>1, FS_Injection, BqCardinality DEF m
<1>13. {s[i] : i \in 1..m} = S
  BY <1>12 DEF Surjection
<1> QED BY <1>9, <1>10, <1>13 DEF s

-----------------------------------------------------------------------------
(* Sums.                                                                   *)

\* The sum over a set, as one that is defined on its subsets.
LEMMA BqSumOnIs ==
  ASSUME NEW S, IsFiniteSet(S), NEW f
  PROVE  \E g : IsSum(g, f, S) /\ Bq!SumFunctionOnSet(f, S) = g[S]
<1>1. PICK g : IsSum(g, f, S)
  BY SumExists
<1> QED
  BY <1>1 DEF Bq!SumFunctionOnSet, Bq!FoldFunctionOnSet, Bq!MapThenFoldSet, IsSum, Pick

\* Zeros add up to zero.
LEMMA BqZerosSum ==
  ASSUME NEW S, IsFiniteSet(S), NEW f, NEW g, IsSum(g, f, S),
         NEW Z \in SUBSET S, \A x \in Z : f[x] = 0
  PROVE  g[Z] = 0
<1> DEFINE T == {s \in SUBSET Z : g[s] # 0}
<1> SUFFICES ASSUME T # {} PROVE FALSE
  OBVIOUS
<1>1. PICK s \in T : \A u \in T : u \subseteq s => u = s
  <2>1. T \subseteq SUBSET S
    OBVIOUS
  <2> HIDE DEF T
  <2> QED BY <2>1, SmallestSubset
<1>2. s \in SUBSET S /\ g[s] = IF s = {} THEN 0 ELSE f[Pick(s)] + g[s \ {Pick(s)}]
  BY DEF IsSum
<1>3. s # {}
  BY <1>2
<1>4. Pick(s) \in s
  BY <1>3, PickThere
<1>5. g[s \ {Pick(s)}] = 0
  <2>1. s \ {Pick(s)} \notin T
    BY <1>1, <1>4
  <2> QED BY <2>1
<1>6. f[Pick(s)] = 0
  BY <1>4
<1>7. g[s] = 0
  BY <1>2, <1>3, <1>5, <1>6
<1> QED BY <1>7

\* A sum of zeros, and a sum of one number and zeros.
LEMMA BqSumOfZeros ==
  ASSUME NEW S, IsFiniteSet(S), NEW f, \A x \in S : f[x] = 0
  PROVE  Bq!SumFunctionOnSet(f, S) = 0
<1>1. PICK g : IsSum(g, f, S) /\ Bq!SumFunctionOnSet(f, S) = g[S]
  BY BqSumOnIs
<1> QED BY <1>1, BqZerosSum

\* A sum of which one value is not 0 is that value.
LEMMA BqSumOfOne ==
  ASSUME NEW S, IsFiniteSet(S), NEW f, NEW x \in S, f[x] \in Int, \A y \in S \ {x} : f[y] = 0
  PROVE  Bq!SumFunctionOnSet(f, S) = f[x]
<1> DEFINE e == [y \in S |-> f[y]]
           Z == S \ {x}
<1>1. PICK g : IsSum(g, f, S) /\ Bq!SumFunctionOnSet(f, S) = g[S]
  BY BqSumOnIs
<1>2. PICK h : IsSum(h, e, S)
  BY SumExists
<1>3. e \in [S -> Int] /\ e[x] = f[x] /\ \A y \in S : e[y] = f[y]
  OBVIOUS
<1>4. Z \in SUBSET S /\ \A y \in Z : e[y] = 0
  OBVIOUS
<1> HIDE DEF e
<1>5. g[S] = h[S]
  <2>1. \A s \in SUBSET S : h[s] = g[s]
    BY <1>1, <1>2, <1>3, SumsAgree
  <2> QED BY <2>1
<1>6. h[S] = e[x] + h[Z]
  BY <1>2, <1>3, AnyFirst
<1>7. h[Z] = 0
  <2> HIDE DEF Z
  <2> QED BY <1>2, <1>4, BqZerosSum
<1> QED BY <1>1, <1>3, <1>5, <1>6, <1>7

-----------------------------------------------------------------------------
(* The log, and what is read of it.                                        *)

\* The constants.
LEMMA BqNumbers ==
  ASSUME Bq!BigQueryConstants
  PROVE  /\ BqRuns \in Nat /\ BqFaults \in Nat
         /\ BqRowsPerCall \in Nat /\ BqRowsPerCall >= 1
         /\ RowsPerRequest \in Nat /\ RowsPerRequest >= 1
         /\ BqInsertAttempts \in Nat /\ BqInsertAttempts >= 1
         /\ HttpAttempts \in Nat /\ HttpAttempts >= 1
         /\ JobAttempts \in Nat /\ JobAttempts >= 1
  BY DEF Bq!BigQueryConstants

\* What a transfer is.
LEMMA BqTransfer ==
  ASSUME Bq!BigQueryConstants, cfg \in BqTransfers
  PROVE  /\ Len(cfg.log) \in Nat /\ Bq!Versions = 1..Len(cfg.log) /\ IsFiniteSet(Bq!Versions)
         /\ \A v \in Bq!Versions : v \in Nat /\ Bq!W(v) \in Nat /\ Bq!P(v) \in Int
            /\ Bq!K(v) \in Int
         /\ cfg.old \subseteq Bq!Versions /\ cfg.gone \subseteq Bq!Versions
         /\ \A u, v \in cfg.old : Bq!K(u) = Bq!K(v) => u = v
         /\ \A u, v \in Bq!Versions : u \in cfg.gone /\ Bq!K(u) = Bq!K(v) => v \in cfg.gone
         /\ cfg.promote \in {"merge", "swap"} /\ cfg.lookback \in Nat
         /\ cfg.prune => \A u, v \in Bq!Versions : Bq!K(u) = Bq!K(v) => Bq!P(u) = Bq!P(v)
         /\ cfg.stale => cfg.prune /\ \A v \in Bq!Versions : Bq!P(v) = Bq!W(v)
<1>1. /\ cfg.log \in Seq(Bq!Range(cfg.log))
      /\ \A v \in DOMAIN cfg.log : cfg.log[v].w \in Nat /\ cfg.log[v].p \in Int
         /\ cfg.log[v].k \in Int
      /\ cfg.old \subseteq DOMAIN cfg.log /\ cfg.gone \subseteq DOMAIN cfg.log
      /\ \A u, v \in cfg.old : cfg.log[u].k = cfg.log[v].k => u = v
      /\ \A u, v \in DOMAIN cfg.log : u \in cfg.gone /\ cfg.log[u].k = cfg.log[v].k =>
         v \in cfg.gone
      /\ cfg.promote \in {"merge", "swap"} /\ cfg.lookback \in Nat
      /\ cfg.prune =>
           \A u, v \in DOMAIN cfg.log : cfg.log[u].k = cfg.log[v].k => cfg.log[u].p = cfg.log[v].p
      /\ cfg.stale => cfg.prune /\ \A v \in DOMAIN cfg.log : cfg.log[v].p = cfg.log[v].w
  BY DEF Bq!BigQueryConstants
<1>2. Len(cfg.log) \in Nat /\ DOMAIN cfg.log = 1..Len(cfg.log)
  BY <1>1, LenProperties
<1>3. IsFiniteSet(1..Len(cfg.log))
  BY <1>2, FS_Interval
<1>4. \A v \in 1..Len(cfg.log) : v \in Nat
  BY <1>2
<1> QED BY <1>1, <1>2, <1>3, <1>4 DEF Bq!Versions, Bq!W, Bq!P, Bq!K

\* The types of the counters.
LEMMA BqCounters ==
  ASSUME Bq!Typed
  PROVE  /\ cfg \in BqTransfers /\ run \in 0..BqRuns /\ again \in 0..JobAttempts - 1
         /\ attempt \in 1..HttpAttempts \cup 1..BqInsertAttempts
         /\ sent \in 0..Len(batch) /\ stream \in Nat /\ failures \in 0..BqFaults
         /\ dest \in [Bq!Versions -> Nat]
         /\ job \in [Bq!JobIds -> {"absent", "pending", "done", "failed", "limited"}]
         /\ at \in Bq!Steps /\ stmt \in Bq!Statements
  BY DEF Bq!Typed, Bq!TypeOK

\* A run's job is one there may be.
LEMMA BqJobThere ==
  ASSUME Bq!Typed, run > 0
  PROVE  Bq!Job \in Bq!JobIds /\ run \in Bq!RunIds
<1>1. run \in Bq!RunIds
  BY BqCounters DEF Bq!RunIds
<1> QED BY <1>1, BqCounters DEF Bq!Job, Bq!JobIds

\* The batch: its rows are different versions.
LEMMA BqBatchIs ==
  ASSUME Bq!BigQueryConstants, Bq!Typed
  PROVE  /\ Len(batch) \in Nat /\ sent \in Nat /\ sent <= Len(batch)
         /\ \A i \in 1..Len(batch) : batch[i] \in Bq!Versions
         /\ \A i, j \in 1..Len(batch) : batch[i] = batch[j] => i = j
<1>1. cfg \in BqTransfers /\ batch \in Seq(Bq!Versions) /\ sent \in 0..Len(batch)
  BY DEF Bq!Typed, Bq!TypeOK
<1>2. Len(batch) \in Nat /\ \A i \in 1..Len(batch) : batch[i] \in Bq!Versions
  BY <1>1, LenProperties, ElementOfSeq
<1>3. \A v \in Bq!Versions : v \in Nat
  BY <1>1, BqTransfer
<1>4. \A i, j \in 1..Len(batch) : batch[i] = batch[j] => i = j
  BY <1>2, <1>3 DEF Bq!Typed
<1> QED BY <1>1, <1>2, <1>4

\* How many are in a part of the batch.
LEMMA BqPartIs ==
  ASSUME Bq!BigQueryConstants, Bq!Typed, NEW m \in Nat, m <= Len(batch), sent <= m
  PROVE  Bq!Cardinality({batch[i] : i \in (sent + 1)..m}) = m - sent
<1> DEFINE call == {batch[i] : i \in (sent + 1)..m}
           f == [i \in (sent + 1)..m |-> batch[i]]
<1>1. /\ Len(batch) \in Nat /\ sent \in Nat
      /\ \A i \in 1..Len(batch) : batch[i] \in Bq!Versions
      /\ \A i, j \in 1..Len(batch) : batch[i] = batch[j] => i = j
  BY BqBatchIs
<1>2. f \in Bijection((sent + 1)..m, call)
  <2>1. (sent + 1)..m \subseteq 1..Len(batch)
    BY <1>1
  <2>2. f \in Injection((sent + 1)..m, call)
    <3>1. f \in [(sent + 1)..m -> call]
      OBVIOUS
    <3>2. \A i, j \in (sent + 1)..m : f[i] = f[j] => i = j
      BY <1>1, <2>1
    <3> HIDE DEF f
    <3> QED BY <3>1, <3>2 DEF Injection, IsInjective
  <2>3. f \in Surjection((sent + 1)..m, call)
    <3>1. f \in [(sent + 1)..m -> call] /\ \A v \in call : \E i \in (sent + 1)..m : f[i] = v
      OBVIOUS
    <3> HIDE DEF f
    <3> QED BY <3>1 DEF Surjection
  <2> QED BY <2>2, <2>3 DEF Bijection
<1>3. IsFiniteSet((sent + 1)..m) /\ Bq!Cardinality((sent + 1)..m) = m - sent
  <2>1. sent + 1 \in Int /\ m \in Int
    BY <1>1
  <2> DEFINE a == sent + 1
  <2> HIDE DEF a
  <2>2. IsFiniteSet(a..m) /\ Bq!Cardinality(a..m) = (IF a > m THEN 0 ELSE m - a + 1)
    BY <2>1, FS_Interval, BqCardinality DEF a
  <2>3. (IF a > m THEN 0 ELSE m - a + 1) = m - sent
    BY <1>1 DEF a
  <2> QED BY <2>2, <2>3 DEF a
<1>4. ExistsBijection((sent + 1)..m, call)
  BY <1>2 DEF ExistsBijection
<1> HIDE DEF call
<1>5. Bq!Cardinality(call) = m - sent
  BY <1>3, <1>4, FS_Bijection, BqCardinality
<1> QED BY <1>5 DEF call

\* A number is in the call its quotient says, at the place its remainder says.
LEMMA BqQuotient ==
  ASSUME NEW r \in Nat, r >= 1, NEW q \in Int, NEW o \in Int, 0 <= o, o < r,
         NEW p \in Int, NEW e \in Int, 0 <= e, e < r, q * r + o = p * r + e
  PROVE  q = p /\ o = e
<1>1. ASSUME NEW a \in Int, NEW b \in Int, a > b
      PROVE  a * r >= b * r + r
  <2> DEFINE d == a - b - 1
  <2>1. d \in Nat /\ a = b + 1 + d
    BY <1>1
  <2>2. d * r \in Nat
    <3> HIDE DEF d
    <3> QED BY <2>1
  <2>3. a * r = b * r + r + d * r
    <3> HIDE DEF d
    <3> QED BY <2>1
  <2>4. b * r \in Int
    OBVIOUS
  <2> HIDE DEF d
  <2> QED BY <2>2, <2>3, <2>4
<1>2. q * r \in Int /\ p * r \in Int
  OBVIOUS
<1>3. ~(q > p)
  <2>1. SUFFICES ASSUME q > p PROVE FALSE
    OBVIOUS
  <2>2. q * r >= p * r + r
    BY <1>1, <2>1
  <2> QED BY <1>2, <2>2
<1>4. ~(p > q)
  <2>1. SUFFICES ASSUME p > q PROVE FALSE
    OBVIOUS
  <2>2. p * r >= q * r + r
    BY <1>1, <2>1
  <2> QED BY <1>2, <2>2
<1>5. q = p
  BY <1>3, <1>4
<1> QED BY <1>2, <1>5

\* What \div and % are.
LEMMA BqDivided ==
  ASSUME NEW n \in Nat, NEW r \in Nat, r >= 1
  PROVE  /\ n \div r \in Nat /\ n % r \in Nat /\ n % r < r
         /\ n = (n \div r) * r + (n % r)
<1>1. n \div r \in Int /\ n % r \in 0..(r - 1)
  OBVIOUS
<1>2. n = (n \div r) * r + (n % r)
  OBVIOUS
<1>3. n \div r \in Nat
  OBVIOUS
<1> QED BY <1>1, <1>2, <1>3

\* The places of a request: where one ends, and where a row is in it.
LEMMA BqPlaces ==
  ASSUME NEW n \in Nat, NEW r \in Nat, r >= 1
  PROVE  /\ n % r \in Nat /\ n % r < r
         /\ (n \div r + 1) * r \in Nat /\ (n \div r + 1) * r = n - (n % r) + r
         /\ ((n \div r + 1) * r) % r = 0
         /\ \A c \in Nat : (n % r) + c < r => (n + c) % r = (n % r) + c
<1> DEFINE q == n \div r
           o == n % r
<1>1. q \in Nat /\ o \in Nat /\ o < r /\ n = q * r + o
  BY BqDivided
<1> HIDE DEF q, o
<1>2. q * r \in Nat /\ (q + 1) * r = q * r + r
  BY <1>1
<1>3. (q + 1) * r \in Nat /\ (q + 1) * r = n - o + r
  BY <1>1, <1>2
<1>4. ASSUME NEW m \in Nat, NEW p \in Nat, NEW e \in Nat, e < r, m = p * r + e
      PROVE  m % r = e
  <2>1. m \div r \in Nat /\ m % r \in Nat /\ m % r < r /\ m = (m \div r) * r + (m % r)
    BY BqDivided
  <2> DEFINE a == m \div r
             b == m % r
  <2> HIDE DEF a, b
  <2>2. a \in Int /\ b \in Int /\ 0 <= b /\ b < r /\ a * r + b = p * r + e
    BY <1>4, <2>1 DEF a, b
  <2>3. p \in Int /\ e \in Int /\ 0 <= e /\ e < r
    BY <1>4
  <2>4. b = e
    BY <2>2, <2>3, BqQuotient
  <2> QED BY <2>4 DEF b
<1>5. ((q + 1) * r) % r = 0
  <2>1. (q + 1) * r = (q + 1) * r + 0 /\ q + 1 \in Nat /\ 0 \in Nat /\ 0 < r
    BY <1>1, <1>3
  <2> QED BY <1>3, <1>4, <2>1
<1>6. ASSUME NEW c \in Nat, o + c < r
      PROVE  (n + c) % r = o + c
  <2>1. n + c \in Nat /\ o + c \in Nat /\ n + c = q * r + (o + c)
    BY <1>1, <1>2
  <2> QED BY <1>1, <1>4, <1>6, <2>1
<1> QED BY <1>1, <1>3, <1>5, <1>6 DEF q, o

\* The rows of a request, how many there are, and where they are in the stream.
LEMMA BqRequestIs ==
  ASSUME Bq!BigQueryConstants, Bq!Typed, sent < Len(batch)
  PROVE  \E m \in Nat :
           /\ sent < m /\ m <= Bq!CallEnd /\ Bq!CallEnd <= Len(batch) /\ Bq!CallEnd \in Nat
           /\ Bq!CallEnd = Len(batch) \/ Bq!CallEnd % BqRowsPerCall = 0
           /\ Bq!Request = {batch[i] : i \in (sent + 1)..m}
           /\ Bq!Cardinality(Bq!Request) = m - sent /\ sent + Bq!Cardinality(Bq!Request) = m
           /\ Bq!Offset \in Nat
           /\ ((m - 1) % BqRowsPerCall) + 1 = Bq!Offset + (m - sent)
           /\ m < Bq!CallEnd => m % BqRowsPerCall = Bq!Offset + (m - sent)
<1> DEFINE top == ((sent \div BqRowsPerCall) + 1) * BqRowsPerCall
           o == sent % BqRowsPerCall
           m == Bq!Min({sent + RowsPerRequest, Bq!CallEnd})
<1>1. /\ Len(batch) \in Nat /\ sent \in Nat
      /\ BqRowsPerCall \in Nat /\ BqRowsPerCall >= 1 /\ RowsPerRequest \in Nat
         /\ RowsPerRequest >= 1
  BY BqBatchIs, BqNumbers
<1>2. /\ o \in Nat /\ o < BqRowsPerCall /\ top \in Nat /\ top = sent - o + BqRowsPerCall
      /\ top % BqRowsPerCall = 0
      /\ \A c \in Nat : o + c < BqRowsPerCall => (sent + c) % BqRowsPerCall = o + c
  BY <1>1, BqPlaces
<1>3. Bq!CallEnd = Bq!Min({top, Len(batch)}) /\ Bq!Offset = o
  BY DEF Bq!CallEnd, Bq!Offset
<1> HIDE DEF top, o
<1>4. Bq!CallEnd = IF top <= Len(batch) THEN top ELSE Len(batch)
  BY <1>1, <1>2, <1>3, BqMinOfTwo
<1>5. /\ Bq!CallEnd \in Nat /\ Bq!CallEnd <= Len(batch) /\ Bq!CallEnd <= top /\ sent < Bq!CallEnd
      /\ Bq!CallEnd = Len(batch) \/ Bq!CallEnd % BqRowsPerCall = 0
  <2>1. CASE top <= Len(batch)
    <3>1. Bq!CallEnd = top
      BY <1>4, <2>1
    <3>2. Bq!CallEnd \in Nat /\ Bq!CallEnd <= Len(batch) /\ Bq!CallEnd <= top /\ sent < Bq!CallEnd
      BY <1>1, <1>2, <2>1, <3>1
    <3> QED BY <1>2, <3>1, <3>2
  <2>2. CASE ~(top <= Len(batch))
    <3>1. Bq!CallEnd = Len(batch)
      BY <1>4, <2>2
    <3> QED BY <1>1, <1>2, <2>2, <3>1
  <2> QED BY <2>1, <2>2
<1>6. m = IF sent + RowsPerRequest <= Bq!CallEnd THEN sent + RowsPerRequest ELSE Bq!CallEnd
  BY <1>1, <1>5, BqMinOfTwo
<1>7. Bq!Request = {batch[i] : i \in (sent + 1)..m}
  BY DEF Bq!Request
<1> HIDE DEF m
<1>8. m \in Nat /\ sent < m /\ m <= Bq!CallEnd
  BY <1>1, <1>5, <1>6
<1>9. Bq!Cardinality(Bq!Request) = m - sent
  <2>1. m \in Nat /\ m <= Len(batch) /\ sent <= m
    BY <1>1, <1>5, <1>8
  <2>2. Bq!Cardinality({batch[i] : i \in (sent + 1)..m}) = m - sent
    BY <2>1, BqPartIs
  <2> QED BY <1>7, <2>2
<1>10. sent + Bq!Cardinality(Bq!Request) = m
  BY <1>1, <1>8, <1>9
<1>11. ((m - 1) % BqRowsPerCall) + 1 = o + (m - sent)
  <2> DEFINE c == m - sent - 1
  <2>1. c \in Nat /\ o + c < BqRowsPerCall /\ sent + c = m - 1 /\ o + c + 1 = o + (m - sent)
    BY <1>1, <1>2, <1>5, <1>8
  <2> HIDE DEF c
  <2>2. (sent + c) % BqRowsPerCall = o + c
    BY <1>2, <2>1
  <2> QED BY <2>1, <2>2
<1>12. m < Bq!CallEnd => m % BqRowsPerCall = o + (m - sent)
  <2> SUFFICES ASSUME m < Bq!CallEnd PROVE m % BqRowsPerCall = o + (m - sent)
    OBVIOUS
  <2> DEFINE c == m - sent
  <2>1. c \in Nat /\ o + c < BqRowsPerCall /\ sent + c = m
    BY <1>1, <1>2, <1>5, <1>8
  <2> HIDE DEF c
  <2>2. (sent + c) % BqRowsPerCall = o + c
    BY <1>2, <2>1
  <2> QED BY <2>1, <2>2 DEF c
<1> HIDE DEF Bq!CallEnd, Bq!Offset, Bq!Request
<1>13. /\ m \in Nat /\ sent < m /\ m <= Bq!CallEnd /\ Bq!CallEnd <= Len(batch) /\ Bq!CallEnd \in Nat
       /\ Bq!CallEnd = Len(batch) \/ Bq!CallEnd % BqRowsPerCall = 0
       /\ Bq!Request = {batch[i] : i \in (sent + 1)..m}
       /\ Bq!Cardinality(Bq!Request) = m - sent /\ sent + Bq!Cardinality(Bq!Request) = m
       /\ Bq!Offset \in Nat
       /\ ((m - 1) % BqRowsPerCall) + 1 = Bq!Offset + (m - sent)
       /\ m < Bq!CallEnd => m % BqRowsPerCall = Bq!Offset + (m - sent)
  BY <1>2, <1>3, <1>5, <1>7, <1>8, <1>9, <1>10, <1>11, <1>12
<1> QED BY <1>13

\* A request is of rows that were not sent.
LEMMA BqRequestNew ==
  ASSUME Bq!BigQueryConstants, Bq!Typed, sent < Len(batch)
  PROVE  /\ Bq!Request \subseteq Bq!Versions /\ Bq!Sent \subseteq Bq!Versions
            /\ Bq!Whole \subseteq Bq!Versions
         /\ Bq!Request # {} /\ Bq!Request \cap Bq!Sent = {}
         /\ ~(Bq!Request \subseteq Bq!Sent)
         /\ Bq!Sent \cup Bq!Request = {batch[i] : i \in 1..(sent + Bq!Cardinality(Bq!Request))}
<1>1. PICK m \in Nat :
           /\ sent < m /\ m <= Len(batch)
           /\ Bq!Request = {batch[i] : i \in (sent + 1)..m}
           /\ sent + Bq!Cardinality(Bq!Request) = m
  <2>1. Len(batch) \in Nat
    BY BqBatchIs
  <2> QED BY <2>1, BqRequestIs
<1>2. /\ Len(batch) \in Nat /\ sent \in Nat /\ sent <= Len(batch)
      /\ \A i \in 1..Len(batch) : batch[i] \in Bq!Versions
      /\ \A i, j \in 1..Len(batch) : batch[i] = batch[j] => i = j
  BY BqBatchIs
<1>3. Bq!Request \subseteq Bq!Versions /\ Bq!Sent \subseteq Bq!Versions
      /\ Bq!Whole \subseteq Bq!Versions
  <2>1. \A i \in (sent + 1)..m : i \in 1..Len(batch)
    BY <1>1, <1>2
  <2>2. \A i \in 1..sent : i \in 1..Len(batch)
    BY <1>2
  <2> QED BY <1>1, <1>2, <2>1, <2>2 DEF Bq!Sent, Bq!Whole
<1>4. batch[sent + 1] \in Bq!Request
  BY <1>1, <1>2
<1>5. Bq!Request \cap Bq!Sent = {}
  <2>1. SUFFICES ASSUME NEW i \in (sent + 1)..m, NEW j \in 1..sent, batch[i] = batch[j]
                 PROVE  FALSE
    BY <1>1 DEF Bq!Sent
  <2>2. i \in 1..Len(batch) /\ j \in 1..Len(batch) /\ i # j
    BY <1>1, <1>2
  <2> QED BY <1>2, <2>1, <2>2
<1>6. Bq!Sent \cup Bq!Request = {batch[i] : i \in 1..m}
  <2>1. \A i : i \in 1..m <=> i \in 1..sent \/ i \in (sent + 1)..m
    BY <1>1, <1>2
  <2> QED BY <1>1, <2>1 DEF Bq!Sent
<1>7. ~(Bq!Request \subseteq Bq!Sent)
  BY <1>4, <1>5
<1> QED BY <1>1, <1>3, <1>4, <1>5, <1>6, <1>7

\* A version of a set has a newest one of its key there.
LEMMA BqNewestThere ==
  ASSUME Bq!BigQueryConstants, cfg \in BqTransfers, NEW S \in SUBSET Bq!Versions, NEW v \in S
  PROVE  \E u \in Bq!Newest(S) : Bq!K(u) = Bq!K(v) /\ Bq!W(u) >= Bq!W(v)
<1> DEFINE own == {u \in S : Bq!K(u) = Bq!K(v)}
           T == {Bq!W(u) : u \in own}
           f == [u \in own |-> Bq!W(u)]
<1>1. \A u \in S : Bq!W(u) \in Nat
  BY BqTransfer
<1>2. \A w \in T : w \in Int
  BY <1>1
<1>3. IsFiniteSet(T) /\ T # {}
  <2>1. IsFiniteSet(own)
    BY BqTransfer, FS_Subset
  <2>2. f \in Surjection(own, T)
    <3>1. f \in [own -> T] /\ \A w \in T : \E u \in own : f[u] = w
      OBVIOUS
    <3> HIDE DEF f, T, own
    <3> QED BY <3>1 DEF Surjection
  <2>3. IsFiniteSet(T)
    <3> HIDE DEF f, T, own
    <3> QED BY <2>1, <2>2, FS_Surjection
  <2>4. Bq!W(v) \in T
    OBVIOUS
  <2> QED BY <2>3, <2>4
<1>4. Bq!Max(T) \in T /\ \A w \in T : w <= Bq!Max(T)
  <2> HIDE DEF T
  <2> QED BY <1>2, <1>3, BqIntMax
<1>5. PICK u \in own : Bq!W(u) = Bq!Max(T)
  BY <1>4
<1>6. \A t \in own : Bq!W(t) <= Bq!W(u)
  BY <1>4, <1>5
<1>7. Bq!W(v) <= Bq!W(u) /\ Bq!W(u) >= Bq!W(v)
  BY <1>1, <1>5, <1>6
<1>8. \A t \in S : Bq!K(t) = Bq!K(u) => Bq!W(t) <= Bq!W(u)
  BY <1>5, <1>6
<1>9. u \in Bq!Newest(S)
  BY <1>5, <1>8 DEF Bq!Newest, Bq!NewestOf, Bq!K, Bq!W
<1> QED BY <1>5, <1>7, <1>9

\* A version that is newest of many is newest of fewer.
LEMMA BqNewestOfFewer ==
  ASSUME NEW S, NEW T \in SUBSET S, NEW v \in T, v \in Bq!Newest(S)
  PROVE  v \in Bq!Newest(T)
  BY DEF Bq!Newest, Bq!NewestOf

\* What is newest of a set is in it, and no other of its key there is newer.
LEMMA BqNewestIs ==
  ASSUME NEW S, NEW v
  PROVE  v \in Bq!Newest(S) <=> v \in S /\ \A u \in S : Bq!K(u) = Bq!K(v) => Bq!W(u) <= Bq!W(v)
  BY DEF Bq!Newest, Bq!NewestOf, Bq!K, Bq!W

\* What is visible, and what is read of it.
LEMMA BqReadIs ==
  ASSUME Bq!BigQueryConstants, Bq!Typed, NEW r \in Nat
  PROVE  /\ Bq!Read(r) \subseteq Bq!Visible(r) /\ Bq!Visible(r) \subseteq Bq!Versions
         /\ \A v \in Bq!Visible(r) : Bq!W(v) \in Nat /\ Bq!W(v) <= r /\ v \notin cfg.gone
<1>1. Bq!Read(r) \subseteq Bq!Visible(r)
  BY BqNewestIs DEF Bq!Read
<1>2. Bq!Visible(r) \subseteq Bq!Versions
      /\ \A v \in Bq!Visible(r) : v \in Bq!Versions /\ Bq!W(v) <= r /\ v \notin cfg.gone
  BY DEF Bq!Visible
<1> QED BY <1>1, <1>2, BqTransfer, BqCounters

\* The cursor is the newest row of the state table.
LEMMA BqCursorIs ==
  ASSUME Bq!Typed
  PROVE  /\ Bq!Cursor \in Nat /\ Bq!Cursor <= run
         /\ Bq!Cursor = 0 \/ \E i \in DOMAIN saved : Bq!Cursor = saved[i]
<1>1. run \in Nat /\ saved \in Seq(Nat) /\ \A i \in DOMAIN saved : saved[i] \in 0..run
  BY DEF Bq!Typed, Bq!TypeOK
<1>2. CASE saved = <<>>
  BY <1>1, <1>2 DEF Bq!Cursor
<1>3. CASE saved # <<>>
  <2>1. Len(saved) \in DOMAIN saved /\ saved[Len(saved)] \in 0..run
    BY <1>1, <1>3, EmptySeq, LenProperties
  <2>2. Bq!Cursor = saved[Len(saved)]
    BY <1>3 DEF Bq!Cursor
  <2> QED BY <1>1, <2>1, <2>2
<1> QED BY <1>2, <1>3

-----------------------------------------------------------------------------
(* The MERGE.                                                              *)

\* Tables: what one holds after rows are added.
LEMMA BqAddingIs ==
  ASSUME NEW t, NEW V, t \in [V -> Nat], NEW rows
  PROVE  /\ Bq!Adding(t, rows) \in [V -> Nat]
         /\ \A v \in V : Bq!Adding(t, rows)[v] = IF v \in rows THEN t[v] + 1 ELSE t[v]
         /\ \A v \in V : v \in Bq!Held(t) <=> t[v] > 0
         /\ rows \subseteq V => Bq!Held(Bq!Adding(t, rows)) = Bq!Held(t) \cup rows
<1>1. /\ DOMAIN t = V /\ Bq!Adding(t, rows) \in [V -> Nat]
      /\ \A v \in V : Bq!Adding(t, rows)[v] = IF v \in rows THEN t[v] + 1 ELSE t[v]
  BY DEF Bq!Adding
<1>2. \A v \in V : v \in Bq!Held(t) <=> t[v] > 0
  BY <1>1 DEF Bq!Held
<1>3. DOMAIN Bq!Adding(t, rows) = V /\ \A v \in V : t[v] \in Nat
  BY <1>1
<1>4. \A v \in V : Bq!Adding(t, rows)[v] > 0 <=> t[v] > 0 \/ v \in rows
  BY <1>1, <1>3
<1>5. Bq!Held(t) \subseteq V /\ Bq!Held(Bq!Adding(t, rows)) \subseteq V
      /\ \A v \in V : v \in Bq!Held(Bq!Adding(t, rows)) <=> Bq!Adding(t, rows)[v] > 0
  BY <1>1, <1>3 DEF Bq!Held
<1>6. rows \subseteq V => Bq!Held(Bq!Adding(t, rows)) = Bq!Held(t) \cup rows
  BY <1>2, <1>4, <1>5
<1> QED BY <1>1, <1>2, <1>6

\* How many rows of a key a table has that has at most one.
LEMMA BqCountIs ==
  ASSUME Bq!BigQueryConstants, cfg \in BqTransfers, NEW t \in [Bq!Versions -> Nat], NEW k
  PROVE  /\ (\A u \in Bq!Versions : Bq!K(u) = k => t[u] = 0) => Bq!CountOf(t, k) = 0
         /\ \A v \in Bq!Versions :
              Bq!K(v) = k /\ (\A u \in Bq!Versions : Bq!K(u) = k /\ u # v => t[u] = 0) =>
              Bq!CountOf(t, k) = t[v]
<1> DEFINE S == {v \in Bq!Versions : Bq!K(v) = k}
<1>1. IsFiniteSet(S) /\ \A v : v \in S <=> v \in Bq!Versions /\ Bq!K(v) = k
  BY BqTransfer, FS_Subset
<1>2. Bq!CountOf(t, k) = Bq!SumFunctionOnSet(t, S)
  BY DEF Bq!CountOf
<1> HIDE DEF S
<1>3. ASSUME \A u \in Bq!Versions : Bq!K(u) = k => t[u] = 0
      PROVE  Bq!CountOf(t, k) = 0
  BY <1>1, <1>2, <1>3, BqSumOfZeros
<1>4. ASSUME NEW v \in Bq!Versions, Bq!K(v) = k, \A u \in Bq!Versions : Bq!K(u) = k /\ u # v =>
             t[u] = 0
      PROVE  Bq!CountOf(t, k) = t[v]
  <2>1. v \in S /\ t[v] \in Int /\ \A y \in S \ {v} : t[y] = 0
    BY <1>1, <1>4
  <2> QED BY <1>1, <1>2, <2>1, BqSumOfOne
<1> QED BY <1>3, <1>4

\* The MERGE's source has one row of each key staging has, a newest one.
LEMMA BqOnePerKeyIs ==
  ASSUME Bq!BigQueryConstants, cfg \in BqTransfers, NEW s \in [Bq!Versions -> Nat]
  PROVE  /\ Bq!OnePerKey(s) \in [Bq!Versions -> Nat]
         /\ \A v \in Bq!Versions : Bq!OnePerKey(s)[v] \in {0, 1}
         /\ \A u, v \in Bq!Versions :
              Bq!OnePerKey(s)[u] = 1 /\ Bq!OnePerKey(s)[v] = 1 /\ Bq!K(u) = Bq!K(v) => u = v
         /\ \A v \in Bq!Versions : Bq!OnePerKey(s)[v] = 1 =>
            v \in Bq!Held(s) /\ v \in Bq!Newest(Bq!Held(s))
         /\ \A v \in Bq!Held(s) : \E u \in Bq!Versions : Bq!OnePerKey(s)[u] = 1 /\ Bq!K(u) = Bq!K(v)
            /\ Bq!W(u) >= Bq!W(v)
<1> DEFINE top == Bq!Newest(Bq!Held(s))
           one == Bq!OnePerKey(s)
           First(v) == v \in top /\ \A u \in top : Bq!K(u) = Bq!K(v) => v <= u
<1>1. one = [v \in Bq!Versions |-> IF First(v) THEN 1 ELSE 0]
  BY DEF Bq!OnePerKey
<1>2. Bq!Held(s) \subseteq Bq!Versions /\ top \subseteq Bq!Held(s)
      /\ \A v \in Bq!Versions : v \in Nat
  BY BqNewestIs, BqTransfer DEF Bq!Held
<1> HIDE DEF one, top
<1>3. one \in [Bq!Versions -> Nat]
      /\ \A v \in Bq!Versions : one[v] \in {0, 1} /\ (one[v] = 1 <=> First(v))
  BY <1>1
<1>4. ASSUME NEW u \in Bq!Versions, NEW v \in Bq!Versions, First(u), First(v), Bq!K(u) = Bq!K(v)
      PROVE  u = v
  <2>1. u <= v /\ v <= u /\ u \in Nat /\ v \in Nat
    BY <1>2, <1>4
  <2> QED BY <2>1
<1>5. ASSUME NEW v \in Bq!Held(s)
      PROVE  \E u \in Bq!Versions : First(u) /\ Bq!K(u) = Bq!K(v) /\ Bq!W(u) >= Bq!W(v)
  <2>1. PICK w \in top : Bq!K(w) = Bq!K(v) /\ Bq!W(w) >= Bq!W(v)
    BY <1>2, BqNewestThere DEF top
  <2> DEFINE T == {u \in top : Bq!K(u) = Bq!K(v)}
             m == Bq!Min(T)
  <2>2. w \in T /\ T \subseteq top /\ \A u \in T : Bq!K(u) = Bq!K(v)
    BY <2>1
  <2>3. IsFiniteSet(T) /\ \A u \in T : u \in Int
    BY <1>2, <2>2, BqTransfer, FS_Subset
  <2>4. \A u \in top : Bq!K(u) = Bq!K(v) => u \in T
    OBVIOUS
  <2> HIDE DEF T
  <2>5. m \in T /\ \A u \in T : m <= u
    BY <2>2, <2>3, BqIntMin
  <2> HIDE DEF m
  <2>6. m \in top /\ Bq!K(m) = Bq!K(v)
    BY <2>2, <2>5
  <2>7. First(m)
    BY <2>4, <2>5, <2>6
  <2>8. Bq!W(m) >= Bq!W(w)
    <3>1. Bq!W(w) <= Bq!W(m)
      BY <1>2, <2>1, <2>6, BqNewestIs DEF top
    <3> QED BY <1>2, <2>1, <2>6, <3>1, BqTransfer
  <2>9. Bq!W(m) >= Bq!W(v)
    <3>1. Bq!W(m) \in Nat /\ Bq!W(w) \in Nat /\ Bq!W(v) \in Nat
      BY <1>2, <1>5, <2>1, <2>6, BqTransfer
    <3> QED BY <2>1, <2>8, <3>1
  <2> QED BY <1>2, <2>6, <2>7, <2>9
<1>6. \A v \in Bq!Held(s) : \E u \in Bq!Versions : one[u] = 1 /\ Bq!K(u) = Bq!K(v)
      /\ Bq!W(u) >= Bq!W(v)
  BY <1>3, <1>5
<1>7. \A u, v \in Bq!Versions : one[u] = 1 /\ one[v] = 1 /\ Bq!K(u) = Bq!K(v) => u = v
  BY <1>3, <1>4
<1>8. \A v \in Bq!Versions : one[v] = 1 => v \in Bq!Held(s) /\ v \in top
  BY <1>2, <1>3
<1> HIDE DEF First
<1> QED BY <1>3, <1>6, <1>7, <1>8 DEF one, top

\* Where the destination has one row of a key, a MERGE makes what staging has
\* of a key of it, and leaves the rest but for the stale rows of its window.
BqSourced(s, k) == \E u \in Bq!Versions : Bq!OnePerKey(s)[u] = 1 /\ Bq!K(u) = k
BqSingleRows ==
  \A u \in Bq!Held(dest) : dest[u] = 1 /\ \A v \in Bq!Held(dest) : Bq!K(u) = Bq!K(v) => u = v

\* merge_sql: what the destination holds of a version after a MERGE: of a key
\* staging has, its one row; of others, what was there, but for the window whose
\* stale rows are deleted.
LEMMA BqMergeIs ==
  ASSUME Bq!BigQueryConstants, cfg \in BqTransfers, dest \in [Bq!Versions -> Nat], BqSingleRows,
         NEW s \in [Bq!Versions -> Nat], NEW b, Bq!Fit(s, b)
  PROVE  /\ Bq!Merged(s, b) \in [Bq!Versions -> Nat]
         /\ \A v \in Bq!Versions :
              Bq!Merged(s, b)[v] = IF BqSourced(s, Bq!K(v)) THEN Bq!OnePerKey(s)[v]
                                ELSE IF v \in Bq!Window(b) THEN 0 ELSE dest[v]
<1> DEFINE src       == Bq!OnePerKey(s)
           matched   == {v \in Bq!Admitted(b) : dest[v] > 0 /\ Bq!CountOf(src, Bq!K(v)) > 0}
           updated   == {Bq!K(v) : v \in matched}
           times(k)  == Bq!SumFunctionOnSet(dest, {v \in matched : Bq!K(v) = k})
           deleted   == {v \in Bq!Window(b) : Bq!CountOf(src, Bq!K(v)) = 0}
           landed(v) == IF Bq!K(v) \in updated
                        THEN IF src[v] > 0 THEN times(Bq!K(v)) ELSE 0
                        ELSE src[v]
<1>1. Bq!Merged(s, b) = [v \in Bq!Versions |->
                        landed(v) + IF v \in matched \cup deleted THEN 0 ELSE dest[v]]
  BY DEF Bq!Merged
<1>2. /\ src \in [Bq!Versions -> Nat] /\ \A v \in Bq!Versions : src[v] \in {0, 1}
      /\ \A u, v \in Bq!Versions : src[u] = 1 /\ src[v] = 1 /\ Bq!K(u) = Bq!K(v) => u = v
      /\ \A v \in Bq!Versions : src[v] = 1 => v \in Bq!Held(s)
  BY BqOnePerKeyIs
<1>3. \A v \in Bq!Versions : dest[v] \in Nat /\ (v \in Bq!Held(dest) <=> dest[v] > 0)
  BY BqAddingIs
<1>4. /\ \A v \in Bq!Versions : v \in Bq!Admitted(b) <=>
           (b.keys # {} => Bq!K(v) \in b.keys) /\ (b.parts # {} => Bq!P(v) \in b.parts)
      /\ Bq!Admitted(b) \subseteq Bq!Versions
  BY DEF Bq!Admitted
<1> HIDE DEF src
<1>5. \A v : v \in matched <=> v \in Bq!Admitted(b) /\ dest[v] > 0 /\ Bq!CountOf(src, Bq!K(v)) > 0
  OBVIOUS
<1>6. \A v : v \in deleted <=> v \in Bq!Window(b) /\ Bq!CountOf(src, Bq!K(v)) = 0
  OBVIOUS
<1>7. \A k : k \in updated <=> \E v \in matched : Bq!K(v) = k
  OBVIOUS
<1> HIDE DEF matched, updated, deleted
<1>8. ASSUME NEW v \in Bq!Versions, ~BqSourced(s, Bq!K(v))
      PROVE  landed(v) + (IF v \in matched \cup deleted THEN 0 ELSE dest[v]) =
             IF v \in Bq!Window(b) THEN 0 ELSE dest[v]
  <2>1. \A u \in Bq!Versions : Bq!K(u) = Bq!K(v) => src[u] = 0
    BY <1>2, <1>8 DEF BqSourced, src
  <2>2. Bq!CountOf(src, Bq!K(v)) = 0
    BY <1>2, <2>1, BqCountIs
  <2>3. Bq!K(v) \notin updated /\ v \notin matched
    BY <1>5, <1>7, <2>2
  <2>4. v \in deleted <=> v \in Bq!Window(b)
    BY <1>6, <2>2
  <2>5. landed(v) = 0
    BY <2>1, <2>3
  <2> HIDE DEF landed
  <2> QED BY <1>3, <2>3, <2>4, <2>5
<1>9. ASSUME NEW v \in Bq!Versions, BqSourced(s, Bq!K(v))
      PROVE  landed(v) + (IF v \in matched \cup deleted THEN 0 ELSE dest[v]) = src[v]
  <2>1. PICK u \in Bq!Versions : src[u] = 1 /\ Bq!K(u) = Bq!K(v)
    BY <1>9 DEF BqSourced, src
  <2>2. \A w \in Bq!Versions : Bq!K(w) = Bq!K(v) /\ w # u => src[w] = 0
    BY <1>2, <2>1
  <2>3. Bq!CountOf(src, Bq!K(v)) = 1
    <3>1. Bq!CountOf(src, Bq!K(v)) = src[u]
      BY <1>2, <2>1, <2>2, BqCountIs
    <3> QED BY <2>1, <3>1
  <2>4. v \notin deleted
    BY <1>6, <2>3
  <2>5. ASSUME NEW w \in Bq!Versions, Bq!K(w) = Bq!K(v)
        PROVE  w \in matched <=> dest[w] > 0
    <3>1. u \in Bq!Held(s)
      BY <1>2, <2>1
    <3>2. b.keys # {} => Bq!K(w) \in b.keys
      BY <2>1, <2>5, <3>1 DEF Bq!Fit
    <3>3. b.parts # {} => Bq!P(w) \in b.parts
      BY <2>1, <2>5, <3>1, BqTransfer DEF Bq!Fit
    <3>4. w \in Bq!Admitted(b)
      BY <1>4, <3>2, <3>3
    <3> QED BY <1>5, <2>3, <2>5, <3>4
  <2>6. (IF v \in matched \cup deleted THEN 0 ELSE dest[v]) = 0
    BY <1>3, <2>4, <2>5
  <2>7. src[v] \in {0, 1}
    BY <1>2
  <2>8. CASE Bq!K(v) \notin updated
    <3>1. landed(v) = src[v]
      BY <2>8
    <3> HIDE DEF landed
    <3> QED BY <2>6, <2>7, <3>1
  <2>9. CASE Bq!K(v) \in updated
    <3>1. PICK d \in matched : Bq!K(d) = Bq!K(v)
      BY <1>7, <2>9
    <3> DEFINE D == {w \in matched : Bq!K(w) = Bq!K(v)}
    <3>2. d \in Bq!Versions /\ dest[d] = 1 /\ d \in Bq!Held(dest)
      BY <1>3, <1>4, <1>5, <3>1 DEF BqSingleRows
    <3>3. \A w \in matched : Bq!K(w) = Bq!K(v) => w = d
      BY <1>3, <1>4, <1>5, <3>1, <3>2 DEF BqSingleRows
    <3>4. D = {d}
      BY <3>1, <3>3
    <3>5. Bq!SumFunctionOnSet(dest, {d}) = 1
      <4>1. IsFiniteSet({d}) /\ d \in {d} /\ dest[d] \in Int /\ \A y \in {d} \ {d} : dest[y] = 0
        BY <3>2, FS_Singleton
      <4>2. Bq!SumFunctionOnSet(dest, {d}) = dest[d]
        BY <4>1, BqSumOfOne
      <4> QED BY <3>2, <4>2
    <3>6. times(Bq!K(v)) = 1
      BY <3>4, <3>5
    <3> HIDE DEF times
    <3>7. landed(v) = src[v]
      BY <2>7, <2>9, <3>6
    <3> HIDE DEF landed
    <3> QED BY <2>6, <2>7, <3>7
  <2> QED BY <2>8, <2>9
<1> HIDE DEF landed
<1>10. \A v \in Bq!Versions : Bq!Merged(s, b)[v] =
         IF BqSourced(s, Bq!K(v)) THEN src[v] ELSE IF v \in Bq!Window(b) THEN 0 ELSE dest[v]
  BY <1>1, <1>8, <1>9
<1>11. Bq!Merged(s, b) \in [Bq!Versions -> Nat]
  <2>1. \A v \in Bq!Versions : Bq!Merged(s, b)[v] \in Nat
    BY <1>2, <1>3, <1>10
  <2>2. Bq!Merged(s, b) = [v \in Bq!Versions |-> Bq!Merged(s, b)[v]]
    BY <1>1
  <2> QED BY <2>1, <2>2
<1> QED BY <1>10, <1>11 DEF src

\* So it leaves one row of a key, and of what staging has its newest.
LEMMA BqMergeKeeps ==
  ASSUME Bq!BigQueryConstants, cfg \in BqTransfers, dest \in [Bq!Versions -> Nat], BqSingleRows,
         NEW s \in [Bq!Versions -> Nat], NEW b, Bq!Fit(s, b), NEW m, m = Bq!Merged(s, b)
  PROVE  /\ m \in [Bq!Versions -> Nat]
         /\ \A u \in Bq!Held(m) : m[u] = 1 /\ \A v \in Bq!Held(m) : Bq!K(u) = Bq!K(v) => u = v
         /\ \A v \in Bq!Held(s) : \E u \in Bq!Held(m) : u \in Bq!Newest(Bq!Held(s))
            /\ Bq!K(u) = Bq!K(v) /\ Bq!W(u) >= Bq!W(v)
         /\ \A d \in Bq!Held(dest) :
              \/ d \in Bq!Held(m)
              \/ \E u \in Bq!Held(m) : u \in Bq!Newest(Bq!Held(s)) /\ Bq!K(u) = Bq!K(d)
              \/ d \in Bq!Window(b) /\ d \notin Bq!Held(s)
         /\ \A v \in Bq!Window(b) : (\A u \in Bq!Held(s) : Bq!K(u) # Bq!K(v)) => m[v] = 0
<1>1. /\ m \in [Bq!Versions -> Nat]
      /\ \A v \in Bq!Versions : m[v] = IF BqSourced(s, Bq!K(v)) THEN Bq!OnePerKey(s)[v]
                                    ELSE IF v \in Bq!Window(b) THEN 0 ELSE dest[v]
  BY BqMergeIs
<1>2. /\ \A v \in Bq!Versions : Bq!OnePerKey(s)[v] \in {0, 1}
      /\ \A u, v \in Bq!Versions : Bq!OnePerKey(s)[u] = 1 /\ Bq!OnePerKey(s)[v] = 1
         /\ Bq!K(u) = Bq!K(v) => u = v
      /\ \A v \in Bq!Versions : Bq!OnePerKey(s)[v] = 1 =>
         v \in Bq!Held(s) /\ v \in Bq!Newest(Bq!Held(s))
      /\ \A v \in Bq!Held(s) : \E u \in Bq!Versions : Bq!OnePerKey(s)[u] = 1 /\ Bq!K(u) = Bq!K(v)
         /\ Bq!W(u) >= Bq!W(v)
  BY BqOnePerKeyIs
<1>3. /\ \A v \in Bq!Versions : v \in Bq!Held(m) <=> m[v] > 0
      /\ \A v \in Bq!Versions : v \in Bq!Held(dest) <=> dest[v] > 0
      /\ Bq!Held(m) \subseteq Bq!Versions /\ Bq!Held(dest) \subseteq Bq!Versions
         /\ Bq!Held(s) \subseteq Bq!Versions
  BY <1>1 DEF Bq!Held
<1>4. \A v \in Bq!Versions : dest[v] \in Nat /\ m[v] \in Nat
  BY <1>1
<1>5. \A u \in Bq!Versions : Bq!OnePerKey(s)[u] = 1 => u \in Bq!Held(m) /\ m[u] = 1
  <2>1. SUFFICES ASSUME NEW u \in Bq!Versions, Bq!OnePerKey(s)[u] = 1 PROVE u \in Bq!Held(m)
                        /\ m[u] = 1
    OBVIOUS
  <2>2. BqSourced(s, Bq!K(u))
    BY <2>1 DEF BqSourced
  <2> QED BY <1>1, <1>3, <2>1, <2>2
<1>6. ASSUME NEW u \in Bq!Held(m)
      PROVE  m[u] = 1 /\ \A v \in Bq!Held(m) : Bq!K(u) = Bq!K(v) => u = v
  <2>1. u \in Bq!Versions /\ m[u] > 0
    BY <1>3, <1>6
  <2>2. CASE BqSourced(s, Bq!K(u))
    <3>1. Bq!OnePerKey(s)[u] = 1 /\ m[u] = 1
      BY <1>1, <1>2, <2>1, <2>2
    <3>2. \A v \in Bq!Held(m) : Bq!K(u) = Bq!K(v) => Bq!OnePerKey(s)[v] = 1
      BY <1>1, <1>2, <1>3, <2>2
    <3> QED BY <1>2, <1>3, <2>1, <3>1, <3>2
  <2>3. CASE ~BqSourced(s, Bq!K(u))
    <3>1. \A v \in Bq!Held(m) : Bq!K(u) = Bq!K(v) => dest[v] > 0 /\ m[v] = dest[v]
      BY <1>1, <1>3, <2>3
    <3>2. \A v \in Bq!Held(m) : Bq!K(u) = Bq!K(v) => v \in Bq!Held(dest)
      BY <1>3, <3>1
    <3> QED BY <1>6, <3>1, <3>2 DEF BqSingleRows
  <2> QED BY <2>2, <2>3
<1>7. ASSUME NEW v \in Bq!Held(s)
      PROVE  \E u \in Bq!Held(m) : u \in Bq!Newest(Bq!Held(s)) /\ Bq!K(u) = Bq!K(v)
             /\ Bq!W(u) >= Bq!W(v)
  BY <1>2, <1>5
<1>8. ASSUME NEW d \in Bq!Held(dest)
      PROVE  \/ d \in Bq!Held(m)
             \/ \E u \in Bq!Held(m) : u \in Bq!Newest(Bq!Held(s)) /\ Bq!K(u) = Bq!K(d)
             \/ d \in Bq!Window(b) /\ d \notin Bq!Held(s)
  <2>1. CASE BqSourced(s, Bq!K(d))
    BY <1>2, <1>5, <2>1 DEF BqSourced
  <2>2. CASE ~BqSourced(s, Bq!K(d))
    <3>1. d \notin Bq!Held(s)
      BY <1>2, <2>2 DEF BqSourced
    <3> QED BY <1>1, <1>3, <1>8, <2>2, <3>1
  <2> QED BY <2>1, <2>2
<1>9. ASSUME NEW v \in Bq!Window(b), \A u \in Bq!Held(s) : Bq!K(u) # Bq!K(v)
      PROVE  m[v] = 0
  <2>1. v \in Bq!Versions
    BY DEF Bq!Window
  <2>2. ~BqSourced(s, Bq!K(v))
    BY <1>2, <1>9 DEF BqSourced
  <2> QED BY <1>1, <2>1, <2>2
<1> QED BY <1>1, <1>6, <1>7, <1>8, <1>9

-----------------------------------------------------------------------------
(* What a step may change.                                                 *)

\* A transfer's log stays as it is.
LEMMA BqLogStays ==
  ASSUME Bq!Next
  PROVE  /\ cfg' = cfg /\ Bq!Versions' = Bq!Versions
         /\ \A v : Bq!W(v)' = Bq!W(v) /\ Bq!P(v)' = Bq!P(v) /\ Bq!K(v)' = Bq!K(v)
         /\ \A n : Bq!Visible(n)' = Bq!Visible(n)
            /\ Bq!Newest(Bq!Visible(n))' = Bq!Newest(Bq!Visible(n))
<1>1. cfg' = cfg
  BY DEF Bq!Next, Bq!StateTable, Bq!StartRun, Bq!EnsureState, Bq!OtherRunEnsuresState,
         Bq!CompactState, Bq!Submission, Bq!Submit, Bq!SubmitUnanswered, Bq!SubmitConflict,
         Bq!Poll, Bq!PollFails, Bq!NextStep, Bq!Insert, Bq!OpenStream, Bq!StreamNotFound,
         Bq!TryAppend, Bq!AppendFails, Bq!FinalizeStream, Bq!FinalizeFails, Bq!Promotion,
         Bq!ProbeStaging, Bq!ProbeFails, Bq!DropStaging, Bq!Cleanup, Bq!Crash, Bq!JobRuns,
         Bq!JobFails, Bq!vars
<1>2. Bq!Versions' = Bq!Versions
      /\ \A v : Bq!W(v)' = Bq!W(v) /\ Bq!P(v)' = Bq!P(v) /\ Bq!K(v)' = Bq!K(v)
  BY <1>1 DEF Bq!Versions, Bq!W, Bq!P, Bq!K
<1>3. \A n : Bq!Visible(n)' = Bq!Visible(n)
  BY <1>1, <1>2 DEF Bq!Visible
<1>4. \A n : Bq!Newest(Bq!Visible(n))' = Bq!Newest(Bq!Visible(n))
  BY <1>1, <1>3 DEF Bq!Newest
<1> QED BY <1>1, <1>2, <1>3, <1>4

\* The moves of a run: it stays where it is, starts, ends, begins, submits,
\* sees its job done or submits another, inserts, promotes, and saves.
BqKept   == UNCHANGED <<run, batch>>
BqStays  == BqKept /\ UNCHANGED <<at, stmt, again, sent>>
BqStarting ==
  /\ Bq!Over /\ at' = "state" /\ run < BqRuns /\ run' = run + 1
  /\ UNCHANGED <<job, batch, sent>>
BqEnds   == BqKept /\ ~Bq!Over /\ at' \in {"cleanup", "failed", "dead"} /\ sent' = sent
BqBegins == at = "state" /\ Bq!Begin /\ run' = run /\ job' = job
BqPolls  ==
  /\ BqKept /\ at = "submit" /\ at' = "poll" /\ job'[Bq!Job] # "absent"
  /\ UNCHANGED <<stmt, again, sent>>
BqSees   ==
  /\ BqKept /\ at = "poll" /\ at' = "next" /\ job[Bq!Job] = "done"
  /\ UNCHANGED <<job, stmt, again, sent>>
BqRetries ==
  /\ BqKept /\ at = "poll" /\ at' = "submit" /\ stmt # "clone" /\ Bq!TriesLeft
  /\ again' = again + 1 /\ UNCHANGED <<job, stmt, sent>>
BqOpens  ==
  /\ BqKept /\ at = "next" /\ stmt = "clone"
  /\ at' = (IF batch = <<>> THEN "bounds" ELSE "open")
  /\ UNCHANGED <<job, stmt, again, sent>>
BqInserts ==
  /\ BqKept /\ at \in {"open", "append", "finalize"}
  /\ at' \in {"open", "append", "finalize", "bounds"}
  /\ Bq!OpenStream \/ Bq!TryAppend \/ Bq!FinalizeStream \/ Bq!FinalizeFails
  /\ UNCHANGED <<job, stmt, again>>
BqPromotings ==
  /\ BqKept /\ at = "bounds" /\ at' = "submit" /\ stmt' = "promote" /\ again' = 0
  /\ Bq!ProbeStaging \/ Bq!ProbeFails
  /\ UNCHANGED <<job, sent>>
BqDrops  ==
  /\ BqKept /\ at = "next" /\ stmt = "promote" /\ at' = "drop"
  /\ UNCHANGED <<job, stmt, again, sent>>
BqSaves  ==
  /\ BqKept /\ at = "drop" /\ at' = "submit" /\ cfg.promote = "merge" /\ stmt' = "persist"
  /\ again' = 0 /\ UNCHANGED <<job, sent>>
BqSucceeds ==
  /\ BqKept /\ at' = "ok" /\ UNCHANGED <<job, sent>>
  /\ (at = "next" /\ stmt = "persist") \/ (at = "drop" /\ cfg.promote # "merge")

\* Every step is one of these.
LEMMA BqMoves ==
  ASSUME Bq!BigQueryConstants, Bq!Typed, Bq!Stepped, Bq!Next
  PROVE  \/ BqStays \/ BqStarting \/ BqEnds \/ BqBegins
         \/ BqPolls \/ BqSees \/ BqRetries \/ BqOpens \/ BqInserts
         \/ BqPromotings \/ BqDrops \/ BqSaves \/ BqSucceeds
<1>1. CASE Bq!StateTable
  <2>1. CASE Bq!StartRun
    BY <2>1 DEF Bq!StartRun, BqStarting, Bq!Goto, Bq!jobs, Bq!writing
  <2>2. CASE Bq!EnsureState
    BY <2>2
    DEF Bq!EnsureState, BqEnds, BqBegins, Bq!Begin, BqKept, Bq!Goto, Bq!jobs, Bq!writing, Bq!Over
  <2>3. CASE Bq!OtherRunEnsuresState \/ Bq!CompactState
    BY <2>3 DEF Bq!OtherRunEnsuresState, Bq!CompactState, BqStays, BqKept, Bq!writing
  <2> QED BY <1>1, <2>1, <2>2, <2>3 DEF Bq!StateTable
<1>2. CASE Bq!Submission
  <2>1. CASE Bq!Submit
    <3>1. run > 0 /\ Bq!Job \in Bq!JobIds
          /\ job \in [Bq!JobIds -> {"absent", "pending", "done", "failed", "limited"}]
      BY <2>1, BqJobThere, BqCounters DEF Bq!Submit, Bq!Stepped
    <3>2. job'[Bq!Job] # "absent"
      BY <2>1, <3>1 DEF Bq!Submit
    <3> QED BY <2>1, <3>2 DEF Bq!Submit, BqPolls, BqKept, Bq!Goto, Bq!writing
  <2>2. CASE Bq!SubmitUnanswered
    BY <2>2 DEF Bq!SubmitUnanswered, BqStays, BqEnds, BqKept, Bq!Goto, Bq!writing, Bq!Over
  <2>3. CASE Bq!SubmitConflict
    BY <2>3 DEF Bq!SubmitConflict, BqPolls, BqKept, Bq!Goto, Bq!writing, Bq!jobs
  <2>4. CASE Bq!Poll
    BY <2>4 DEF Bq!Poll, BqSees, BqRetries, BqEnds, BqKept, Bq!Goto, Bq!writing, Bq!jobs, Bq!Over
  <2>5. CASE Bq!PollFails
    BY <2>5 DEF Bq!PollFails, Bq!Fails, BqEnds, BqKept, Bq!Goto, Bq!writing, Bq!Over
  <2>6. CASE Bq!NextStep
    <3>1. stmt \in {"clone", "promote", "persist"}
      BY BqCounters DEF Bq!Statements
    <3> QED BY <2>6, <3>1
            DEF Bq!NextStep, BqOpens, BqDrops, BqSucceeds, BqKept, Bq!Goto, Bq!writing, Bq!jobs
  <2> QED BY <1>2, <2>1, <2>2, <2>3, <2>4, <2>5, <2>6 DEF Bq!Submission
<1>3. CASE Bq!Insert
  <2>1. CASE Bq!OpenStream
    BY <2>1 DEF Bq!OpenStream, BqInserts, BqKept, Bq!Goto, Bq!jobs
  <2>2. CASE Bq!StreamNotFound
    BY <2>2 DEF Bq!StreamNotFound, BqStays, BqEnds, BqKept, Bq!Goto, Bq!writing, Bq!Over
  <2>3. CASE Bq!TryAppend
    BY <2>3 DEF Bq!TryAppend, Bq!AfterRequest, BqInserts, BqKept, Bq!Goto, Bq!jobs
  <2>4. CASE Bq!AppendFails
    BY <2>4 DEF Bq!AppendFails, BqStays, BqEnds, BqKept, Bq!Goto, Bq!Over
  <2>5. CASE Bq!FinalizeStream
    BY <2>5 DEF Bq!FinalizeStream, BqInserts, BqEnds, BqKept, Bq!Goto, Bq!jobs, Bq!writing, Bq!Over
  <2>6. CASE Bq!FinalizeFails
    BY <2>6 DEF Bq!FinalizeFails, BqInserts, BqKept, Bq!Goto, Bq!jobs, Bq!writing
  <2> QED BY <1>3, <2>1, <2>2, <2>3, <2>4, <2>5, <2>6 DEF Bq!Insert
<1>4. CASE Bq!Promotion
  <2>1. CASE Bq!ProbeStaging
    BY <2>1 DEF Bq!ProbeStaging, Bq!Promoting, BqPromotings, BqKept, Bq!Goto, Bq!writing
  <2>2. CASE Bq!ProbeFails
    BY <2>2
    DEF Bq!ProbeFails, Bq!Promoting, BqPromotings, BqEnds, BqKept, Bq!Goto, Bq!writing, Bq!Over
  <2>3. CASE Bq!DropStaging
    BY <2>3 DEF Bq!DropStaging, BqSaves, BqSucceeds, BqKept, Bq!Goto, Bq!writing, Bq!jobs
  <2> QED BY <1>4, <2>1, <2>2, <2>3 DEF Bq!Promotion
<1>5. CASE Bq!Cleanup
  BY <1>5 DEF Bq!Cleanup, BqEnds, BqKept, Bq!Goto, Bq!writing, Bq!Over
<1>6. CASE Bq!Crash
  BY <1>6 DEF Bq!Crash, BqEnds, BqKept, Bq!Goto, Bq!writing
<1>7. CASE \E id \in Bq!JobIds : Bq!JobRuns(id) \/ Bq!JobFails(id)
  BY <1>7 DEF Bq!JobRuns, Bq!JobFails, BqStays, BqKept, Bq!writing
<1>8. CASE Bq!Ended /\ UNCHANGED Bq!vars
  BY <1>8 DEF Bq!vars, BqStays, BqKept, Bq!writing
<1> QED BY <1>1, <1>2, <1>3, <1>4, <1>5, <1>6, <1>7, <1>8 DEF Bq!Next

\* What a step does to the jobs.
BqSubmitted ==
  /\ at = "submit" /\ job[Bq!Job] = "absent" /\ job' = [job EXCEPT ![Bq!Job] = "pending"]
  /\ UNCHANGED <<run, dest, staging, saved, bounds, late, unsure>>
BqFailed(id) ==
  /\ job[id] = "pending"
  /\ \E how \in {"limited", "failed"} : job' = [job EXCEPT ![id] = how]
  /\ UNCHANGED <<run, dest, staging, saved, bounds, late, unsure>>
BqNoJobRuns == job' = job /\ dest' = dest /\ late' = late

\* Every step does one of these.
LEMMA BqWorks ==
  ASSUME Bq!BigQueryConstants, Bq!Typed, Bq!Stepped, Bq!Next
  PROVE  BqNoJobRuns \/ BqSubmitted \/ \E id \in Bq!JobIds : Bq!JobRuns(id) \/ BqFailed(id)
<1>1. job \in [Bq!JobIds -> {"absent", "pending", "done", "failed", "limited"}]
  BY BqCounters
<1>2. CASE Bq!Submit
  BY <1>2 DEF Bq!Submit, BqSubmitted, Bq!tables, Bq!saved, Bq!told
<1>3. CASE Bq!SubmitUnanswered
  <2>1. Bq!Job \in Bq!JobIds
    BY <1>3, BqJobThere DEF Bq!SubmitUnanswered, Bq!Stepped
  <2>2. UNCHANGED <<run, dest, staging, saved, bounds, late, unsure>> /\ at = "submit"
    BY <1>3 DEF Bq!SubmitUnanswered, Bq!tables, Bq!saved
  <2>3. job' = job \/ job' = [job EXCEPT ![Bq!Job] = IF @ = "absent" THEN "pending" ELSE @]
    BY <1>3 DEF Bq!SubmitUnanswered
  <2>4. CASE job[Bq!Job] = "absent"
    BY <2>2, <2>3, <2>4 DEF BqSubmitted, BqNoJobRuns
  <2>5. CASE job[Bq!Job] # "absent"
    <3>1. job' = job
      BY <1>1, <2>1, <2>3, <2>5
    <3> QED BY <2>2, <3>1 DEF BqNoJobRuns
  <2> QED BY <2>4, <2>5
<1>4. CASE \E id \in Bq!JobIds : Bq!JobFails(id)
  BY <1>4 DEF Bq!JobFails, BqFailed, Bq!tables, Bq!saved
<1>5. CASE Bq!StateTable
  BY <1>5 DEF Bq!StateTable, Bq!StartRun, Bq!EnsureState, Bq!OtherRunEnsuresState, Bq!CompactState,
              BqNoJobRuns, Bq!tables, Bq!jobs, Bq!told
<1>6. CASE Bq!SubmitConflict \/ Bq!Poll \/ Bq!PollFails \/ Bq!NextStep
  BY <1>6 DEF Bq!SubmitConflict, Bq!Poll, Bq!PollFails, Bq!NextStep, BqNoJobRuns, Bq!tables,
              Bq!jobs, Bq!told
<1>7. CASE Bq!Insert
  BY <1>7 DEF Bq!Insert, Bq!OpenStream, Bq!StreamNotFound, Bq!TryAppend, Bq!AppendFails,
              Bq!FinalizeStream, Bq!FinalizeFails, BqNoJobRuns, Bq!tables, Bq!jobs, Bq!told
<1>8. CASE Bq!Promotion \/ Bq!Cleanup \/ Bq!Crash \/ (Bq!Ended /\ UNCHANGED Bq!vars)
  BY <1>8 DEF Bq!Promotion, Bq!ProbeStaging, Bq!ProbeFails, Bq!DropStaging, Bq!Cleanup, Bq!Crash,
              BqNoJobRuns, Bq!tables, Bq!jobs, Bq!told, Bq!vars
<1> QED BY <1>2, <1>3, <1>4, <1>5, <1>6, <1>7, <1>8 DEF Bq!Next, Bq!Submission

\* Which steps change which part.
LEMMA BqChanges ==
  ASSUME Bq!Next
  PROVE  /\ saved' = saved \/ Bq!CompactState
            \/ \E id \in Bq!JobIds : Bq!JobRuns(id) /\ id[2] = "persist"
         /\ bounds' = bounds \/ Bq!ProbeStaging \/ Bq!ProbeFails
         /\ unsure' = unsure \/ Bq!FinalizeFails
         /\ staging' = staging \/ Bq!DropStaging \/ Bq!Cleanup \/ Bq!TryAppend \/ Bq!AppendFails
            \/ \E id \in Bq!JobIds : Bq!JobRuns(id) /\ id[2] = "clone"
         /\ stream' = stream \/ Bq!EnsureState \/ Bq!OpenStream \/ Bq!TryAppend \/ Bq!AppendFails
<1>1. saved' = saved \/ Bq!CompactState \/ \E id \in Bq!JobIds : Bq!JobRuns(id) /\ id[2] = "persist"
  BY DEF Bq!Next, Bq!StateTable, Bq!StartRun, Bq!EnsureState, Bq!OtherRunEnsuresState,
         Bq!Submission, Bq!Submit, Bq!SubmitUnanswered, Bq!SubmitConflict, Bq!Poll, Bq!PollFails,
         Bq!NextStep, Bq!Insert, Bq!OpenStream, Bq!StreamNotFound, Bq!TryAppend, Bq!AppendFails,
         Bq!FinalizeStream, Bq!FinalizeFails, Bq!Promotion, Bq!ProbeStaging, Bq!ProbeFails,
         Bq!DropStaging, Bq!Cleanup, Bq!Crash, Bq!JobRuns, Bq!JobFails, Bq!vars, Bq!saved
<1>2. bounds' = bounds \/ Bq!ProbeStaging \/ Bq!ProbeFails
  BY DEF Bq!Next, Bq!StateTable, Bq!StartRun, Bq!EnsureState, Bq!OtherRunEnsuresState,
         Bq!CompactState, Bq!Submission, Bq!Submit, Bq!SubmitUnanswered, Bq!SubmitConflict,
         Bq!Poll, Bq!PollFails, Bq!Fails, Bq!NextStep, Bq!Insert, Bq!OpenStream, Bq!StreamNotFound,
         Bq!TryAppend, Bq!AppendFails, Bq!FinalizeStream, Bq!FinalizeFails, Bq!Promotion,
         Bq!DropStaging, Bq!Cleanup, Bq!Crash, Bq!JobRuns, Bq!JobFails, Bq!vars, Bq!jobs
<1>3. unsure' = unsure \/ Bq!FinalizeFails
  BY DEF Bq!Next, Bq!StateTable, Bq!StartRun, Bq!EnsureState, Bq!OtherRunEnsuresState,
         Bq!CompactState, Bq!Submission, Bq!Submit, Bq!SubmitUnanswered, Bq!SubmitConflict,
         Bq!Poll, Bq!PollFails, Bq!NextStep, Bq!Insert, Bq!OpenStream, Bq!StreamNotFound,
         Bq!TryAppend, Bq!AppendFails, Bq!FinalizeStream, Bq!Promotion, Bq!ProbeStaging,
         Bq!ProbeFails, Bq!DropStaging, Bq!Cleanup, Bq!Crash, Bq!JobRuns, Bq!JobFails, Bq!vars,
         Bq!told
<1>4. staging' = staging \/ Bq!DropStaging \/ Bq!Cleanup \/ Bq!TryAppend \/ Bq!AppendFails
         \/ \E id \in Bq!JobIds : Bq!JobRuns(id) /\ id[2] = "clone"
  BY DEF Bq!Next, Bq!StateTable, Bq!StartRun, Bq!EnsureState, Bq!OtherRunEnsuresState,
         Bq!CompactState, Bq!Submission, Bq!Submit, Bq!SubmitUnanswered, Bq!SubmitConflict,
         Bq!Poll, Bq!PollFails, Bq!NextStep, Bq!Insert, Bq!OpenStream, Bq!StreamNotFound,
         Bq!FinalizeStream, Bq!FinalizeFails, Bq!Promotion, Bq!ProbeStaging, Bq!ProbeFails,
         Bq!Crash, Bq!JobRuns, Bq!JobFails, Bq!vars, Bq!tables
<1>5. stream' = stream \/ Bq!EnsureState \/ Bq!OpenStream \/ Bq!TryAppend \/ Bq!AppendFails
  BY DEF Bq!Next, Bq!StateTable, Bq!StartRun, Bq!OtherRunEnsuresState, Bq!CompactState,
         Bq!Submission, Bq!Submit, Bq!SubmitUnanswered, Bq!SubmitConflict, Bq!Poll, Bq!PollFails,
         Bq!Fails, Bq!NextStep, Bq!Insert, Bq!StreamNotFound, Bq!FinalizeStream, Bq!FinalizeFails,
         Bq!Promotion, Bq!ProbeStaging, Bq!ProbeFails, Bq!DropStaging, Bq!Cleanup, Bq!Crash,
         Bq!JobRuns, Bq!JobFails, Bq!vars, Bq!writing
<1> QED BY <1>1, <1>2, <1>3, <1>4, <1>5

\* How the counters change.
LEMMA BqCountersChange ==
  ASSUME Bq!Next
  PROVE  /\ again' = again \/ again' = 0 \/ (again' = again + 1 /\ Bq!TriesLeft)
         /\ \/ attempt' = attempt \/ attempt' = 1
            \/ attempt' = attempt + 1 /\ (attempt < HttpAttempts \/ attempt < BqInsertAttempts)
         /\ failures' = failures \/ Bq!Fault
         /\ stmt' = stmt \/ stmt' \in {"clone", "promote", "persist"}
<1>1. again' = again \/ again' = 0 \/ (again' = again + 1 /\ Bq!TriesLeft)
  BY DEF Bq!Next, Bq!StateTable, Bq!StartRun, Bq!EnsureState, Bq!Begin, Bq!OtherRunEnsuresState,
         Bq!CompactState, Bq!Submission, Bq!Submit, Bq!SubmitUnanswered, Bq!SubmitConflict,
         Bq!Poll, Bq!PollFails, Bq!Fails, Bq!NextStep, Bq!Insert, Bq!OpenStream, Bq!StreamNotFound,
         Bq!TryAppend, Bq!AppendFails, Bq!FinalizeStream, Bq!FinalizeFails, Bq!Promotion,
         Bq!ProbeStaging, Bq!ProbeFails, Bq!Promoting, Bq!DropStaging, Bq!Cleanup, Bq!Crash,
         Bq!JobRuns, Bq!JobFails, Bq!vars
<1>2. \/ attempt' = attempt \/ attempt' = 1
      \/ attempt' = attempt + 1 /\ (attempt < HttpAttempts \/ attempt < BqInsertAttempts)
  BY DEF Bq!Next, Bq!StateTable, Bq!StartRun, Bq!EnsureState, Bq!Begin, Bq!OtherRunEnsuresState,
         Bq!CompactState, Bq!Submission, Bq!Submit, Bq!SubmitUnanswered, Bq!SubmitConflict,
         Bq!Poll, Bq!PollFails, Bq!Fails, Bq!NextStep, Bq!Insert, Bq!OpenStream, Bq!StreamNotFound,
         Bq!TryAppend, Bq!AfterRequest, Bq!AppendFails, Bq!FinalizeStream, Bq!FinalizeFails,
         Bq!Promotion, Bq!ProbeStaging, Bq!ProbeFails, Bq!Promoting, Bq!DropStaging, Bq!Cleanup,
         Bq!Crash, Bq!JobRuns, Bq!JobFails, Bq!vars
<1>3. failures' = failures \/ Bq!Fault
  BY DEF Bq!Next, Bq!StateTable, Bq!StartRun, Bq!EnsureState, Bq!OtherRunEnsuresState,
         Bq!CompactState, Bq!Submission, Bq!Submit, Bq!SubmitUnanswered, Bq!SubmitConflict,
         Bq!Poll, Bq!PollFails, Bq!NextStep, Bq!Insert, Bq!OpenStream, Bq!StreamNotFound,
         Bq!TryAppend, Bq!AppendFails, Bq!FinalizeStream, Bq!FinalizeFails, Bq!Promotion,
         Bq!ProbeStaging, Bq!ProbeFails, Bq!DropStaging, Bq!Cleanup, Bq!Crash, Bq!JobRuns,
         Bq!JobFails, Bq!vars, Bq!told
<1>4. stmt' = stmt \/ stmt' \in {"clone", "promote", "persist"}
  BY DEF Bq!Next, Bq!StateTable, Bq!StartRun, Bq!EnsureState, Bq!Begin, Bq!OtherRunEnsuresState,
         Bq!CompactState, Bq!Submission, Bq!Submit, Bq!SubmitUnanswered, Bq!SubmitConflict,
         Bq!Poll, Bq!PollFails, Bq!Fails, Bq!NextStep, Bq!Insert, Bq!OpenStream, Bq!StreamNotFound,
         Bq!TryAppend, Bq!AppendFails, Bq!FinalizeStream, Bq!FinalizeFails, Bq!Promotion,
         Bq!ProbeStaging, Bq!ProbeFails, Bq!Promoting, Bq!DropStaging, Bq!Cleanup, Bq!Crash,
         Bq!JobRuns, Bq!JobFails, Bq!vars
<1> QED BY <1>1, <1>2, <1>3, <1>4

-----------------------------------------------------------------------------
(* The types after a step.                                                 *)

\* The counters, the statement and the step stay in their ranges.
LEMMA BqCountersStep ==
  ASSUME Bq!BigQueryConstants, Bq!Typed, Bq!Stepped, Bq!Next
  PROVE  /\ again' \in 0..JobAttempts - 1 /\ attempt' \in 1..HttpAttempts \cup 1..BqInsertAttempts
         /\ failures' \in 0..BqFaults /\ stmt' \in Bq!Statements /\ at' \in Bq!Steps
         /\ run' \in 0..BqRuns
<1>1. /\ again \in 0..JobAttempts - 1 /\ attempt \in 1..HttpAttempts \cup 1..BqInsertAttempts
      /\ failures \in 0..BqFaults /\ stmt \in Bq!Statements /\ run \in 0..BqRuns /\ at \in Bq!Steps
  BY BqCounters
<1>2. again' \in 0..JobAttempts - 1
  BY <1>1, BqCountersChange, BqNumbers DEF Bq!TriesLeft
<1>3. attempt' \in 1..HttpAttempts \cup 1..BqInsertAttempts
  BY <1>1, BqCountersChange, BqNumbers
<1>4. failures' \in 0..BqFaults
  BY <1>1, BqCountersChange, BqNumbers DEF Bq!Fault
<1>5. stmt' \in Bq!Statements
  BY <1>1, BqCountersChange DEF Bq!Statements
<1>6. at' \in Bq!Steps
  BY <1>1, BqMoves DEF BqStays, BqStarting, BqEnds, BqBegins, Bq!Begin, Bq!Goto, BqPolls, BqSees,
                       BqRetries, BqOpens, BqInserts, BqPromotings, BqDrops, BqSaves, BqSucceeds,
                       Bq!Steps
<1>7. run' \in 0..BqRuns
  BY <1>1, BqMoves, BqNumbers DEF BqStays, BqStarting, BqEnds, BqBegins, BqPolls, BqSees,
                                  BqRetries, BqOpens, BqInserts, BqPromotings, BqDrops, BqSaves,
                                  BqSucceeds, BqKept
<1> QED BY <1>2, <1>3, <1>4, <1>5, <1>6, <1>7

\* The batch of a run is what it reads, in order.
LEMMA BqBatchStep ==
  ASSUME Bq!BigQueryConstants, Bq!Typed, Bq!Stepped, Bq!Next
  PROVE  /\ batch' \in Seq(Bq!Versions) /\ Len(batch') \in Nat
         /\ \A i, j \in 1..Len(batch') : i < j => batch'[i] < batch'[j]
         /\ BqBegins => Bq!Whole' = Bq!Read(run) /\ sent' = 0
         /\ ~BqBegins => batch' = batch /\ Bq!Whole' = Bq!Whole
<1>1. cfg \in BqTransfers /\ Len(batch) \in Nat /\ run \in Nat
  BY BqBatchIs, BqCounters, BqNumbers
<1>2. CASE BqBegins
  <2>1. batch' = Bq!InOrder(Bq!Read(run)) /\ sent' = 0
    BY <1>2 DEF BqBegins, Bq!Begin
  <2>2. Len(cfg.log) \in Nat /\ Bq!Versions = 1..Len(cfg.log)
    BY <1>1, BqTransfer
  <2>3. Bq!Read(run) \in SUBSET (1..Len(cfg.log))
    BY <1>1, <2>2, BqReadIs
  <2>4. /\ batch' \in Seq(Bq!Read(run))
           /\ \A i, j \in 1..Len(batch') : i < j => batch'[i] < batch'[j]
        /\ {batch'[i] : i \in 1..Len(batch')} = Bq!Read(run)
    <3> DEFINE n == Len(cfg.log)
               S == Bq!Read(run)
    <3>1. batch' = Bq!InOrder(S) /\ n \in Nat /\ S \in SUBSET (1..n)
      BY <2>1, <2>2, <2>3
    <3> HIDE DEF n, S
    <3> DEFINE s == Bq!InOrder(S)
    <3>2. /\ s \in Seq(S) /\ \A i, j \in 1..Len(s) : i < j => s[i] < s[j]
          /\ {s[i] : i \in 1..Len(s)} = S
      BY <3>1, BqInOrderIs
    <3>3. batch' = s
      BY <3>1
    <3> HIDE DEF s
    <3> QED BY <3>2, <3>3 DEF S
  <2>5. batch' \in Seq(Bq!Versions) /\ Len(batch') \in Nat
    <3>1. Bq!Read(run) \subseteq Bq!Versions
      BY <2>2, <2>3
    <3>2. batch' \in Seq(Bq!Read(run))
      BY <2>4
    <3>3. batch' \in Seq(Bq!Versions)
      BY <3>1, <3>2, SeqMonotonic
    <3> QED BY <3>3, LenProperties
  <2>6. Bq!Whole' = Bq!Read(run)
    BY <2>4 DEF Bq!Whole
  <2> QED BY <1>2, <2>1, <2>4, <2>5, <2>6, Zenon
<1>3. CASE ~BqBegins
  <2>1. batch' = batch
    BY <1>3, BqMoves DEF BqStays, BqStarting, BqEnds, BqPolls, BqSees, BqRetries, BqOpens,
                         BqInserts, BqPromotings, BqDrops, BqSaves, BqSucceeds, BqKept
  <2>2. Bq!Whole' = Bq!Whole
    BY <2>1 DEF Bq!Whole
  <2> QED BY <1>1, <1>3, <2>1, <2>2 DEF Bq!Typed
<1> QED BY <1>2, <1>3

\* Where the append is: what is sent after it.
LEMMA BqSentStep ==
  ASSUME Bq!BigQueryConstants, Bq!Typed, Bq!Stepped, Bq!Next
  PROVE  sent' \in 0..Len(batch')
<1>1. sent \in 0..Len(batch) /\ Len(batch) \in Nat
  BY BqCounters, BqBatchIs
<1>2. CASE BqBegins
  BY <1>2, BqBatchStep
<1>3. CASE Bq!TryAppend
  <2>1. sent' = sent + Bq!Cardinality(Bq!Request) /\ batch' = batch /\ sent < Len(batch)
    BY <1>3 DEF Bq!TryAppend, Bq!AfterRequest, Bq!Stepped
  <2>2. PICK m \in Nat : m <= Bq!CallEnd /\ Bq!CallEnd <= Len(batch) /\ Bq!CallEnd \in Nat
                         /\ sent + Bq!Cardinality(Bq!Request) = m
    BY <2>1, BqRequestIs
  <2> QED BY <1>1, <2>1, <2>2
<1>4. CASE ~BqBegins /\ ~Bq!TryAppend
  <2>1. batch' = batch
    BY <1>4, BqBatchStep
  <2>2. sent' = sent
    <3>1. CASE BqInserts
      BY <1>4, <3>1 DEF BqInserts, Bq!OpenStream, Bq!FinalizeStream, Bq!FinalizeFails, Bq!writing
    <3> QED BY <1>4, <3>1, BqMoves DEF BqStays, BqStarting, BqEnds, BqPolls, BqSees, BqRetries,
                                       BqOpens, BqPromotings, BqDrops, BqSaves, BqSucceeds
  <2> QED BY <1>1, <2>1, <2>2
<1> QED BY <1>2, <1>3, <1>4

\* Jobs only go on: from absent to pending, and from there to an end.
LEMMA BqJobsGrow ==
  ASSUME Bq!BigQueryConstants, Bq!Typed, Bq!Stepped, Bq!Next
  PROVE  /\ job' \in [Bq!JobIds -> {"absent", "pending", "done", "failed", "limited"}]
         /\ \A id \in Bq!JobIds :
              /\ job[id] = "done" => job'[id] = "done"
              /\ job[id] # "absent" => job'[id] # "absent"
              /\ job'[id] # "absent" => job[id] # "absent" \/ (BqSubmitted /\ id = Bq!Job)
              /\ job'[id] = "done" => job[id] = "done" \/ Bq!JobRuns(id)
<1>1. job \in [Bq!JobIds -> {"absent", "pending", "done", "failed", "limited"}]
  BY BqCounters
<1>2. CASE BqNoJobRuns
  BY <1>1, <1>2 DEF BqNoJobRuns
<1>3. CASE BqSubmitted
  BY <1>1, <1>3 DEF BqSubmitted
<1>4. CASE \E id \in Bq!JobIds : Bq!JobRuns(id)
  <2>1. PICK id \in Bq!JobIds : Bq!JobRuns(id)
    BY <1>4 DEF Bq!Job
  <2>2. job[id] = "pending" /\ job' = [job EXCEPT ![id] = "done"]
    BY <2>1 DEF Bq!JobRuns
  <2> QED BY <1>1, <2>1, <2>2
<1>5. CASE \E id \in Bq!JobIds : BqFailed(id)
  BY <1>1, <1>5 DEF BqFailed
<1> QED BY <1>2, <1>3, <1>4, <1>5, BqWorks

\* A job that is done stays so, and becomes so when it runs; one that is not
\* there is there once it is submitted.
LEMMA BqDoneGrows ==
  ASSUME Bq!BigQueryConstants, Bq!Typed, Bq!Stepped, Bq!Next, NEW r \in Bq!RunIds,
         NEW s \in Bq!Statements
  PROVE  /\ Bq!Is(r, s, "done") => Bq!Is(r, s, "done")'
         /\ Bq!Is(r, s, "done")' =>
              Bq!Is(r, s, "done") \/ \E id \in Bq!JobIds : Bq!JobRuns(id) /\ id[1] = r /\ id[2] = s
         /\ Bq!None(r, s) => Bq!None(r, s)' \/ (BqSubmitted /\ r = run /\ s = stmt)
         /\ Bq!None(r, s)' => Bq!None(r, s)
<1> DEFINE id(a) == <<r, s, a>>
<1>1. \A a \in 0..JobAttempts - 1 : id(a) \in Bq!JobIds /\ id(a)[1] = r /\ id(a)[2] = s
  BY DEF Bq!JobIds
<1>2. \A a \in 0..JobAttempts - 1 : id(a) = Bq!Job => r = run /\ s = stmt
  BY DEF Bq!Job
<1>3. \A a \in 0..JobAttempts - 1 :
        /\ job[id(a)] = "done" => job'[id(a)] = "done"
        /\ job[id(a)] # "absent" => job'[id(a)] # "absent"
        /\ job'[id(a)] # "absent" => job[id(a)] # "absent" \/ (BqSubmitted /\ id(a) = Bq!Job)
        /\ job'[id(a)] = "done" => job[id(a)] = "done" \/ Bq!JobRuns(id(a))
  BY <1>1, BqJobsGrow
<1>4. /\ Bq!Is(r, s, "done") <=> \E a \in 0..JobAttempts - 1 : job[id(a)] = "done"
      /\ Bq!Is(r, s, "done")' <=> \E a \in 0..JobAttempts - 1 : job'[id(a)] = "done"
      /\ Bq!None(r, s) <=> \A a \in 0..JobAttempts - 1 : job[id(a)] = "absent"
      /\ Bq!None(r, s)' <=> \A a \in 0..JobAttempts - 1 : job'[id(a)] = "absent"
  BY DEF Bq!Is, Bq!None
<1> HIDE DEF id
<1>5. Bq!Is(r, s, "done") => Bq!Is(r, s, "done")'
  BY <1>3, <1>4
<1>6. Bq!Is(r, s, "done")' => Bq!Is(r, s, "done")
      \/ \E i \in Bq!JobIds : Bq!JobRuns(i) /\ i[1] = r /\ i[2] = s
  BY <1>1, <1>3, <1>4
<1>7. Bq!None(r, s) => Bq!None(r, s)' \/ (BqSubmitted /\ r = run /\ s = stmt)
  BY <1>2, <1>3, <1>4
<1>8. Bq!None(r, s)' => Bq!None(r, s)
  BY <1>3, <1>4
<1> QED BY <1>5, <1>6, <1>7, <1>8

\* What the run's job being done says.
LEMMA BqJobDone ==
  ASSUME Bq!Typed, run > 0, job[Bq!Job] = "done"
  PROVE  Bq!Is(run, stmt, "done")
  BY BqCounters DEF Bq!Is, Bq!Job

\* What each step is of, after a step.
LEMMA BqSteppedStep ==
  ASSUME Bq!BigQueryConstants, Bq!Typed, Bq!Stepped, Bq!Next
  PROVE  Bq!Stepped'
<1>1. /\ sent \in 0..Len(batch) /\ Len(batch) \in Nat /\ run \in Nat /\ BqRowsPerCall \in Nat
      /\ BqRowsPerCall >= 1 /\ cfg' = cfg
      /\ batch \in Seq(Bq!Versions)
  BY BqCounters, BqBatchIs, BqLogStays, BqNumbers DEF Bq!Typed
<1>2. at' # "ok" => run' > 0
  BY <1>1, BqMoves DEF Bq!Stepped, BqStays, BqStarting, BqEnds, BqBegins, BqPolls, BqSees,
                       BqRetries, BqOpens, BqInserts, BqPromotings, BqDrops, BqSaves, BqSucceeds,
                       BqKept, Bq!Over
<1>3. Bq!Calling' /\ stmt' = "clone" => again' = 0 /\ sent' = 0
  BY <1>1, BqMoves DEF Bq!Stepped, Bq!Calling, BqStays, BqStarting, BqEnds, BqBegins, Bq!Begin,
                       BqPolls, BqSees, BqRetries, BqOpens, BqInserts, BqPromotings, BqDrops,
                       BqSaves, BqSucceeds, BqKept
<1>4. at' \in {"poll", "next"} => Bq!Job' = Bq!Job /\ (BqStays \/ BqPolls \/ BqSees)
  BY BqMoves DEF BqStays, BqStarting, BqEnds, BqBegins, Bq!Begin, Bq!Goto, BqPolls, BqSees,
                 BqRetries, BqOpens, BqInserts, BqPromotings, BqDrops, BqSaves, BqSucceeds, BqKept,
                 Bq!Job
<1>5. at' = "poll" => (job[Bq!Job])' # "absent"
  <2>1. SUFFICES ASSUME at' = "poll" PROVE job'[Bq!Job] # "absent"
    BY <1>4 DEF Bq!Job
  <2>2. CASE BqStays
    <3>1. at = "poll" /\ run > 0 /\ job[Bq!Job] # "absent"
      BY <1>1, <2>1, <2>2 DEF BqStays, Bq!Stepped
    <3> QED BY <3>1, BqJobThere, BqJobsGrow
  <2> QED BY <1>4, <2>1, <2>2 DEF BqPolls, BqSees
<1>6. at' = "next" => (job[Bq!Job])' = "done"
  <2>1. SUFFICES ASSUME at' = "next" PROVE job'[Bq!Job] = "done"
    BY <1>4 DEF Bq!Job
  <2>2. CASE BqStays
    <3>1. at = "next" /\ run > 0 /\ job[Bq!Job] = "done"
      BY <1>1, <2>1, <2>2 DEF BqStays, Bq!Stepped
    <3> QED BY <3>1, BqJobThere, BqJobsGrow
  <2> QED BY <1>4, <2>1, <2>2 DEF BqPolls, BqSees
<1>7. (Bq!Calling' \/ at' = "drop") /\ stmt' = "persist" => cfg'.promote = "merge" /\ at' # "drop"
  BY <1>1, BqMoves DEF Bq!Stepped, Bq!Calling, BqStays, BqStarting, BqEnds, BqBegins, Bq!Begin,
                       BqPolls, BqSees, BqRetries, BqOpens, BqInserts, BqPromotings, BqDrops,
                       BqSaves, BqSucceeds, BqKept
<1>8. /\ at' = "open" => sent' < Len(batch') /\ sent' % BqRowsPerCall = 0
      /\ at' = "append" => sent' < Len(batch')
      /\ at' = "finalize" => sent' > 0 /\ (sent' = Len(batch') \/ sent' % BqRowsPerCall = 0)
      /\ at' = "bounds" => sent' = Len(batch')
  <2>1. CASE BqStays
    BY <2>1 DEF BqStays, BqKept, Bq!Stepped
  <2>2. CASE BqOpens
    <3>1. sent' = 0 /\ batch' = batch /\ 0 % BqRowsPerCall = 0
      BY <1>1, <2>2 DEF BqOpens, BqKept, Bq!Stepped, Bq!Calling
    <3>2. batch = <<>> => Len(batch) = 0
      OBVIOUS
    <3>3. batch # <<>> => Len(batch) > 0
      BY <1>1, EmptySeq, LenProperties
    <3>4. at' = IF batch = <<>> THEN "bounds" ELSE "open"
      BY <2>2 DEF BqOpens
    <3> QED BY <3>1, <3>2, <3>3, <3>4
  <2>3. CASE BqInserts
    <3>1. batch' = batch
      BY <2>3 DEF BqInserts, BqKept
    <3>2. CASE Bq!OpenStream
      BY <3>1, <3>2 DEF Bq!OpenStream, Bq!Goto, Bq!Stepped
    <3>3. CASE Bq!TryAppend
      <4>1. at = "append" /\ sent < Len(batch)
        BY <3>3 DEF Bq!TryAppend, Bq!Stepped
      <4>2. PICK m \in Nat : /\ sent < m /\ m <= Bq!CallEnd /\ Bq!CallEnd <= Len(batch)
                                /\ Bq!CallEnd \in Nat
                             /\ Bq!CallEnd = Len(batch) \/ Bq!CallEnd % BqRowsPerCall = 0
                             /\ sent + Bq!Cardinality(Bq!Request) = m
        BY <4>1, BqRequestIs
      <4>3. sent' = m /\ at' = IF m = Bq!CallEnd THEN "finalize" ELSE "append"
        BY <3>3, <4>2 DEF Bq!TryAppend, Bq!AfterRequest, Bq!Goto
      <4>4. CASE m = Bq!CallEnd
        BY <1>1, <3>1, <4>2, <4>3, <4>4
      <4>5. CASE m # Bq!CallEnd
        BY <1>1, <3>1, <4>2, <4>3, <4>5
      <4> QED BY <4>4, <4>5
    <3>4. CASE Bq!FinalizeStream \/ Bq!FinalizeFails
      <4>1. at = "finalize" /\ sent' = sent
        BY <3>4 DEF Bq!FinalizeStream, Bq!FinalizeFails, Bq!writing
      <4>2. sent = Len(batch) \/ (sent < Len(batch) /\ sent % BqRowsPerCall = 0)
        BY <1>1, <4>1 DEF Bq!Stepped
      <4>3. at' = "cleanup" \/ at' = IF sent = Len(batch) THEN "bounds" ELSE "open"
        BY <3>4 DEF Bq!FinalizeStream, Bq!FinalizeFails, Bq!Goto
      <4> QED BY <1>1, <3>1, <4>1, <4>2, <4>3
    <3> QED BY <2>3, <3>2, <3>3, <3>4 DEF BqInserts
  <2> QED BY <2>1, <2>2, <2>3, BqMoves
          DEF BqStarting, BqEnds, BqBegins, Bq!Begin, Bq!Goto, BqPolls, BqSees, BqRetries,
              BqPromotings, BqDrops, BqSaves, BqSucceeds
<1> QED BY <1>2, <1>3, <1>5, <1>6, <1>7, <1>8 DEF Bq!Stepped

\* A table that is there is not Missing, where there is a version.
LEMMA BqTableThere ==
  ASSUME NEW V, NEW t \in [V -> Nat], NEW v \in V
  PROVE  t # Bq!Missing
<1>1. DOMAIN Bq!Missing = {}
  BY DEF Bq!Missing
<1> QED BY <1>1

\* What a job of a promotion has: staging as it was when the run promoted.
LEMMA BqPromotedIs ==
  ASSUME Bq!BigQueryConstants, Bq!Typed, Bq!Jobs, Bq!Once, NEW id \in Bq!JobIds, Bq!JobRuns(id),
         id[2] = "promote"
  PROVE  /\ id[1] \in Bq!RunIds /\ id[1] <= run /\ staging[id[1]] # Bq!Missing
         /\ staging[id[1]] \in [Bq!Versions -> Nat] /\ Bq!Fit(staging[id[1]], bounds[id[1]])
         /\ cfg.offsets /\ ~unsure => \A v \in Bq!Versions : staging[id[1]][v] <= 1
         /\ id[1] = run => Bq!Held(staging[id[1]]) = Bq!Whole
         /\ dest' = Bq!Promoted(id[1])
<1>1. id[1] \in Bq!RunIds /\ id[2] \in Bq!Statements /\ id[3] \in 0..JobAttempts - 1
      /\ id = <<id[1], id[2], id[3]>>
  BY DEF Bq!JobIds
<1>2. job[id] = "pending" /\ Bq!CanRun(id) /\ dest' = Bq!Promoted(id[1])
  BY DEF Bq!JobRuns
<1>3. staging[id[1]] # Bq!Missing
  BY <1>2 DEF Bq!CanRun
<1>4. staging[id[1]] \in [Bq!Versions -> Nat]
  BY <1>1, <1>3 DEF Bq!Typed
<1>5. ~Bq!None(id[1], "promote")
  BY <1>1, <1>2 DEF Bq!None
<1>6. id[1] <= run
  BY <1>2 DEF Bq!Jobs
<1> QED BY <1>1, <1>2, <1>3, <1>4, <1>5, <1>6 DEF Bq!Once, Bq!Promotable

\* A clone that runs is of a run that has promoted nothing.
LEMMA BqClonedIs ==
  ASSUME Bq!BigQueryConstants, Bq!Typed, Bq!Jobs, NEW id \in Bq!JobIds, Bq!JobRuns(id),
         id[2] = "clone"
  PROVE  /\ id[1] \in Bq!RunIds /\ id[1] <= run
         /\ ~Bq!Is(id[1], "clone", "done") /\ Bq!None(id[1], "promote")
         /\ staging' = [staging EXCEPT ![id[1]] = Bq!Empty]
<1>1. id[1] \in Bq!RunIds /\ id[2] \in Bq!Statements /\ id[3] \in 0..JobAttempts - 1
      /\ id = <<id[1], id[2], id[3]>>
  BY DEF Bq!JobIds
<1>2. job[id] = "pending" /\ staging' = [staging EXCEPT ![id[1]] = Bq!Empty]
  BY DEF Bq!JobRuns
<1>3. id[1] <= run /\ id[3] = 0
  BY <1>2 DEF Bq!Jobs
<1>4. ~Bq!Is(id[1], "clone", "done")
  <2>1. SUFFICES ASSUME NEW a \in 0..JobAttempts - 1, job[<<id[1], "clone", a>>] = "done"
                 PROVE  FALSE
    BY DEF Bq!Is
  <2>2. <<id[1], "clone", a>> \in Bq!JobIds
    BY <1>1 DEF Bq!JobIds, Bq!Statements
  <2>3. a = 0
    BY <2>1, <2>2 DEF Bq!Jobs
  <2> QED BY <1>1, <1>2, <1>3, <2>1, <2>3
<1>5. Bq!None(id[1], "promote")
  <2>1. SUFFICES ASSUME NEW a \in 0..JobAttempts - 1, job[<<id[1], "promote", a>>] # "absent"
                 PROVE  FALSE
    BY DEF Bq!None
  <2>2. <<id[1], "promote", a>> \in Bq!JobIds
    BY <1>1 DEF Bq!JobIds, Bq!Statements
  <2> QED BY <1>4, <2>1, <2>2 DEF Bq!Jobs
<1> QED BY <1>1, <1>2, <1>3, <1>4, <1>5

\* The tables keep their types.
LEMMA BqDestStep ==
  ASSUME Bq!BigQueryConstants, Bq!Typed, Bq!Stepped, Bq!Jobs, Bq!Once, Bq!OneRow, Bq!Next
  PROVE  dest' \in [Bq!Versions -> Nat]
         /\ (dest' # dest => \E id \in Bq!JobIds : Bq!JobRuns(id) /\ id[2] = "promote")
<1>1. cfg \in BqTransfers /\ dest \in [Bq!Versions -> Nat]
  BY BqCounters
<1>2. CASE dest' = dest
  BY <1>1, <1>2
<1>3. CASE dest' # dest
  <2>1. PICK id \in Bq!JobIds : Bq!JobRuns(id) /\ id[2] = "promote"
    BY <1>3, BqWorks DEF BqNoJobRuns, BqSubmitted, BqFailed, Bq!JobRuns
  <2>2. /\ staging[id[1]] \in [Bq!Versions -> Nat] /\ Bq!Fit(staging[id[1]], bounds[id[1]])
        /\ dest' = Bq!Promoted(id[1])
    BY <2>1, BqPromotedIs
  <2>3. CASE cfg.promote = "swap"
    BY <2>1, <2>2, <2>3 DEF Bq!Promoted
  <2>4. CASE cfg.promote # "swap"
    <3>1. cfg.promote = "merge" /\ BqSingleRows
      BY <1>1, <2>4, BqTransfer DEF Bq!OneRow, BqSingleRows
    <3>2. Bq!Merged(staging[id[1]], bounds[id[1]]) \in [Bq!Versions -> Nat]
      BY <1>1, <2>2, <3>1, BqMergeIs
    <3> QED BY <2>1, <2>2, <2>4, <3>2 DEF Bq!Promoted
  <2> QED BY <2>3, <2>4
<1> QED BY <1>2, <1>3

\* A table that was just made holds nothing.
LEMMA BqEmptyIs ==
  Bq!Empty \in [Bq!Versions -> Nat] /\ Bq!Held(Bq!Empty) = {}
  /\ \A v \in Bq!Versions : Bq!Empty[v] = 0
  BY DEF Bq!Empty, Bq!Held

\* A staging table is made by its clone, written by its run, or dropped.
LEMMA BqStagingStep ==
  ASSUME Bq!BigQueryConstants, Bq!Typed, Bq!Stepped, Bq!Jobs, Bq!Next
  PROVE  \A r \in Bq!RunIds :
           /\ staging'[r] = Bq!Missing \/ staging'[r] \in [Bq!Versions -> Nat]
           /\ \/ staging'[r] = staging[r]
              \/ staging'[r] = Bq!Missing
              \/ r = run /\ (Bq!TryAppend \/ Bq!AppendFails)
              \/ staging'[r] = Bq!Empty
                 /\ \E id \in Bq!JobIds : Bq!JobRuns(id) /\ id[1] = r /\ id[2] = "clone"
<1> SUFFICES ASSUME NEW r \in Bq!RunIds
             PROVE  /\ staging'[r] = Bq!Missing \/ staging'[r] \in [Bq!Versions -> Nat]
                    /\ \/ staging'[r] = staging[r]
                       \/ staging'[r] = Bq!Missing
                       \/ r = run /\ (Bq!TryAppend \/ Bq!AppendFails)
                       \/ staging'[r] = Bq!Empty
                          /\ \E id \in Bq!JobIds : Bq!JobRuns(id) /\ id[1] = r /\ id[2] = "clone"
  OBVIOUS
<1>1. DOMAIN staging = Bq!RunIds /\ (staging[r] = Bq!Missing \/ staging[r] \in [Bq!Versions -> Nat])
  BY DEF Bq!Typed
<1>2. CASE staging' = staging
  BY <1>1, <1>2
<1>3. CASE Bq!DropStaging \/ Bq!Cleanup
  <2>1. staging' = staging \/ staging' = [staging EXCEPT ![run] = Bq!Missing]
    BY <1>3 DEF Bq!DropStaging, Bq!Cleanup
  <2> QED BY <1>1, <2>1
<1>4. CASE Bq!TryAppend \/ Bq!AppendFails
  <2>1. staging' = staging \/ Bq!Store
    BY <1>4 DEF Bq!TryAppend, Bq!AppendFails, Bq!Stored, Bq!Refuse
  <2>2. CASE Bq!Store
    <3>1. staging[run] # Bq!Missing /\ staging' = [staging EXCEPT ![run] = Bq!Adding(@, Bq!Request)]
      BY <2>2 DEF Bq!Store
    <3>2. CASE r = run
      <4>1. staging[r] \in [Bq!Versions -> Nat] /\ staging'[r] = Bq!Adding(staging[r], Bq!Request)
        BY <1>1, <3>1, <3>2
      <4> QED BY <1>4, <3>2, <4>1, BqAddingIs
    <3> QED BY <1>1, <3>1, <3>2
  <2> QED BY <1>2, <2>1, <2>2
<1>5. CASE \E id \in Bq!JobIds : Bq!JobRuns(id) /\ id[2] = "clone"
  <2>1. PICK id \in Bq!JobIds : Bq!JobRuns(id) /\ id[2] = "clone"
    BY <1>5
  <2>2. staging' = [staging EXCEPT ![id[1]] = Bq!Empty]
    BY <2>1, BqClonedIs
  <2> QED BY <1>1, <2>1, <2>2, BqEmptyIs
<1> QED BY <1>2, <1>3, <1>4, <1>5, BqChanges

\* The state table, and its newest row.
LEMMA BqStateStep ==
  ASSUME Bq!BigQueryConstants, Bq!Typed, Bq!Stepped, Bq!Jobs, Bq!Next
  PROVE  /\ saved' \in Seq(Nat)
         /\ \A i \in DOMAIN saved' :
              (\E j \in DOMAIN saved : saved'[i] = saved[j])
              \/ \E id \in Bq!JobIds : Bq!JobRuns(id) /\ id[2] = "persist" /\ saved'[i] = id[1]
         /\ Bq!Cursor' = Bq!Cursor
            \/ \E id \in Bq!JobIds : Bq!JobRuns(id) /\ id[2] = "persist" /\ Bq!Cursor' = id[1]
         /\ \A id \in Bq!JobIds : Bq!JobRuns(id) /\ id[2] = "persist" => Bq!Cursor' = id[1]
<1>1. saved \in Seq(Nat)
  BY DEF Bq!Typed
<1>2. ASSUME NEW id \in Bq!JobIds, Bq!JobRuns(id), id[2] = "persist"
      PROVE  /\ saved' \in Seq(Nat) /\ Bq!Cursor' = id[1]
             /\ \A i \in DOMAIN saved' : (\E j \in DOMAIN saved : saved'[i] = saved[j])
                \/ saved'[i] = id[1]
  <2>1. saved' = Append(saved, id[1]) /\ id[1] \in Nat
    BY <1>2 DEF Bq!JobRuns, Bq!JobIds, Bq!RunIds
  <2>2. /\ saved' \in Seq(Nat) /\ Len(saved') = Len(saved) + 1 /\ Len(saved) \in Nat
        /\ \A i \in 1..Len(saved) : saved'[i] = saved[i]
        /\ saved'[Len(saved) + 1] = id[1]
    BY <1>1, <2>1, AppendProperties, LenProperties
  <2>3. DOMAIN saved' = 1..Len(saved') /\ DOMAIN saved = 1..Len(saved)
    BY <1>1, <2>2, LenProperties
  <2>4. saved' # <<>>
    BY <2>2
  <2>5. Bq!Cursor' = id[1]
    BY <2>2, <2>4 DEF Bq!Cursor
  <2>6. \A i \in DOMAIN saved' : (\E j \in DOMAIN saved : saved'[i] = saved[j]) \/ saved'[i] = id[1]
    <3>1. \A i \in 1..(Len(saved) + 1) : i \in 1..Len(saved) \/ i = Len(saved) + 1
      BY <2>2
    <3> QED BY <2>2, <2>3, <3>1
  <2> QED BY <2>2, <2>5, <2>6
<1>3. CASE saved' = saved
  <2>1. Bq!Cursor' = Bq!Cursor
    BY <1>3 DEF Bq!Cursor
  <2> QED BY <1>1, <1>2, <1>3, <2>1
<1>4. CASE Bq!CompactState
  <2>1. Bq!StaleRows # {} /\ Len(saved) \in Nat /\ DOMAIN saved = 1..Len(saved)
    BY <1>1, <1>4, LenProperties DEF Bq!CompactState
  <2>2. Len(saved) \in DOMAIN saved
    <3>1. PICK i \in DOMAIN saved : TRUE
      BY <2>1 DEF Bq!StaleRows
    <3> QED BY <2>1, <3>1
  <2>3. Len(saved) \notin Bq!StaleRows
    <3>1. \A j \in DOMAIN saved : ~(j > Len(saved))
      BY <2>1
    <3> QED BY <3>1 DEF Bq!StaleRows
  <2>4. saved' = <<saved[Len(saved)]>>
    BY <1>4, <2>2, <2>3 DEF Bq!CompactState
  <2>5. saved[Len(saved)] \in Nat
    BY <1>1, <2>1, <2>2, ElementOfSeq
  <2>6. saved' \in Seq(Nat) /\ DOMAIN saved' = {1} /\ saved'[1] = saved[Len(saved)]
        /\ Len(saved') = 1
    BY <2>4, <2>5
  <2>7. saved # <<>> /\ saved' # <<>>
    <3>1. Len(<<>>) = 0 /\ DOMAIN <<>> = {}
      OBVIOUS
    <3> QED BY <2>2, <2>6, <3>1
  <2>8. Bq!Cursor' = Bq!Cursor
    BY <2>6, <2>7 DEF Bq!Cursor
  <2> QED BY <1>2, <2>2, <2>6, <2>8
<1> QED BY <1>2, <1>3, <1>4, BqChanges

\* Every variable keeps its type, and the batch its order.
LEMMA BqTypedStep ==
  ASSUME Bq!BigQueryConstants, Bq!Typed, Bq!Stepped, Bq!Jobs, Bq!Once, Bq!OneRow, Bq!Next
  PROVE  Bq!Typed'
<1>1. cfg' = cfg /\ Bq!Versions' = Bq!Versions /\ Bq!RunIds' = Bq!RunIds /\ Bq!JobIds' = Bq!JobIds
      /\ run \in Nat
  BY BqLogStays, BqCounters, BqNumbers DEF Bq!RunIds, Bq!JobIds
<1>2. stream' \in Nat
  <2>1. stream \in Nat
    BY BqCounters
  <2>2. CASE Bq!EnsureState \/ Bq!OpenStream
    BY <2>1, <2>2 DEF Bq!EnsureState, Bq!Begin, Bq!OpenStream, Bq!writing
  <2>3. CASE Bq!TryAppend \/ Bq!AppendFails
    <3>1. at = "append"
      BY <2>3 DEF Bq!TryAppend, Bq!AppendFails
    <3>2. stream' = stream \/ stream' = stream + Bq!Cardinality(Bq!Request)
      BY <2>3 DEF Bq!TryAppend, Bq!AppendFails, Bq!Stored, Bq!Refuse, Bq!Store
    <3>3. Bq!Cardinality(Bq!Request) \in Nat
      <4>1. PICK m \in Nat : sent < m /\ Bq!Cardinality(Bq!Request) = m - sent
        BY <3>1, BqRequestIs DEF Bq!Stepped
      <4> QED BY <4>1, BqBatchIs
    <3> QED BY <2>1, <3>2, <3>3
  <2> QED BY <2>1, <2>2, <2>3, BqChanges
<1>3. Bq!TypeOK'
  <2>1. job' \in [Bq!JobIds -> {"absent", "pending", "done", "failed", "limited"}]
    BY BqJobsGrow
  <2>2. dest' \in [Bq!Versions -> Nat]
    BY BqDestStep
  <2> QED BY <1>1, <1>2, <2>1, <2>2, BqCountersStep, BqSentStep, BqCounters DEF Bq!TypeOK
<1>a. DOMAIN staging' = Bq!RunIds /\ DOMAIN bounds' = Bq!RunIds
  <2>1. DOMAIN staging = Bq!RunIds /\ DOMAIN bounds = Bq!RunIds
    BY DEF Bq!Typed
  <2>2. DOMAIN bounds' = Bq!RunIds
    BY <2>1, BqChanges DEF Bq!ProbeStaging, Bq!ProbeFails
  <2>3. DOMAIN staging' = Bq!RunIds
    BY <2>1, BqChanges DEF Bq!DropStaging, Bq!Cleanup, Bq!TryAppend, Bq!AppendFails, Bq!Stored,
                           Bq!Refuse, Bq!Store, Bq!JobRuns
  <2> QED BY <2>2, <2>3
<1>4. \A i \in DOMAIN saved' : saved'[i] \in 0..run'
  <2>1. run' = run \/ run' = run + 1
    BY BqMoves DEF BqStays, BqStarting, BqEnds, BqBegins, BqPolls, BqSees, BqRetries, BqOpens,
                   BqInserts, BqPromotings, BqDrops, BqSaves, BqSucceeds, BqKept
  <2>2. \A j \in DOMAIN saved : saved[j] \in 0..run
    BY DEF Bq!Typed
  <2>3. \A id \in Bq!JobIds : Bq!JobRuns(id) => id[1] \in 0..run
    <3>1. SUFFICES ASSUME NEW id \in Bq!JobIds, Bq!JobRuns(id) PROVE id[1] \in 0..run
      OBVIOUS
    <3>2. job[id] = "pending" /\ id[1] \in 1..BqRuns
      BY <3>1 DEF Bq!JobRuns, Bq!JobIds, Bq!RunIds
    <3>3. id[1] <= run
      BY <3>2 DEF Bq!Jobs
    <3> QED BY <1>1, <3>2, <3>3, BqNumbers
  <2> QED BY <1>1, <2>1, <2>2, <2>3, BqStateStep
<1> QED BY <1>1, <1>3, <1>4, <1>a, BqCountersStep, BqBatchStep, BqStagingStep, BqStateStep
        DEF Bq!Typed

-----------------------------------------------------------------------------
(* The jobs after a step.                                                  *)

\* A run that has not started has no jobs.
LEMMA BqNoneLater ==
  ASSUME Bq!Jobs, run \in Nat, NEW r \in Bq!RunIds, r > run, NEW s \in Bq!Statements
  PROVE  Bq!None(r, s)
<1>1. SUFFICES ASSUME NEW a \in 0..JobAttempts - 1, job[<<r, s, a>>] # "absent"
               PROVE  FALSE
  BY DEF Bq!None
<1>2. <<r, s, a>> \in Bq!JobIds
  BY DEF Bq!JobIds
<1>3. r <= run
  BY <1>1, <1>2 DEF Bq!Jobs
<1> QED BY <1>3 DEF Bq!RunIds

\* No run promotes what it has not cloned or saves what it has not promoted.
LEMMA BqJobsStep ==
  ASSUME Bq!BigQueryConstants, Bq!Typed, Bq!Stepped, Bq!Jobs, Bq!Next
  PROVE  Bq!Jobs'
<1> USE DEF Bq!Statements
<1>1. /\ run \in Nat /\ cfg' = cfg /\ Bq!JobIds' = Bq!JobIds /\ Bq!RunIds' = Bq!RunIds
      /\ run' = run \/ (BqStarting /\ run' = run + 1)
  BY BqCounters, BqLogStays, BqMoves, BqNumbers
     DEF BqStays, BqStarting, BqEnds, BqBegins, BqPolls, BqSees, BqRetries, BqOpens, BqInserts,
         BqPromotings, BqDrops, BqSaves, BqSucceeds, BqKept, Bq!RunIds, Bq!JobIds
<1>2. run > 0 => run \in Bq!RunIds
  BY BqJobThere
<1>3. run' > 0 => run' \in Bq!RunIds
  BY <1>1, BqCountersStep, BqNumbers DEF Bq!RunIds
<1>4. \A id \in Bq!JobIds : id[1] \in Bq!RunIds /\ id[2] \in Bq!Statements
      /\ id[3] \in 0..JobAttempts - 1
  BY DEF Bq!JobIds
<1>5. ASSUME NEW id \in Bq!JobIds, job'[id] # "absent"
      PROVE  /\ id[1] <= run'
             /\ id[2] = "clone" => id[3] = 0
             /\ id[2] = "promote" => Bq!Is(id[1], "clone", "done")'
             /\ id[2] = "persist" => cfg'.promote = "merge" /\ Bq!Is(id[1], "promote", "done")'
  <2>1. /\ Bq!Is(id[1], "clone", "done") => Bq!Is(id[1], "clone", "done")'
        /\ Bq!Is(id[1], "promote", "done") => Bq!Is(id[1], "promote", "done")'
    BY <1>4, BqDoneGrows
  <2>2. CASE job[id] # "absent"
    <3>1. id[1] <= run' /\ id[1] \in Nat
      <4>1. id[1] <= run /\ id[1] \in Nat
        BY <1>4, <2>2 DEF Bq!Jobs, Bq!RunIds
      <4> QED BY <1>1, <4>1
    <3> QED BY <1>1, <2>1, <2>2, <3>1 DEF Bq!Jobs
  <2>3. CASE BqSubmitted /\ id = Bq!Job
    <3>1. at = "submit" /\ run > 0 /\ run' = run /\ id[1] = run /\ id[2] = stmt /\ id[3] = again
      BY <2>3 DEF BqSubmitted, Bq!Stepped, Bq!Job
    <3>2. id[1] <= run'
      BY <1>1, <3>1
    <3>3. stmt = "clone" => again = 0
      BY <3>1 DEF Bq!Stepped, Bq!Calling
    <3>4. stmt = "promote" => Bq!Is(run, "clone", "done")
      BY <3>1 DEF Bq!Jobs, Bq!Cloned, Bq!Calling
    <3>5. stmt = "persist" => cfg.promote = "merge" /\ Bq!Is(run, "promote", "done")
      BY <3>1 DEF Bq!Jobs, Bq!Promotes, Bq!Stepped, Bq!Calling
    <3> QED BY <1>1, <2>1, <3>1, <3>2, <3>3, <3>4, <3>5
  <2> QED BY <1>5, <2>2, <2>3, BqJobsGrow
<1>6. ASSUME run' = run, run > 0
      PROVE  /\ \A s \in Bq!Statements : Bq!Is(run, s, "done") => Bq!Is(run, s, "done")'
             /\ \A s \in Bq!Statements : Bq!None(run, s) =>
                Bq!None(run, s)' \/ (BqSubmitted /\ s = stmt)
  <2>1. \A s \in Bq!Statements : /\ Bq!Is(run, s, "done") => Bq!Is(run, s, "done")'
                                 /\ Bq!None(run, s) => Bq!None(run, s)' \/ (BqSubmitted /\ s = stmt)
    BY <1>2, <1>6, BqDoneGrows
  <2> QED BY <1>6, <2>1 DEF Bq!Is, Bq!None
<1>7. at' = "state" => \A s \in Bq!Statements : Bq!None(run, s)'
  <2>1. CASE BqStarting
    <3>1. run' = run + 1 /\ run' \in Bq!RunIds /\ job' = job
      BY <1>1, <1>3, <2>1 DEF BqStarting
    <3>2. \A s \in Bq!Statements : Bq!None(run + 1, s)
      BY <1>1, <3>1, BqNoneLater
    <3> QED BY <3>1, <3>2 DEF Bq!None
  <2>2. CASE BqStays
    <3>1. SUFFICES ASSUME at = "state" PROVE \A s \in Bq!Statements : Bq!None(run, s)'
      BY <2>2 DEF BqStays
    <3>2. run > 0 /\ run' = run /\ ~BqSubmitted
      BY <2>2, <3>1 DEF BqStays, BqKept, Bq!Stepped, BqSubmitted
    <3> QED BY <1>6, <3>1, <3>2 DEF Bq!Jobs
  <2> QED BY <2>1, <2>2, BqMoves DEF BqEnds, BqBegins, Bq!Begin, Bq!Goto, BqPolls, BqSees,
                                     BqRetries, BqOpens, BqInserts, BqPromotings, BqDrops, BqSaves,
                                     BqSucceeds
<1>8. Bq!Cloned' => Bq!Is(run, "clone", "done")'
  <2>1. SUFFICES ASSUME Bq!Cloned', ~BqStarting PROVE Bq!Is(run, "clone", "done")'
    BY DEF BqStarting, Bq!Cloned, Bq!Inserting, Bq!Calling
  <2>2. run' = run /\ run > 0
    BY <1>1, <2>1, BqMoves DEF Bq!Stepped, Bq!Cloned, Bq!Inserting, Bq!Calling, BqStays,
                               BqStarting, BqEnds, BqBegins, BqPolls, BqSees, BqRetries, BqOpens,
                               BqInserts, BqPromotings, BqDrops, BqSaves, BqSucceeds, BqKept
  <2>3. Bq!Cloned \/ BqSees
    BY <2>1, BqMoves DEF Bq!Cloned, Bq!Inserting, Bq!Calling, BqStays, BqStarting, BqEnds,
                         BqBegins, Bq!Begin, Bq!Goto, BqPolls, BqSees, BqRetries, BqOpens,
                         BqInserts, BqPromotings, BqDrops, BqSaves, BqSucceeds
  <2>4. Bq!Is(run, "clone", "done")
    <3>1. CASE Bq!Cloned
      BY <3>1 DEF Bq!Jobs
    <3>2. CASE BqSees /\ ~Bq!Cloned
      BY <2>2, <3>2, BqJobDone, BqCounters DEF BqSees, Bq!Cloned, Bq!Calling
    <3> QED BY <2>3, <3>1, <3>2
  <2> QED BY <1>6, <2>2, <2>4
<1>9. Bq!Before' => Bq!None(run, "promote")'
  <2>1. CASE at' = "state"
    BY <1>7, <2>1
  <2>2. CASE at' # "state"
    <3>1. SUFFICES ASSUME Bq!Before' PROVE Bq!None(run, "promote")'
      OBVIOUS
    <3>2. run' = run /\ run > 0
      BY <1>1, <2>2, <3>1, BqMoves DEF Bq!Stepped, Bq!Before, Bq!Inserting, Bq!Calling, BqStays,
                                       BqStarting, BqEnds, BqBegins, BqPolls, BqSees, BqRetries,
                                       BqOpens, BqInserts, BqPromotings, BqDrops, BqSaves,
                                       BqSucceeds, BqKept
    <3>3. Bq!Before
      BY <2>2, <3>1, BqMoves DEF Bq!Before, Bq!Inserting, Bq!Calling, BqStays, BqStarting, BqEnds,
                                 BqBegins, Bq!Begin, Bq!Goto, BqPolls, BqSees, BqRetries, BqOpens,
                                 BqInserts, BqPromotings, BqDrops, BqSaves, BqSucceeds
    <3>4. ~(BqSubmitted /\ stmt = "promote")
      BY <3>3 DEF BqSubmitted, Bq!Before, Bq!Inserting, Bq!Calling
    <3> QED BY <1>6, <3>2, <3>3, <3>4 DEF Bq!Jobs
  <2> QED BY <2>1, <2>2
<1>10. Bq!Promotes' => Bq!Is(run, "promote", "done")'
  <2>1. SUFFICES ASSUME Bq!Promotes', ~BqStarting PROVE Bq!Is(run, "promote", "done")'
    BY DEF BqStarting, Bq!Promotes, Bq!Calling
  <2>2. run' = run /\ run > 0
    BY <1>1, <2>1, BqMoves DEF Bq!Stepped, Bq!Promotes, Bq!Calling, BqStays, BqStarting, BqEnds,
                               BqBegins, BqPolls, BqSees, BqRetries, BqOpens, BqInserts,
                               BqPromotings, BqDrops, BqSaves, BqSucceeds, BqKept
  <2>3. Bq!Promotes \/ (BqSees /\ stmt = "promote")
    BY <2>1, BqMoves DEF Bq!Promotes, Bq!Calling, BqStays, BqStarting, BqEnds, BqBegins, Bq!Begin,
                         Bq!Goto, BqPolls, BqSees, BqRetries, BqOpens, BqInserts, BqPromotings,
                         BqDrops, BqSaves, BqSucceeds
  <2>4. Bq!Is(run, "promote", "done")
    <3>1. CASE Bq!Promotes
      BY <3>1 DEF Bq!Jobs
    <3>2. CASE BqSees /\ stmt = "promote"
      BY <2>2, <3>2, BqJobDone DEF BqSees
    <3> QED BY <2>3, <3>1, <3>2
  <2> QED BY <1>6, <2>2, <2>4
<1>11. at' = "ok" /\ run' > 0 =>
         IF cfg'.promote = "merge" THEN Bq!Is(run, "persist", "done")' ELSE Bq!Is(run, "promote",
         "done")'
  <2>1. SUFFICES ASSUME at' = "ok", run' > 0
                 PROVE  IF cfg'.promote = "merge" THEN Bq!Is(run, "persist",
                        "done")' ELSE Bq!Is(run, "promote", "done")'
    OBVIOUS
  <2>2. (BqStays \/ BqSucceeds) /\ run' = run
    BY <2>1, BqMoves DEF BqStays, BqStarting, BqEnds, BqBegins, Bq!Begin, Bq!Goto, BqPolls, BqSees,
                         BqRetries, BqOpens, BqInserts, BqPromotings, BqDrops, BqSaves, BqSucceeds,
                         BqKept
  <2>3. IF cfg.promote = "merge" THEN Bq!Is(run, "persist", "done") ELSE Bq!Is(run, "promote",
        "done")
    <3>1. CASE BqStays
      BY <2>1, <2>2, <3>1 DEF BqStays, Bq!Jobs
    <3>2. CASE BqSucceeds /\ at = "next"
      <4>1. stmt = "persist" /\ cfg.promote = "merge" /\ job[Bq!Job] = "done"
        BY <3>2 DEF BqSucceeds, Bq!Stepped, Bq!Calling
      <4> QED BY <2>1, <2>2, <4>1, BqJobDone
    <3>3. CASE BqSucceeds /\ at # "next"
      <4>1. at = "drop" /\ cfg.promote # "merge"
        BY <3>3 DEF BqSucceeds
      <4> QED BY <4>1 DEF Bq!Jobs, Bq!Promotes
    <3> QED BY <2>2, <3>1, <3>2, <3>3
  <2> QED BY <1>1, <1>6, <2>1, <2>2, <2>3
<1>12. \A id \in Bq!JobIds' : (job[id])' # "absent" =>
             /\ id[1] <= run'
             /\ id[2] = "clone" => id[3] = 0
             /\ id[2] = "promote" => Bq!Is(id[1], "clone", "done")'
             /\ id[2] = "persist" => cfg'.promote = "merge" /\ Bq!Is(id[1], "promote", "done")'
  BY <1>1, <1>5
<1> QED BY <1>7, <1>8, <1>9, <1>10, <1>11, <1>12 DEF Bq!Jobs

-----------------------------------------------------------------------------
(* The inserts.                                                            *)

\* An insert that is made: what staging holds then, and what the stream.
LEMMA BqInsertIs ==
  ASSUME Bq!BigQueryConstants, Bq!Typed, Bq!Stepped, Bq!Staged, Bq!Counted, at = "append", Bq!Stored
  PROVE  /\ staging'[run] \in [Bq!Versions -> Nat]
         /\ Bq!Held(staging'[run]) = Bq!Sent \cup Bq!Request
         /\ cfg.offsets /\ cfg.honours => stream' = Bq!Offset + Bq!Cardinality(Bq!Request)
         /\ cfg.offsets /\ ~unsure =>
              /\ stream' >= Bq!Offset + Bq!Cardinality(Bq!Request)
              /\ (\E v \in Bq!Versions : staging'[run][v] > 1) =>
                 stream' > Bq!Offset + Bq!Cardinality(Bq!Request)
<1> DEFINE c == Bq!Cardinality(Bq!Request)
           t == staging[run]
<1>1. /\ run \in Bq!RunIds /\ DOMAIN staging = Bq!RunIds /\ t \in [Bq!Versions -> Nat]
      /\ Bq!Held(t) \in {Bq!Sent, Bq!Sent \cup Bq!Request}
      /\ sent < Len(batch) /\ stream \in Nat
  BY BqJobThere, BqCounters DEF Bq!Stepped, Bq!Staged, Bq!Inserting, Bq!Typed
<1>2. c \in Nat /\ c >= 1 /\ Bq!Offset \in Nat
  <2>1. PICK m \in Nat : sent < m /\ Bq!Cardinality(Bq!Request) = m - sent /\ Bq!Offset \in Nat
    BY <1>1, BqRequestIs
  <2> QED BY <2>1, BqBatchIs
<1>3. Bq!Request \subseteq Bq!Versions /\ Bq!Request \cap Bq!Sent = {}
      /\ ~(Bq!Request \subseteq Bq!Sent)
  BY <1>1, BqRequestNew
<1>4. Bq!Request \subseteq Bq!Held(t) <=> Bq!Held(t) = Bq!Sent \cup Bq!Request
  BY <1>1, <1>3
<1>5. ~(Bq!Request \subseteq Bq!Held(t)) => Bq!Held(t) = Bq!Sent
  BY <1>1, <1>4
<1>6. Bq!Now = IF Bq!Request \subseteq Bq!Held(t) THEN c ELSE 0
  BY DEF Bq!Now
<1>7. /\ cfg.offsets /\ cfg.honours => stream = Bq!Offset + Bq!Now
      /\ cfg.offsets /\ ~unsure =>
         stream >= Bq!Offset + Bq!Now /\ (Bq!Dup => stream > Bq!Offset + Bq!Now)
  BY DEF Bq!Counted
<1>8. Bq!Dup <=> \E v \in Bq!Versions : t[v] > 1
  BY DEF Bq!Dup
<1> HIDE DEF c, t
<1>9. CASE Bq!Store /\ ~(Bq!Repeated /\ cfg.honours /\ cfg.offsets)
  <2>1. staging'[run] = Bq!Adding(t, Bq!Request) /\ stream' = stream + c
    BY <1>1, <1>9 DEF Bq!Store, t, c
  <2>2. /\ Bq!Adding(t, Bq!Request) \in [Bq!Versions -> Nat]
        /\ \A v \in Bq!Versions : Bq!Adding(t,
           Bq!Request)[v] = IF v \in Bq!Request THEN t[v] + 1 ELSE t[v]
        /\ Bq!Held(Bq!Adding(t, Bq!Request)) = Bq!Held(t) \cup Bq!Request
        /\ \A v \in Bq!Versions : v \in Bq!Held(t) <=> t[v] > 0
    BY <1>1, <1>3, BqAddingIs
  <2>3. Bq!Held(staging'[run]) = Bq!Sent \cup Bq!Request
    BY <1>1, <2>1, <2>2
  <2>4. ASSUME cfg.offsets, cfg.honours
        PROVE  stream' = Bq!Offset + c
    <3>1. ~(stream > Bq!Offset)
      BY <1>9, <2>4 DEF Bq!Repeated
    <3>2. stream = Bq!Offset
      BY <1>1, <1>2, <1>6, <1>7, <2>4, <3>1
    <3> QED BY <2>1, <3>2
  <2>5. ASSUME cfg.offsets, ~unsure
        PROVE  /\ stream' >= Bq!Offset + c
               /\ (\E v \in Bq!Versions : staging'[run][v] > 1) => stream' > Bq!Offset + c
    <3>1. CASE Bq!Request \subseteq Bq!Held(t)
      <4>1. stream >= Bq!Offset + c
        BY <1>6, <1>7, <2>5, <3>1
      <4> QED BY <1>1, <1>2, <2>1, <4>1
    <3>2. CASE ~(Bq!Request \subseteq Bq!Held(t))
      <4>1. stream >= Bq!Offset /\ (Bq!Dup => stream > Bq!Offset)
        BY <1>2, <1>6, <1>7, <2>5, <3>2
      <4>2. ASSUME NEW v \in Bq!Versions, staging'[run][v] > 1
            PROVE  Bq!Dup
        <5>1. t[v] \in Nat /\ staging'[run][v] = IF v \in Bq!Request THEN t[v] + 1 ELSE t[v]
          BY <1>1, <2>1, <2>2
        <5>2. v \in Bq!Request => t[v] = 0
          <6>1. v \in Bq!Request => v \notin Bq!Held(t)
            BY <1>3, <1>5, <3>2
          <6> QED BY <2>2, <5>1, <6>1
        <5>3. t[v] > 1
          BY <4>2, <5>1, <5>2
        <5> QED BY <1>8, <5>3
      <4> QED BY <1>1, <1>2, <2>1, <4>1, <4>2
    <3> QED BY <3>1, <3>2
  <2> QED BY <2>1, <2>2, <2>3, <2>4, <2>5 DEF c
<1>10. CASE Bq!Refuse /\ Bq!Repeated /\ cfg.honours
  <2>1. staging'[run] = t /\ stream' = stream
    BY <1>10 DEF Bq!Refuse, t
  <2>2. Bq!Request \subseteq Bq!Held(t)
    <3>1. CASE cfg.offsets
      <4>1. stream > Bq!Offset
        BY <1>10, <3>1 DEF Bq!Repeated
      <4>2. Bq!Now # 0
        BY <1>1, <1>2, <1>7, <1>10, <3>1, <4>1
      <4> QED BY <1>6, <4>2
    <3>2. CASE ~cfg.offsets
      BY <1>10, <3>2 DEF Bq!Repeated, t
    <3> QED BY <3>1, <3>2
  <2>3. Bq!Held(staging'[run]) = Bq!Sent \cup Bq!Request
    BY <1>4, <2>1, <2>2
  <2>4. Bq!Now = c
    BY <1>6, <2>2
  <2> QED BY <1>1, <1>2, <1>7, <1>8, <1>10, <2>1, <2>3, <2>4 DEF c
<1> QED BY <1>9, <1>10 DEF Bq!Stored

\* A request that is not the last of a batch has a row.
LEMMA BqMoreThan ==
  ASSUME NEW n \in Nat, NEW l \in Nat, n < l, NEW r \in Nat, r >= 1, NEW q \in Nat, q >= 1
  PROVE  /\ Bq!Min({n + q, Bq!Min({((n \div r) + 1) * r, l})}) \in Nat
         /\ Bq!Min({n + q, Bq!Min({((n \div r) + 1) * r, l})}) > n
<1> DEFINE top == ((n \div r) + 1) * r
           o == n % r
           end == Bq!Min({top, l})
           m == Bq!Min({n + q, end})
<1>1. o \in Nat /\ o < r /\ top \in Nat /\ top = n - o + r
  BY BqPlaces
<1> HIDE DEF top, o
<1>2. top > n
  BY <1>1
<1>3. end = IF top <= l THEN top ELSE l
  BY <1>1, BqMinOfTwo
<1> HIDE DEF end
<1>4. end \in Nat /\ end > n
  BY <1>1, <1>2, <1>3
<1>5. m = IF n + q <= end THEN n + q ELSE end
  <2>1. n + q \in Int /\ end \in Int
    BY <1>4
  <2> QED BY <2>1, BqMinOfTwo
<1> HIDE DEF m
<1>6. m \in Nat /\ m > n
  BY <1>4, <1>5
<1> QED BY <1>6 DEF m, end, top

\* The first place past n.
LEMMA BqFirstOf ==
  ASSUME NEW n \in Nat, NEW m \in Nat, m > n, NEW l \in Nat, n < l
  PROVE  n + 1 \in (n + 1)..m /\ n + 1 \in 1..l /\ \A i \in 1..n : i \in 1..l /\ i # n + 1
  OBVIOUS

\* What the next request starts with.
LEMMA BqFirstOfNext ==
  ASSUME Bq!BigQueryConstants, Bq!Typed, NEW n \in Nat, n < Len(batch), n = sent', batch' = batch
  PROVE  ~(Bq!Request' \subseteq Bq!Sent')
<1> DEFINE m == Bq!Min({n + RowsPerRequest,
    Bq!Min({((n \div BqRowsPerCall) + 1) * BqRowsPerCall, Len(batch)})})
<1>1. /\ Len(batch) \in Nat /\ \A i, j \in 1..Len(batch) : batch[i] = batch[j] => i = j
      /\ BqRowsPerCall \in Nat /\ BqRowsPerCall >= 1 /\ RowsPerRequest \in Nat
         /\ RowsPerRequest >= 1
  BY BqBatchIs, BqNumbers
<1>2. Bq!Request' = {batch[i] : i \in (n + 1)..m} /\ Bq!Sent' = {batch[i] : i \in 1..n}
  BY DEF Bq!Request, Bq!CallEnd, Bq!Sent
<1>3. m \in Nat /\ m > n
  BY <1>1, BqMoreThan
<1> HIDE DEF m
<1>4. /\ n + 1 \in (n + 1)..m /\ n + 1 \in 1..Len(batch)
      /\ \A i \in 1..n : i \in 1..Len(batch) /\ i # n + 1
  BY <1>1, <1>3, BqFirstOf
<1>5. batch[n + 1] \in Bq!Request'
  BY <1>2, <1>4
<1>6. batch[n + 1] \notin Bq!Sent'
  BY <1>1, <1>2, <1>4
<1> QED BY <1>5, <1>6

\* The staging table of a run that has cloned it, where nothing is inserted and
\* it is not dropped.
LEMMA BqStagingKept ==
  ASSUME Bq!BigQueryConstants, Bq!Typed, Bq!Stepped, Bq!Jobs, Bq!Next, run \in Bq!RunIds, Bq!Cloned,
         ~Bq!DropStaging, ~Bq!Cleanup, ~Bq!TryAppend, ~Bq!AppendFails
  PROVE  staging'[run] = staging[run]
<1>1. CASE staging' = staging
  BY <1>1
<1>2. CASE \E id \in Bq!JobIds : Bq!JobRuns(id) /\ id[2] = "clone"
  <2>1. PICK id \in Bq!JobIds : Bq!JobRuns(id) /\ id[2] = "clone"
    BY <1>2
  <2>2. id[1] # run
    BY <2>1, BqClonedIs DEF Bq!Jobs
  <2>3. staging' = [staging EXCEPT ![id[1]] = Bq!Empty] /\ DOMAIN staging = Bq!RunIds
    BY <2>1, BqClonedIs DEF Bq!Typed
  <2> QED BY <2>2, <2>3
<1> QED BY <1>1, <1>2, BqChanges

\* Staging holds what was sent, and all or nothing of a request under way.
LEMMA BqStagedStep ==
  ASSUME Bq!BigQueryConstants, Bq!Typed, Bq!Stepped, Bq!Jobs, Bq!Staged, Bq!Counted, Bq!Next
  PROVE  Bq!Staged'
<1>1. /\ run \in Nat /\ Bq!Versions' = Bq!Versions /\ Bq!RunIds' = Bq!RunIds /\ cfg' = cfg
      /\ run' = run \/ (BqStarting /\ run' = run + 1)
  BY BqCounters, BqLogStays, BqMoves, BqNumbers
     DEF BqStays, BqStarting, BqEnds, BqBegins, BqPolls, BqSees, BqRetries, BqOpens, BqInserts,
         BqPromotings, BqDrops, BqSaves, BqSucceeds, BqKept, Bq!RunIds
<1>2. run > 0 => run \in Bq!RunIds
  BY BqJobThere
<1>3. ASSUME NEW r \in Bq!RunIds, r > run'
      PROVE  staging'[r] = Bq!Missing
  <2>1. r > run /\ r # run
    BY <1>1, <1>3 DEF Bq!RunIds
  <2>2. staging[r] = Bq!Missing
    BY <2>1 DEF Bq!Staged
  <2>3. \A id \in Bq!JobIds : Bq!JobRuns(id) => id[1] <= run
    BY DEF Bq!JobRuns, Bq!Jobs
  <2>4. ~(\E id \in Bq!JobIds : Bq!JobRuns(id) /\ id[1] = r /\ id[2] = "clone")
    BY <1>1, <2>1, <2>3 DEF Bq!RunIds
  <2> QED BY <2>1, <2>2, <2>4, BqStagingStep
<1>4. ASSUME Bq!Calling', stmt' = "clone", Bq!Is(run, "clone", "done")'
      PROVE  (staging[run] = Bq!Empty)'
  <2>1. run' = run /\ run > 0 /\ (BqBegins \/ (Bq!Calling /\ stmt = "clone"))
    BY <1>1, <1>4, BqMoves DEF Bq!Stepped, Bq!Calling, BqStays, BqStarting, BqEnds, BqBegins,
                               Bq!Begin, Bq!Goto, BqPolls, BqSees, BqRetries, BqOpens, BqInserts,
                               BqPromotings, BqDrops, BqSaves, BqSucceeds, BqKept
  <2>2. Bq!Empty' = Bq!Empty /\ run \in Bq!RunIds /\ "clone" \in Bq!Statements
    BY <1>1, <1>2, <2>1 DEF Bq!Empty, Bq!Statements
  <2>3. CASE Bq!Is(run, "clone", "done")
    <3>1. at # "state"
      <4>1. at = "state" => Bq!None(run, "clone")
        BY <2>2 DEF Bq!Jobs
      <4>2. JobAttempts \in Nat /\ JobAttempts >= 1
        BY BqNumbers
      <4> QED BY <2>3, <4>1, <4>2 DEF Bq!Is, Bq!None
    <3>2. Bq!Calling /\ stmt = "clone" /\ staging[run] = Bq!Empty
      BY <2>1, <2>3, <3>1 DEF BqBegins, Bq!Staged
    <3>3. ~Bq!DropStaging /\ ~Bq!Cleanup /\ ~Bq!TryAppend /\ ~Bq!AppendFails
      BY <3>2 DEF Bq!DropStaging, Bq!Cleanup, Bq!TryAppend, Bq!AppendFails, Bq!Calling
    <3>4. staging'[run] = staging[run] \/ staging'[run] = Bq!Empty
      <4>1. CASE staging' = staging
        BY <4>1
      <4>2. CASE \E id \in Bq!JobIds : Bq!JobRuns(id) /\ id[2] = "clone"
        <5>1. PICK id \in Bq!JobIds : Bq!JobRuns(id) /\ id[2] = "clone"
          BY <4>2
        <5>2. staging' = [staging EXCEPT ![id[1]] = Bq!Empty] /\ DOMAIN staging = Bq!RunIds
          BY <5>1, BqClonedIs DEF Bq!Typed
        <5> QED BY <2>2, <5>2
      <4> QED BY <3>3, <4>1, <4>2, BqChanges
    <3> QED BY <2>1, <2>2, <3>2, <3>4
  <2>4. CASE ~Bq!Is(run, "clone", "done")
    <3>1. Bq!Is(run, "clone", "done")' =>
          \E id \in Bq!JobIds : Bq!JobRuns(id) /\ id[1] = run /\ id[2] = "clone"
      <4>1. \A a \in 0..JobAttempts - 1 : <<run, "clone", a>> \in Bq!JobIds
            /\ job[<<run, "clone", a>>] # "done"
        BY <2>2, <2>4 DEF Bq!JobIds, Bq!Is
      <4>2. \A a \in 0..JobAttempts - 1 : job'[<<run, "clone", a>>] = "done" =>
            Bq!JobRuns(<<run, "clone", a>>)
        BY <4>1, BqJobsGrow
      <4>3. Bq!Is(run, "clone", "done")' <=>
            \E a \in 0..JobAttempts - 1 : job'[<<run, "clone", a>>] = "done"
        BY <2>1 DEF Bq!Is
      <4> QED BY <4>1, <4>2, <4>3
    <3>2. PICK id \in Bq!JobIds : Bq!JobRuns(id) /\ id[1] = run /\ id[2] = "clone"
      BY <1>4, <3>1
    <3>3. staging' = [staging EXCEPT ![id[1]] = Bq!Empty] /\ DOMAIN staging = Bq!RunIds
      BY <3>2, BqClonedIs DEF Bq!Typed
    <3> QED BY <2>1, <2>2, <3>2, <3>3
  <2> QED BY <2>3, <2>4
<1>5. ASSUME Bq!Inserting'
      PROVE  /\ staging'[run] \in [Bq!Versions -> Nat] /\ run' = run
             /\ at' \in {"open", "finalize", "bounds"} => Bq!Held(staging'[run]) = Bq!Sent'
             /\ at' = "append" => Bq!Held(staging'[run]) \in {Bq!Sent', Bq!Sent' \cup Bq!Request'}
  <2>1. run' = run /\ run > 0 /\ (BqStays \/ BqOpens \/ BqInserts) /\ batch' = batch
        /\ run \in Bq!RunIds
    BY <1>1, <1>2, <1>5, BqMoves DEF Bq!Stepped, Bq!Inserting, BqStays, BqStarting, BqEnds,
                                     BqBegins, Bq!Begin, Bq!Goto, BqPolls, BqSees, BqRetries,
                                     BqOpens, BqInserts, BqPromotings, BqDrops, BqSaves,
                                     BqSucceeds, BqKept
  <2>2. ~Bq!DropStaging /\ ~Bq!Cleanup
    BY <1>5 DEF Bq!DropStaging, Bq!Cleanup, Bq!Goto, Bq!Inserting
  <2>3. Bq!Cloned
    BY <1>5, <2>1 DEF Bq!Cloned, Bq!Inserting, BqStays, BqOpens, BqInserts
  <2>4. CASE ~Bq!TryAppend /\ ~Bq!AppendFails
    <3>1. staging'[run] = staging[run]
      BY <2>1, <2>2, <2>3, <2>4, BqStagingKept
    <3>2. CASE BqOpens
      <4>1. staging[run] = Bq!Empty /\ sent = 0 /\ sent' = 0
        <5>1. Bq!Is(run, "clone", "done")
          BY <2>3 DEF Bq!Jobs
        <5> QED BY <3>2, <5>1 DEF BqOpens, Bq!Stepped, Bq!Calling, Bq!Staged
      <4>2. Bq!Sent' = {}
        BY <4>1 DEF Bq!Sent
      <4>3. at' # "append"
        BY <3>2 DEF BqOpens
      <4> QED BY <2>1, <3>1, <4>1, <4>2, <4>3, BqEmptyIs
    <3>3. CASE BqStays \/ BqInserts
      <4>1. Bq!Inserting /\ sent' = sent
        BY <1>5, <2>4, <3>3 DEF BqStays, BqInserts, Bq!Inserting, Bq!OpenStream, Bq!FinalizeStream,
                                Bq!FinalizeFails, Bq!writing
      <4>2. Bq!Sent' = Bq!Sent /\ Bq!Request' = Bq!Request
        BY <2>1, <4>1 DEF Bq!Sent, Bq!Request, Bq!CallEnd
      <4>3. at = "append" => at' = "append"
        BY <2>4, <3>3 DEF BqStays, BqInserts, Bq!OpenStream, Bq!FinalizeStream, Bq!FinalizeFails
      <4> QED BY <1>5, <2>1, <3>1, <4>1, <4>2, <4>3 DEF Bq!Staged, Bq!Inserting
    <3> QED BY <2>1, <3>2, <3>3
  <2>5. CASE Bq!TryAppend
    <3>1. /\ at = "append" /\ Bq!Stored /\ sent' = sent + Bq!Cardinality(Bq!Request)
             /\ sent < Len(batch)
      BY <2>5 DEF Bq!TryAppend, Bq!AfterRequest, Bq!Stepped
    <3>2. staging'[run] \in [Bq!Versions -> Nat] /\ Bq!Held(staging'[run]) = Bq!Sent \cup Bq!Request
      BY <3>1, BqInsertIs
    <3>3. Bq!Sent' = Bq!Sent \cup Bq!Request
      BY <2>1, <3>1, BqRequestNew DEF Bq!Sent
    <3> QED BY <2>1, <3>2, <3>3
  <2>6. CASE Bq!AppendFails
    <3>1. at = "append" /\ sent' = sent /\ at' = "append"
      BY <1>5, <2>6 DEF Bq!AppendFails, Bq!Goto, Bq!Inserting
    <3>2. Bq!Sent' = Bq!Sent /\ Bq!Request' = Bq!Request
      BY <2>1, <3>1 DEF Bq!Sent, Bq!Request, Bq!CallEnd
    <3>3. CASE Bq!Stored
      BY <2>1, <3>1, <3>2, <3>3, BqInsertIs
    <3>4. CASE staging' = staging
      BY <2>1, <3>1, <3>2, <3>4 DEF Bq!Staged, Bq!Inserting
    <3> QED BY <2>6, <3>3, <3>4 DEF Bq!AppendFails
  <2> QED BY <2>4, <2>5, <2>6
<1>6. ASSUME Bq!Inserting'
      PROVE  /\ (staging[run])' \in [Bq!Versions -> Nat]'
             /\ at' \in {"open", "finalize", "bounds"} => (Bq!Held(staging[run]) = Bq!Sent)'
             /\ at' = "append" => (Bq!Held(staging[run]) \in {Bq!Sent, Bq!Sent \cup Bq!Request})'
  <2>1. (staging[run])' = staging'[run] /\ Bq!Held(staging[run])' = Bq!Held(staging'[run])
    BY <1>5, <1>6 DEF Bq!Held
  <2> QED BY <1>1, <1>5, <1>6, <2>1
<1> QED BY <1>1, <1>3, <1>4, <1>6 DEF Bq!Staged, Bq!Inserting


-----------------------------------------------------------------------------
(* The streams.                                                            *)

\* Where a run inserts after a step.
LEMMA BqInsertingFrom ==
  ASSUME Bq!BigQueryConstants, Bq!Typed, Bq!Stepped, Bq!Jobs, Bq!Next, Bq!Inserting'
  PROVE  /\ run' = run /\ run \in Bq!RunIds /\ batch' = batch /\ cfg' = cfg
            /\ Bq!Versions' = Bq!Versions
         /\ BqStays \/ BqOpens \/ BqInserts
         /\ ~Bq!TryAppend /\ ~Bq!AppendFails => staging'[run] = staging[run]
         /\ ~Bq!TryAppend /\ ~Bq!AppendFails /\ ~Bq!OpenStream => stream' = stream
<1>1. run' = run /\ run > 0 /\ (BqStays \/ BqOpens \/ BqInserts) /\ batch' = batch
  BY BqCounters, BqMoves, BqNumbers DEF Bq!Stepped, Bq!Inserting, BqStays, BqStarting, BqEnds,
                                        BqBegins, Bq!Begin, Bq!Goto, BqPolls, BqSees, BqRetries,
                                        BqOpens, BqInserts, BqPromotings, BqDrops, BqSaves,
                                        BqSucceeds, BqKept
<1>2. run \in Bq!RunIds
  BY <1>1, BqJobThere
<1>3. ~Bq!DropStaging /\ ~Bq!Cleanup /\ ~Bq!EnsureState
  <2>1. ~Bq!DropStaging /\ ~Bq!Cleanup
    BY DEF Bq!DropStaging, Bq!Cleanup, Bq!Goto, Bq!Inserting
  <2>2. ~Bq!EnsureState
    BY DEF Bq!EnsureState, Bq!Begin, Bq!Goto, Bq!Inserting
  <2> QED BY <2>1, <2>2
<1>4. Bq!Cloned
  BY <1>1 DEF Bq!Cloned, Bq!Inserting, BqStays, BqOpens, BqInserts
<1> QED BY <1>1, <1>2, <1>3, <1>4, BqStagingKept, BqChanges, BqLogStays

\* A stream that is not miscounted after a step was not before.
LEMMA BqSureStep ==
  ASSUME Bq!Counted, Bq!Next, cfg.offsets
  PROVE  /\ ~unsure' => ~unsure
         /\ ~unsure' /\ Bq!FinalizeFails => Bq!CountMatches
         /\ cfg.honours => ~unsure'
<1>1. unsure' = unsure
      \/ (unsure' = (unsure \/ ~Bq!CountMatches) /\ Bq!FinalizeFails /\ at = "finalize")
  BY BqChanges DEF Bq!FinalizeFails
<1>2. cfg.honours => ~unsure /\ (at = "finalize" => Bq!CountMatches)
  BY DEF Bq!Counted
<1>3. Bq!FinalizeFails => unsure' = (unsure \/ ~Bq!CountMatches)
  BY DEF Bq!FinalizeFails
<1>4. ~unsure' => ~unsure
  BY <1>1, Zenon
<1>5. ~unsure' /\ Bq!FinalizeFails => Bq!CountMatches
  BY <1>3, Zenon
<1>6. cfg.honours => ~unsure'
  <2> SUFFICES ASSUME cfg.honours, unsure' PROVE FALSE
    OBVIOUS
  <2>1. CASE unsure' = unsure
    BY <1>2, <2>1, Zenon
  <2>2. CASE unsure' = (unsure \/ ~Bq!CountMatches) /\ Bq!FinalizeFails /\ at = "finalize"
    BY <1>2, <2>2, Zenon
  <2> QED BY <1>1, <2>1, <2>2
<1> QED BY <1>4, <1>5, <1>6

\* A stream that counts what was sent has each row once: a repeated append is
\* either refused by its offset or counted twice.
LEMMA BqCountedStep ==
  ASSUME Bq!BigQueryConstants, Bq!Typed, Bq!Stepped, Bq!Jobs, Bq!Staged, Bq!Counted, Bq!Next
  PROVE  Bq!Counted'
<1> DEFINE c == Bq!Cardinality(Bq!Request)
<1>1. cfg' = cfg
  BY BqLogStays
<1>2. ASSUME cfg.offsets, Bq!Inserting'
      PROVE  /\ run' = run /\ run \in Bq!RunIds /\ batch' = batch /\ Bq!Versions' = Bq!Versions
             /\ BqStays \/ BqOpens \/ BqInserts
             /\ ~Bq!TryAppend /\ ~Bq!AppendFails => staging'[run] = staging[run]
             /\ ~Bq!TryAppend /\ ~Bq!AppendFails /\ ~Bq!OpenStream => stream' = stream
             /\ Bq!Dup' <=> \E v \in Bq!Versions : staging'[run][v] > 1
             /\ sent' = sent =>
                Bq!Request' = Bq!Request /\ Bq!Offset' = Bq!Offset /\ Bq!Sent' = Bq!Sent
             /\ ~unsure' => ~unsure
             /\ cfg.honours => ~unsure'
  <2>1. /\ run' = run /\ run \in Bq!RunIds /\ batch' = batch /\ Bq!Versions' = Bq!Versions
        /\ BqStays \/ BqOpens \/ BqInserts
        /\ ~Bq!TryAppend /\ ~Bq!AppendFails => staging'[run] = staging[run]
        /\ ~Bq!TryAppend /\ ~Bq!AppendFails /\ ~Bq!OpenStream => stream' = stream
    BY <1>2, BqInsertingFrom
  <2>2. Bq!Dup' <=> \E v \in Bq!Versions : staging'[run][v] > 1
    BY <2>1 DEF Bq!Dup
  <2>3. sent' = sent => Bq!Request' = Bq!Request /\ Bq!Offset' = Bq!Offset /\ Bq!Sent' = Bq!Sent
    BY <2>1 DEF Bq!Request, Bq!CallEnd, Bq!Offset, Bq!Sent
  <2> QED BY <1>2, <2>1, <2>2, <2>3, BqSureStep
<1>3. ASSUME cfg.offsets, at' = "append"
      PROVE  /\ cfg.honours => stream' = Bq!Offset' + Bq!Now'
             /\ ~unsure' => stream' >= Bq!Offset' + Bq!Now'
                /\ (Bq!Dup' => stream' > Bq!Offset' + Bq!Now')
  <2>1. Bq!Inserting' /\ at' # "finalize" /\ at' # "bounds"
    BY <1>3 DEF Bq!Inserting
  <2>2. Bq!Now' = IF Bq!Request' \subseteq Bq!Held(staging'[run])
                 THEN Bq!Cardinality(Bq!Request') ELSE 0
    BY <1>2, <1>3, <2>1 DEF Bq!Now, Bq!Held
  <2>3. CASE Bq!OpenStream
    <3>1. /\ at = "open" /\ stream' = 0 /\ sent' = sent /\ sent < Len(batch)
             /\ sent % BqRowsPerCall = 0
          /\ ~Bq!TryAppend /\ ~Bq!AppendFails
      BY <2>3 DEF Bq!OpenStream, Bq!Stepped, Bq!TryAppend, Bq!AppendFails
    <3>2. staging'[run] = staging[run] /\ Bq!Held(staging[run]) = Bq!Sent
          /\ Bq!Request' = Bq!Request /\ Bq!Offset' = 0
      BY <1>2, <1>3, <2>1, <3>1 DEF Bq!Staged, Bq!Offset
    <3>3. Bq!Now' = 0
      BY <2>2, <3>1, <3>2, BqRequestNew
    <3>4. ~unsure' => ~Bq!Dup'
      BY <1>2, <1>3, <2>1, <3>1, <3>2 DEF Bq!Counted, Bq!Dup
    <3> QED BY <3>1, <3>2, <3>3, <3>4
  <2>4. CASE Bq!TryAppend
    <3>1. /\ at = "append" /\ Bq!Stored /\ sent < Len(batch) /\ sent' = sent + c
             /\ c = Bq!Cardinality(Bq!Request)
          /\ sent' # Bq!CallEnd
      BY <1>3, <2>4 DEF Bq!TryAppend, Bq!AfterRequest, Bq!Stepped, Bq!Goto
    <3>2. PICK m \in Nat : /\ m <= Bq!CallEnd /\ Bq!CallEnd <= Len(batch) /\ Bq!CallEnd \in Nat
                           /\ sent + Bq!Cardinality(Bq!Request) = m
                              /\ Bq!Cardinality(Bq!Request) = m - sent
                           /\ m < Bq!CallEnd => m % BqRowsPerCall = Bq!Offset + (m - sent)
      BY <3>1, BqRequestIs
    <3>3. sent' = m /\ m < Bq!CallEnd /\ m < Len(batch)
      <4>1. sent' = m /\ m # Bq!CallEnd
        BY <3>1, <3>2
      <4>2. Len(batch) \in Nat
        BY BqBatchIs
      <4> QED BY <3>2, <4>1, <4>2
    <3>4. Bq!Offset' = Bq!Offset + c
      BY <1>1, <3>2, <3>3 DEF Bq!Offset
    <3>5. /\ Bq!Held(staging'[run]) = Bq!Sent \cup Bq!Request
          /\ cfg.honours => stream' = Bq!Offset + c
          /\ ~unsure =>
              /\ stream' >= Bq!Offset + c
              /\ (\E v \in Bq!Versions : staging'[run][v] > 1) => stream' > Bq!Offset + c
      BY <1>3, <3>1, BqInsertIs
    <3>6. Bq!Held(staging'[run]) = Bq!Sent'
      BY <1>2, <1>3, <2>1, <3>1, <3>5, BqRequestNew DEF Bq!Sent
    <3>7. Bq!Now' = 0
      <4>1. ~(Bq!Request' \subseteq Bq!Sent')
        BY <1>2, <1>3, <2>1, <3>3, BqFirstOfNext
      <4> QED BY <2>2, <3>6, <4>1
    <3>8. Bq!Offset' + Bq!Now' = Bq!Offset + c
      <4>1. Bq!Offset \in Nat /\ c \in Nat
        <5>1. Bq!Offset \in Nat
          BY <3>1, BqRequestIs
        <5> QED BY <3>2, <3>3, <5>1, BqBatchIs, BqRequestIs, <3>1
      <4> QED BY <3>4, <3>7, <4>1
    <3> QED BY <1>2, <1>3, <2>1, <3>5, <3>8
  <2>5. CASE Bq!AppendFails /\ Bq!Stored
    <3>1. at = "append" /\ sent' = sent
      BY <2>5 DEF Bq!AppendFails
    <3>2. Bq!Request' = Bq!Request /\ Bq!Offset' = Bq!Offset
      BY <1>2, <1>3, <2>1, <3>1
    <3>3. /\ Bq!Held(staging'[run]) = Bq!Sent \cup Bq!Request
          /\ cfg.honours => stream' = Bq!Offset + c
          /\ ~unsure =>
              /\ stream' >= Bq!Offset + c
              /\ (\E v \in Bq!Versions : staging'[run][v] > 1) => stream' > Bq!Offset + c
      BY <1>3, <2>5, <3>1, BqInsertIs
    <3>4. Bq!Now' = c
      BY <2>2, <3>2, <3>3
    <3> QED BY <1>2, <1>3, <2>1, <3>2, <3>3, <3>4
  <2>6. CASE ~Bq!OpenStream /\ ~Bq!TryAppend /\ ~(Bq!AppendFails /\ Bq!Stored)
    <3>1. at = "append" /\ sent' = sent
      <4>1. BqStays
        <5>1. ~BqOpens
          BY <1>3 DEF BqOpens
        <5>2. ~BqInserts
          BY <1>3, <2>6 DEF BqInserts, Bq!FinalizeStream, Bq!FinalizeFails, Bq!Goto
        <5> QED BY <1>2, <1>3, <2>1, <5>1, <5>2
      <4> QED BY <1>3, <4>1 DEF BqStays
    <3>2. staging'[run] = staging[run] /\ stream' = stream
      <4>1. CASE Bq!AppendFails
        BY <2>6, <4>1 DEF Bq!AppendFails
      <4>2. CASE ~Bq!AppendFails
        BY <1>2, <1>3, <2>1, <2>6, <4>2
      <4> QED BY <4>1, <4>2
    <3>3. Bq!Request' = Bq!Request /\ Bq!Offset' = Bq!Offset /\ Bq!Now' = Bq!Now
          /\ (Bq!Dup' <=> Bq!Dup)
      <4>1. Bq!Request' = Bq!Request /\ Bq!Offset' = Bq!Offset
        BY <1>2, <1>3, <2>1, <3>1
      <4>2. Bq!Now' = Bq!Now
        BY <2>2, <3>2, <4>1 DEF Bq!Now
      <4>3. Bq!Dup' <=> Bq!Dup
        BY <1>2, <1>3, <2>1, <3>2 DEF Bq!Dup
      <4> QED BY <4>1, <4>2, <4>3
    <3>4. /\ cfg.honours => stream = Bq!Offset + Bq!Now
          /\ ~unsure => stream >= Bq!Offset + Bq!Now /\ (Bq!Dup => stream > Bq!Offset + Bq!Now)
      BY <1>3, <3>1 DEF Bq!Counted
    <3> QED BY <1>2, <1>3, <2>1, <3>2, <3>3, <3>4
  <2> QED BY <2>3, <2>4, <2>5, <2>6
<1>4. ASSUME cfg.offsets, at' = "finalize"
      PROVE  /\ cfg.honours => Bq!CountMatches'
             /\ ~unsure' /\ Bq!Dup' => ~Bq!CountMatches'
  <2>1. Bq!Inserting'
    BY <1>4 DEF Bq!Inserting
  <2>2. CASE Bq!TryAppend
    <3>1. /\ at = "append" /\ Bq!Stored /\ sent < Len(batch)
             /\ sent' = sent + Bq!Cardinality(Bq!Request)
      BY <2>2 DEF Bq!TryAppend, Bq!AfterRequest, Bq!Stepped
    <3>2. PICK m \in Nat : /\ sent + Bq!Cardinality(Bq!Request) = m
                              /\ Bq!Cardinality(Bq!Request) = m - sent
                           /\ ((m - 1) % BqRowsPerCall) + 1 = Bq!Offset + (m - sent)
      BY <3>1, BqRequestIs
    <3>3. Bq!CountMatches' <=> stream' = Bq!Offset + c
      BY <1>1, <1>4, <3>1, <3>2 DEF Bq!CountMatches
    <3>4. /\ cfg.honours => stream' = Bq!Offset + c
          /\ ~unsure =>
              /\ stream' >= Bq!Offset + c
              /\ (\E v \in Bq!Versions : staging'[run][v] > 1) => stream' > Bq!Offset + c
      BY <1>4, <3>1, BqInsertIs
    <3>5. Bq!Offset + c \in Int
      <4>1. Bq!Offset \in Nat
        BY <3>1, BqRequestIs
      <4> QED BY <3>1, <3>2, <4>1, BqBatchIs
    <3> QED BY <1>2, <1>4, <2>1, <3>3, <3>4, <3>5
  <2>3. CASE ~Bq!TryAppend
    <3>1. at = "finalize" /\ sent' = sent /\ ~Bq!AppendFails /\ ~Bq!OpenStream
      <4>1. BqStays
        <5>1. ~BqOpens
          BY <1>4 DEF BqOpens
        <5>2. ~BqInserts
          BY <1>4, <2>3 DEF BqInserts, Bq!FinalizeStream, Bq!FinalizeFails, Bq!OpenStream, Bq!Goto
        <5> QED BY <1>2, <1>4, <2>1, <5>1, <5>2
      <4> QED BY <1>4, <4>1 DEF BqStays, Bq!AppendFails, Bq!OpenStream
    <3>2. stream' = stream /\ staging'[run] = staging[run]
      BY <1>2, <1>4, <2>1, <2>3, <3>1
    <3>3. (Bq!CountMatches' <=> Bq!CountMatches) /\ (Bq!Dup' <=> Bq!Dup)
      <4>1. Bq!CountMatches' <=> Bq!CountMatches
        BY <1>1, <3>1, <3>2 DEF Bq!CountMatches
      <4>2. Bq!Dup' <=> Bq!Dup
        BY <1>2, <1>4, <2>1, <3>2 DEF Bq!Dup
      <4> QED BY <4>1, <4>2
    <3> QED BY <1>2, <1>4, <2>1, <3>1, <3>3 DEF Bq!Counted
  <2> QED BY <2>2, <2>3
<1>5. ASSUME cfg.offsets, ~unsure', at' \in {"open", "bounds"}
      PROVE  ~Bq!Dup'
  <2>1. Bq!Inserting' /\ at' # "append"
    BY <1>5 DEF Bq!Inserting
  <2>2. ~Bq!TryAppend /\ ~Bq!AppendFails /\ ~Bq!OpenStream
    BY <1>5 DEF Bq!TryAppend, Bq!AfterRequest, Bq!AppendFails, Bq!OpenStream, Bq!Goto
  <2>3. staging'[run] = staging[run] /\ ~unsure
    BY <1>2, <1>5, <2>1, <2>2
  <2>4. Bq!Dup' <=> Bq!Dup
    BY <1>2, <1>5, <2>1, <2>3 DEF Bq!Dup
  <2>5. CASE BqOpens
    <3>1. at = "next" /\ stmt = "clone"
      BY <2>5 DEF BqOpens
    <3>2. staging[run] = Bq!Empty
      BY <3>1 DEF Bq!Jobs, Bq!Cloned, Bq!Staged, Bq!Calling
    <3>3. ~Bq!Dup
      BY <3>2, BqEmptyIs DEF Bq!Dup
    <3> QED BY <2>4, <3>3
  <2>6. CASE BqInserts
    <3>1. at = "finalize" /\ Bq!CountMatches
      <4>1. Bq!FinalizeStream \/ Bq!FinalizeFails
        BY <2>2, <2>6 DEF BqInserts
      <4> QED BY <1>5, <4>1, BqSureStep DEF Bq!FinalizeStream, Bq!FinalizeFails, Bq!Goto
    <3> QED BY <1>5, <2>3, <2>4, <3>1 DEF Bq!Counted
  <2>7. CASE BqStays
    BY <1>5, <2>3, <2>4, <2>7 DEF BqStays, Bq!Counted
  <2> QED BY <1>2, <1>5, <2>1, <2>5, <2>6, <2>7
<1>6. cfg.offsets /\ cfg.honours => ~unsure'
  BY BqSureStep
<1> HIDE DEF c
<1> QED BY <1>1, <1>3, <1>4, <1>5, <1>6 DEF Bq!Counted

-----------------------------------------------------------------------------
(* The staging tables of promotions.                                       *)

\* The range of a finite set of numbers has it, and what is between two of it.
LEMMA BqBetweenIs ==
  ASSUME NEW S, IsFiniteSet(S), \A z \in S : z \in Int
  PROVE  /\ \A z \in S : z \in Bq!Between(S)
         /\ \A p \in Bq!Between(S) : \E u, v \in S : u <= p /\ p <= v
<1>1. CASE S = {}
  BY <1>1 DEF Bq!Between
<1>2. CASE S # {}
  <2>1. /\ Bq!Min(S) \in S /\ \A y \in S : Bq!Min(S) <= y
        /\ Bq!Max(S) \in S /\ \A y \in S : y <= Bq!Max(S)
    BY <1>2, BqIntMin, BqIntMax
  <2>2. Bq!Between(S) = Bq!Min(S)..Bq!Max(S)
    BY <1>2 DEF Bq!Between
  <2> DEFINE a == Bq!Min(S)
             b == Bq!Max(S)
  <2>3. a \in S /\ b \in S /\ a \in Int /\ b \in Int /\ Bq!Between(S) = a..b
        /\ \A y \in S : a <= y /\ y <= b
    BY <2>1, <2>2
  <2> HIDE DEF a, b
  <2> QED BY <2>3
<1> QED BY <1>1, <1>2

\* What stands for the members of a finite set is finite.
LEMMA BqImageFinite ==
  ASSUME NEW S, IsFiniteSet(S), NEW f
  PROVE  IsFiniteSet({f[x] : x \in S})
<1> DEFINE T == {f[x] : x \in S}
           g == [x \in S |-> f[x]]
<1>1. g \in Surjection(S, T)
  <2>1. g \in [S -> T] /\ \A w \in T : \E x \in S : g[x] = w
    OBVIOUS
  <2> HIDE DEF g, T
  <2> QED BY <2>1 DEF Surjection
<1> HIDE DEF g
<1>2. IsFiniteSet(T)
  <2> HIDE DEF T
  <2> QED BY <1>1, FS_Surjection
<1> QED BY <1>2

\* What a probe gives fits what is staged, and so do no bounds.
LEMMA BqProbedFits ==
  ASSUME Bq!BigQueryConstants, Bq!Typed, staging[run] \in [Bq!Versions -> Nat]
  PROVE  Bq!Fit(staging[run], Bq!Probed) /\ Bq!Fit(staging[run], Bq!Unbounded)
<1> DEFINE rows == Bq!Held(staging[run])
           keys == {Bq!K(v) : v \in rows}
           parts == {Bq!P(v) : v \in rows}
<1>1. /\ IsFiniteSet(Bq!Versions) /\ \A v \in Bq!Versions : Bq!P(v) \in Int /\ Bq!K(v) \in Int
  BY BqTransfer, BqCounters
<1>2. rows \subseteq Bq!Versions
  BY DEF Bq!Held
<1>3. IsFiniteSet(rows)
  BY <1>1, <1>2, FS_Subset
<1>4. IsFiniteSet(keys) /\ \A z \in keys : z \in Int
  <2> DEFINE f == [v \in rows |-> Bq!K(v)]
             T == {f[v] : v \in rows}
  <2>1. keys = T
    OBVIOUS
  <2>2. IsFiniteSet(T)
    <3> HIDE DEF f, rows
    <3> QED BY <1>3, BqImageFinite
  <2> QED BY <1>1, <1>2, <2>1, <2>2
<1>5. IsFiniteSet(parts) /\ \A z \in parts : z \in Int
  <2> DEFINE f == [v \in rows |-> Bq!P(v)]
             T == {f[v] : v \in rows}
  <2>1. parts = T
    OBVIOUS
  <2>2. IsFiniteSet(T)
    <3> HIDE DEF f, rows
    <3> QED BY <1>3, BqImageFinite
  <2> QED BY <1>1, <1>2, <2>1, <2>2
<1>6. /\ \A z \in keys : z \in Bq!Between(keys)
      /\ \A z \in parts : z \in Bq!Between(parts)
      /\ \A p \in Bq!Between(parts) : \E u, v \in parts : u <= p /\ p <= v
  <2> HIDE DEF keys, parts
  <2> QED BY <1>4, <1>5, BqBetweenIs
<1>7. /\ Bq!Probed.keys # {} => \A v \in rows : Bq!K(v) \in Bq!Probed.keys
      /\ Bq!Probed.parts # {} => cfg.prune /\ Bq!Probed.parts = Bq!Between(parts)
      /\ Bq!Probed.parts = {} \/ Bq!Probed.parts = Bq!Between(parts)
  <2>1. /\ Bq!Probed.keys = (IF cfg.stale \/ cfg.bound = "none" THEN {}
                          ELSE IF cfg.bound = "list" THEN keys ELSE Bq!Between(keys))
        /\ Bq!Probed.parts = (IF cfg.prune THEN Bq!Between(parts) ELSE {})
    BY DEF Bq!Probed
  <2>2. \A v \in rows : Bq!K(v) \in keys
    OBVIOUS
  <2> HIDE DEF keys, parts, rows
  <2> QED BY <1>6, <2>1, <2>2
<1>8. Bq!Probed.parts # {} => \A v \in rows : Bq!P(v) \in Bq!Probed.parts
  BY <1>6, <1>7
<1>9. \A p \in Bq!Probed.parts : \E u, v \in rows : Bq!P(u) <= p /\ p <= Bq!P(v)
  BY <1>6, <1>7
<1>10. Bq!Fit(staging[run], Bq!Probed)
  BY <1>7, <1>8, <1>9 DEF Bq!Fit
<1>11. Bq!Fit(staging[run], Bq!Unbounded)
  BY DEF Bq!Fit, Bq!Unbounded
<1> QED BY <1>10, <1>11

\* What may be promoted after a step could be before, or was just probed.
LEMMA BqPromotableFrom ==
  ASSUME Bq!BigQueryConstants, Bq!Typed, Bq!Stepped, Bq!Jobs, Bq!Next, NEW r \in Bq!RunIds,
         Bq!Promotable(r)'
  PROVE  Bq!Promotable(r) \/ (r = run /\ BqPromotings)
<1>1. "promote" \in Bq!Statements
  BY DEF Bq!Statements
<1>2. CASE ~Bq!None(r, "promote")'
  <2>1. CASE Bq!None(r, "promote")
    BY <1>1, <1>2, <2>1, BqDoneGrows DEF BqSubmitted, Bq!Promotable
  <2> QED BY <2>1 DEF Bq!Promotable
<1>3. CASE r = run' /\ at' = "submit" /\ stmt' = "promote"
  <2>1. run' = run /\ (BqStays \/ BqRetries \/ BqPromotings)
    BY <1>3, BqMoves DEF BqStays, BqStarting, BqEnds, BqBegins, Bq!Begin, Bq!Goto, BqPolls, BqSees,
                         BqRetries, BqOpens, BqInserts, BqPromotings, BqDrops, BqSaves, BqSucceeds,
                         BqKept
  <2>2. CASE BqStays
    BY <1>3, <2>1, <2>2 DEF BqStays, Bq!Promotable
  <2>3. CASE BqRetries
    <3>1. at = "poll" /\ stmt = "promote" /\ job[Bq!Job] # "absent"
      BY <1>3, <2>3 DEF BqRetries, Bq!Stepped
    <3>2. Bq!Job = <<run, "promote", again>> /\ again \in 0..JobAttempts - 1
      BY <3>1, BqCounters DEF Bq!Job
    <3>3. ~Bq!None(run, "promote")
      BY <3>1, <3>2 DEF Bq!None
    <3> QED BY <1>3, <2>1, <3>3 DEF Bq!Promotable
  <2> QED BY <1>3, <2>1, <2>2, <2>3
<1> QED BY <1>2, <1>3 DEF Bq!Promotable

\* What may be promoted stays as it is, or goes.
LEMMA BqPromotableStays ==
  ASSUME Bq!BigQueryConstants, Bq!Typed, Bq!Stepped, Bq!Jobs, Bq!Next, NEW r \in Bq!RunIds,
         Bq!Promotable(r)
  PROVE  /\ staging'[r] = staging[r] \/ staging'[r] = Bq!Missing
         /\ bounds'[r] = bounds[r]
         /\ r = run' => r = run /\ Bq!Whole' = Bq!Whole
<1>1. run \in Nat /\ "promote" \in Bq!Statements
  BY BqCounters, BqNumbers DEF Bq!Statements
<1>2. r = run /\ Bq!Before => FALSE
  BY DEF Bq!Jobs, Bq!Before, Bq!Promotable, Bq!Inserting, Bq!Calling
<1>3. staging'[r] = staging[r] \/ staging'[r] = Bq!Missing
  <2>1. CASE r = run /\ (Bq!TryAppend \/ Bq!AppendFails)
    BY <1>2, <2>1 DEF Bq!TryAppend, Bq!AppendFails, Bq!Before, Bq!Inserting
  <2>2. CASE \E id \in Bq!JobIds : Bq!JobRuns(id) /\ id[1] = r /\ id[2] = "clone"
    <3>1. ~Bq!Is(r, "clone", "done") /\ Bq!None(r, "promote")
      BY <2>2, BqClonedIs
    <3>2. r = run /\ Bq!Cloned
      BY <3>1 DEF Bq!Promotable, Bq!Cloned, Bq!Calling
    <3> QED BY <3>1, <3>2 DEF Bq!Jobs
  <2> QED BY <2>1, <2>2, BqStagingStep
<1>4. bounds'[r] = bounds[r]
  <2>1. CASE Bq!ProbeStaging \/ Bq!ProbeFails
    <3>1. at = "bounds" /\ DOMAIN bounds = Bq!RunIds /\ \E b : bounds' = [bounds EXCEPT ![run] = b]
      BY <2>1 DEF Bq!ProbeStaging, Bq!ProbeFails, Bq!Typed
    <3>2. r # run
      BY <1>2, <3>1 DEF Bq!Before, Bq!Inserting
    <3> QED BY <3>1, <3>2
  <2> QED BY <2>1, BqChanges
<1>5. ASSUME r = run'
      PROVE  r = run /\ Bq!Whole' = Bq!Whole
  <2>1. run' = run \/ (BqStarting /\ run' = run + 1)
    BY BqMoves DEF BqStays, BqStarting, BqEnds, BqBegins, BqPolls, BqSees, BqRetries, BqOpens,
                   BqInserts, BqPromotings, BqDrops, BqSaves, BqSucceeds, BqKept
  <2>2. ~(BqStarting /\ run' = run + 1)
    <3>1. SUFFICES ASSUME run' = run + 1 PROVE FALSE
      OBVIOUS
    <3>2. r > run /\ r # run
      BY <1>1, <1>5, <3>1
    <3> QED BY <1>1, <3>2, BqNoneLater DEF Bq!Promotable
  <2>3. ~BqBegins
    BY <1>2, <1>5, <2>1, <2>2 DEF BqBegins, Bq!Before
  <2> QED BY <1>5, <2>1, <2>2, <2>3, BqBatchStep
<1> QED BY <1>3, <1>4, <1>5

\* What is to be promoted is as the job was made from, until it is dropped.
LEMMA BqOnceStep ==
  ASSUME Bq!BigQueryConstants, Bq!Typed, Bq!Stepped, Bq!Jobs, Bq!Staged, Bq!Counted, Bq!Once,
         Bq!Next
  PROVE  Bq!Once'
<1>1. cfg' = cfg /\ Bq!Versions' = Bq!Versions /\ Bq!RunIds' = Bq!RunIds
      /\ \A v : Bq!P(v)' = Bq!P(v) /\ Bq!K(v)' = Bq!K(v)
  BY BqLogStays DEF Bq!RunIds
<1>2. SUFFICES ASSUME NEW r \in Bq!RunIds, Bq!Promotable(r)', staging'[r] # Bq!Missing
               PROVE  /\ Bq!Fit(staging[r], bounds[r])'
                      /\ cfg.offsets /\ ~unsure' => \A v \in Bq!Versions : staging'[r][v] <= 1
                      /\ r = run' => Bq!Held(staging[r])' = Bq!Whole'
  BY <1>1 DEF Bq!Once
<1>3. \A s, b : s = staging'[r] /\ b = bounds'[r] /\ Bq!Fit(s, b) => Bq!Fit(staging[r], bounds[r])'
  BY <1>1 DEF Bq!Fit, Bq!Held, Bq!K, Bq!P
<1>4. cfg.offsets /\ ~unsure' => ~unsure
  BY BqSureStep
<1>5. CASE Bq!Promotable(r)
  <2>1. /\ staging'[r] = staging[r] /\ staging[r] # Bq!Missing /\ bounds'[r] = bounds[r]
        /\ r = run' => r = run /\ Bq!Whole' = Bq!Whole
    BY <1>2, <1>5, BqPromotableStays
  <2>2. Bq!Held(staging[r])' = Bq!Held(staging[r])
    BY <1>1, <2>1 DEF Bq!Held
  <2>3. /\ Bq!Fit(staging[r], bounds[r])
        /\ cfg.offsets /\ ~unsure => \A v \in Bq!Versions : staging[r][v] <= 1
        /\ r = run => Bq!Held(staging[r]) = Bq!Whole
    BY <1>5, <2>1 DEF Bq!Once
  <2>4. Bq!Fit(staging[r], bounds[r])'
    BY <1>3, <2>1, <2>3
  <2> QED BY <1>4, <2>1, <2>2, <2>3, <2>4
<1>6. CASE r = run /\ BqPromotings
  <2>1. at = "bounds" /\ (Bq!ProbeStaging \/ Bq!ProbeFails) /\ run' = run /\ batch' = batch
    BY <1>6 DEF BqPromotings, BqKept
  <2>2. /\ sent = Len(batch) /\ staging[run] \in [Bq!Versions -> Nat]
           /\ Bq!Held(staging[run]) = Bq!Sent
        /\ Bq!Sent = Bq!Whole /\ Bq!Whole' = Bq!Whole
    BY <2>1 DEF Bq!Stepped, Bq!Staged, Bq!Inserting, Bq!Sent, Bq!Whole
  <2>3. staging' = staging /\ DOMAIN bounds = Bq!RunIds
    BY <2>1 DEF Bq!ProbeStaging, Bq!ProbeFails, Bq!tables, Bq!Typed
  <2>4. bounds'[run] = Bq!Probed \/ bounds'[run] = Bq!Unbounded
    BY <1>6, <2>1, <2>3 DEF Bq!ProbeStaging, Bq!ProbeFails
  <2>5. Bq!Fit(staging[run], bounds'[run])
    BY <2>2, <2>4, BqProbedFits
  <2>6. Bq!Fit(staging[r], bounds[r])'
    BY <1>3, <1>6, <2>3, <2>5
  <2>7. cfg.offsets /\ ~unsure => \A v \in Bq!Versions : staging[run][v] <= 1
    <3>1. cfg.offsets /\ ~unsure => ~Bq!Dup
      BY <2>1 DEF Bq!Counted
    <3> QED BY <2>2, <3>1 DEF Bq!Dup
  <2>8. Bq!Held(staging[r])' = Bq!Held(staging[run])
    BY <1>6, <2>3 DEF Bq!Held
  <2> QED BY <1>4, <1>6, <2>2, <2>3, <2>6, <2>7, <2>8
<1> QED BY <1>2, <1>5, <1>6, BqPromotableFrom

-----------------------------------------------------------------------------
(* The destination.                                                        *)

\* What a promotion of a MERGE leaves.
LEMMA BqMergedIs ==
  ASSUME Bq!BigQueryConstants, Bq!Typed, Bq!Jobs, Bq!Once, Bq!OneRow, NEW id \in Bq!JobIds,
         Bq!JobRuns(id),
         id[2] = "promote", cfg.promote = "merge"
  PROVE  /\ dest' = Bq!Merged(staging[id[1]], bounds[id[1]])
         /\ \A u \in Bq!Held(dest') : dest'[u] = 1
            /\ \A v \in Bq!Held(dest') : Bq!K(u) = Bq!K(v) => u = v
         /\ \A v \in Bq!Held(staging[id[1]]) :
              \E u \in Bq!Held(dest') : u \in Bq!Newest(Bq!Held(staging[id[1]]))
              /\ Bq!K(u) = Bq!K(v) /\ Bq!W(u) >= Bq!W(v)
         /\ \A d \in Bq!Held(dest) :
              \/ d \in Bq!Held(dest')
              \/ \E u \in Bq!Held(dest') : u \in Bq!Newest(Bq!Held(staging[id[1]]))
                 /\ Bq!K(u) = Bq!K(d)
              \/ d \in Bq!Window(bounds[id[1]]) /\ d \notin Bq!Held(staging[id[1]])
         /\ \A v \in Bq!Window(bounds[id[1]]) :
              (\A u \in Bq!Held(staging[id[1]]) : Bq!K(u) # Bq!K(v)) => dest'[v] = 0
<1> DEFINE s == staging[id[1]]
           b == bounds[id[1]]
           m == Bq!Merged(s, b)
<1>1. s \in [Bq!Versions -> Nat] /\ Bq!Fit(s, b) /\ dest' = m
  BY BqPromotedIs DEF Bq!Promoted
<1>2. BqSingleRows /\ dest \in [Bq!Versions -> Nat] /\ cfg \in BqTransfers
  BY BqCounters DEF Bq!OneRow, BqSingleRows
<1> HIDE DEF s, b
<1>3. /\ \A u \in Bq!Held(m) : m[u] = 1 /\ \A v \in Bq!Held(m) : Bq!K(u) = Bq!K(v) => u = v
      /\ \A v \in Bq!Held(s) : \E u \in Bq!Held(m) : u \in Bq!Newest(Bq!Held(s))
         /\ Bq!K(u) = Bq!K(v) /\ Bq!W(u) >= Bq!W(v)
      /\ \A d \in Bq!Held(dest) :
           \/ d \in Bq!Held(m)
           \/ \E u \in Bq!Held(m) : u \in Bq!Newest(Bq!Held(s)) /\ Bq!K(u) = Bq!K(d)
           \/ d \in Bq!Window(b) /\ d \notin Bq!Held(s)
      /\ \A v \in Bq!Window(b) : (\A u \in Bq!Held(s) : Bq!K(u) # Bq!K(v)) => m[v] = 0
  <2> HIDE DEF m
  <2>1. m = Bq!Merged(s, b)
    BY DEF m
  <2> QED BY <1>1, <1>2, <2>1, BqMergeKeeps
<1> HIDE DEF m
<1> QED BY <1>1, <1>3 DEF s, b, m

\* One row of a key: a MERGE writes one of each it has, in the place of what was
\* there, and a swap takes over rows of which each is there once.
LEMMA BqOneRowStep ==
  ASSUME Bq!BigQueryConstants, Bq!Typed, Bq!Stepped, Bq!Jobs, Bq!Counted, Bq!Once, Bq!OneRow,
         Bq!Next
  PROVE  Bq!OneRow'
<1>1. cfg' = cfg /\ Bq!Versions' = Bq!Versions /\ \A v : Bq!K(v)' = Bq!K(v)
  BY BqLogStays
<1>2. SUFFICES /\ cfg.promote = "merge" =>
                    \A u \in Bq!Held(dest') : dest'[u] = 1
                    /\ \A v \in Bq!Held(dest') : Bq!K(u) = Bq!K(v) => u = v
               /\ cfg.offsets /\ ~unsure' => \A v \in Bq!Versions : dest'[v] <= 1
  <2>1. Bq!Held(dest)' = Bq!Held(dest')
    BY DEF Bq!Held
  <2> QED BY <1>1, <2>1 DEF Bq!OneRow
<1>3. cfg.offsets /\ ~unsure' => ~unsure
  BY BqSureStep
<1>4. CASE dest' = dest
  BY <1>3, <1>4 DEF Bq!OneRow
<1>5. CASE \E id \in Bq!JobIds : Bq!JobRuns(id) /\ id[2] = "promote"
  <2>1. PICK id \in Bq!JobIds : Bq!JobRuns(id) /\ id[2] = "promote"
    BY <1>5
  <2>2. CASE cfg.promote = "merge"
    <3>1. \A u \in Bq!Held(dest') : dest'[u] = 1
          /\ \A v \in Bq!Held(dest') : Bq!K(u) = Bq!K(v) => u = v
      BY <2>1, <2>2, BqMergedIs
    <3>2. dest' \in [Bq!Versions -> Nat]
      BY BqDestStep
    <3>3. \A v \in Bq!Versions : dest'[v] <= 1
      <4>1. SUFFICES ASSUME NEW v \in Bq!Versions PROVE dest'[v] <= 1
        OBVIOUS
      <4>2. v \in Bq!Held(dest') \/ ~(dest'[v] > 0)
        BY <3>2, <4>1 DEF Bq!Held
      <4>3. dest'[v] \in Nat /\ (dest'[v] = 1 \/ ~(dest'[v] > 0))
        BY <3>1, <3>2, <4>1, <4>2
      <4> QED BY <4>3
    <3> QED BY <3>1, <3>3
  <2>3. CASE cfg.promote # "merge"
    <3>1. cfg.promote = "swap"
      BY <2>3, BqTransfer, BqCounters
    <3>2. dest' = staging[id[1]]
          /\ (cfg.offsets /\ ~unsure => \A v \in Bq!Versions : staging[id[1]][v] <= 1)
      BY <2>1, <3>1, BqPromotedIs DEF Bq!Promoted
    <3> QED BY <1>3, <2>3, <3>2
  <2> QED BY <2>2, <2>3
<1> QED BY <1>4, <1>5, BqDestStep

-----------------------------------------------------------------------------
(* What is there of what was read.                                         *)

\* Jobs of earlier runs that run are told.
LEMMA BqLateGrows ==
  ASSUME Bq!BigQueryConstants, Bq!Typed, Bq!Stepped, Bq!Next
  PROVE  /\ late' = {} => late = {}
         /\ "promote" \notin late' => "promote" \notin late
         /\ \A id \in Bq!JobIds : Bq!JobRuns(id) /\ late' = {} => id[1] = run
         /\ \A id \in Bq!JobIds : Bq!JobRuns(id) /\ id[2] = "promote" /\ "promote" \notin late' =>
            id[1] = run
<1>1. \A id \in Bq!JobIds : Bq!JobRuns(id) =>
      late' = IF id[1] = run THEN late ELSE late \cup {id[2]}
  BY DEF Bq!JobRuns
<1>2. late' = late \/ \E id \in Bq!JobIds : Bq!JobRuns(id)
  BY BqWorks DEF BqNoJobRuns, BqSubmitted, BqFailed
<1> QED BY <1>1, <1>2

\* A run that starts has no jobs, and one that begins has promoted nothing.
LEMMA BqRunFrom ==
  ASSUME Bq!BigQueryConstants, Bq!Typed, Bq!Stepped, Bq!Jobs, Bq!Next, NEW r \in Bq!RunIds, r = run'
  PROVE  \/ r = run /\ ~BqBegins /\ Bq!Whole' = Bq!Whole
         \/ r = run /\ BqBegins /\ Bq!None(r, "promote")' /\ dest' = dest
         \/ at' = "state" /\ \A s \in Bq!Statements : Bq!None(r, s)'
<1>1. run \in Nat /\ "promote" \in Bq!Statements
  BY BqCounters, BqNumbers DEF Bq!Statements
<1>2. run' = run \/ (BqStarting /\ run' = run + 1)
  BY BqMoves DEF BqStays, BqStarting, BqEnds, BqBegins, BqPolls, BqSees, BqRetries, BqOpens,
                 BqInserts, BqPromotings, BqDrops, BqSaves, BqSucceeds, BqKept
<1>3. CASE BqStarting /\ run' = run + 1
  <2>1. r > run
    BY <1>1, <1>3
  <2>2. \A s \in Bq!Statements : Bq!None(r, s)
    BY <1>1, <2>1, BqNoneLater
  <2>3. job' = job /\ at' = "state"
    BY <1>3 DEF BqStarting
  <2> QED BY <2>2, <2>3 DEF Bq!None
<1>4. CASE run' = run /\ ~BqBegins
  BY <1>4, BqBatchStep
<1>5. CASE run' = run /\ BqBegins
  <2>1. at = "state" /\ job' = job /\ at' = "submit"
    BY <1>5 DEF BqBegins, Bq!Begin, Bq!Goto
  <2>2. Bq!None(r, "promote")
    BY <1>1, <1>5, <2>1 DEF Bq!Jobs
  <2>3. Bq!None(r, "promote")'
    BY <2>1, <2>2 DEF Bq!None
  <2>4. dest' = dest
    <3>1. ~\E id \in Bq!JobIds : Bq!JobRuns(id)
      BY <2>1 DEF Bq!JobRuns
    <3> QED BY <3>1, BqWorks DEF BqNoJobRuns, BqSubmitted, BqFailed
  <2> QED BY <1>5, <2>3, <2>4
<1> QED BY <1>2, <1>3, <1>4, <1>5

\* A MERGE of the run: what it covers.
LEMMA BqMergeCovers ==
  ASSUME Bq!BigQueryConstants, Bq!Typed, Bq!Stepped, Bq!Jobs, Bq!Once, Bq!OneRow, Bq!Reading,
         Bq!Next,
         NEW id \in Bq!JobIds, Bq!JobRuns(id), id[2] = "promote", cfg.promote = "merge", id[1] = run
  PROVE  /\ \A v \in Bq!Whole : Bq!Covered(v)'
         /\ \A v \in Bq!Visible(run) : Bq!Covered(v) => Bq!Covered(v)'
         /\ cfg.stale => \A v \in cfg.gone : Bq!P(v) \in bounds[run].parts => dest'[v] = 0
<1>1. /\ run \in Nat /\ run > 0 /\ run \in Bq!RunIds
      /\ "clone" \in Bq!Statements /\ ~Bq!None(run, "promote") /\ ~Bq!None(run, "clone")
  <2>1. id[1] \in Bq!RunIds /\ id = <<run, "promote", id[3]>> /\ id[3] \in 0..JobAttempts - 1
    BY DEF Bq!JobIds
  <2>2. job[id] = "pending" /\ Bq!Is(run, "clone", "done")
    BY DEF Bq!JobRuns, Bq!Jobs
  <2> QED BY <2>1, <2>2, BqNumbers DEF Bq!None, Bq!Is, Bq!RunIds, Bq!Statements
<1> DEFINE b == bounds[run]
<1>2. /\ Bq!Held(staging[run]) = Bq!Whole /\ Bq!Fit(staging[run], b)
      /\ \A v \in Bq!Whole : \E u \in Bq!Held(dest') : u \in Bq!Newest(Bq!Whole)
         /\ Bq!K(u) = Bq!K(v) /\ Bq!W(u) >= Bq!W(v)
      /\ \A d \in Bq!Held(dest) :
           \/ d \in Bq!Held(dest')
           \/ \E u \in Bq!Held(dest') : u \in Bq!Newest(Bq!Whole) /\ Bq!K(u) = Bq!K(d)
           \/ d \in Bq!Window(b) /\ d \notin Bq!Whole
      /\ \A v \in Bq!Window(b) : (\A u \in Bq!Whole : Bq!K(u) # Bq!K(v)) => dest'[v] = 0
  BY BqMergedIs, BqPromotedIs
<1>3. /\ Bq!Whole \subseteq Bq!Visible(run)
      /\ \A u \in Bq!Whole : \A v \in Bq!Visible(run) : Bq!W(v) >= Bq!W(u) => v \in Bq!Whole
  BY <1>1 DEF Bq!Reading, Bq!Begun
<1>4. /\ \A v \in Bq!Versions : Bq!W(v) \in Nat /\ Bq!P(v) \in Int
      /\ cfg.stale => \A v \in Bq!Versions : Bq!P(v) = Bq!W(v)
      /\ \A u, v \in Bq!Versions : u \in cfg.gone /\ Bq!K(u) = Bq!K(v) => v \in cfg.gone
      /\ cfg.gone \subseteq Bq!Versions /\ Bq!Held(dest) \subseteq Bq!Versions
  BY BqTransfer, BqCounters DEF Bq!Held
<1>5. \A v : v \in Bq!Visible(run) <=> v \in Bq!Versions /\ v \notin cfg.gone /\ Bq!W(v) <= run
  BY DEF Bq!Visible
<1>6. \A v, u : u \in Bq!Held(dest') /\ Bq!K(u) = Bq!K(v) /\ Bq!W(u) >= Bq!W(v) => Bq!Covered(v)'
  <2>1. \A v : Bq!W(v)' = Bq!W(v) /\ Bq!K(v)' = Bq!K(v)
    BY BqLogStays
  <2>2. Bq!Held(dest)' = Bq!Held(dest')
    BY DEF Bq!Held
  <2> QED BY <2>1, <2>2 DEF Bq!Covered
<1>7. ASSUME NEW v \in Bq!Whole PROVE Bq!Covered(v)'
  BY <1>2, <1>6
<1>8. \A v \in Bq!Window(b) : v \in Bq!Versions /\ cfg.stale /\ Bq!P(v) \in b.parts
  BY DEF Bq!Window
<1>9. ASSUME NEW v \in Bq!Visible(run), Bq!Covered(v) PROVE Bq!Covered(v)'
  <2>1. PICK d \in Bq!Held(dest) : Bq!K(d) = Bq!K(v) /\ Bq!W(d) >= Bq!W(v)
    BY <1>9 DEF Bq!Covered
  <2>2. CASE d \in Bq!Held(dest')
    BY <1>6, <2>1, <2>2
  <2>3. CASE \E u \in Bq!Held(dest') : u \in Bq!Newest(Bq!Whole) /\ Bq!K(u) = Bq!K(d)
    <3>1. PICK u \in Bq!Held(dest') : u \in Bq!Newest(Bq!Whole) /\ Bq!K(u) = Bq!K(d)
      BY <2>3
    <3>2. u \in Bq!Whole
      BY <3>1, BqNewestIs
    <3>3. CASE v \in Bq!Whole
      BY <1>7, <3>3
    <3>4. CASE v \notin Bq!Whole
      <4>1. ~(Bq!W(v) >= Bq!W(u)) /\ Bq!W(v) \in Nat /\ Bq!W(u) \in Nat
        BY <1>3, <1>4, <1>5, <3>2, <3>4
      <4>2. Bq!W(u) >= Bq!W(v)
        BY <4>1
      <4> QED BY <1>6, <2>1, <3>1, <4>2
    <3> QED BY <3>3, <3>4
  <2>4. CASE d \in Bq!Window(b) /\ d \notin Bq!Whole
    <3>1. cfg.stale /\ Bq!P(d) \in b.parts /\ d \in Bq!Versions
      BY <1>8, <2>4
    <3>2. PICK x, y \in Bq!Whole : Bq!P(x) <= Bq!P(d) /\ Bq!P(d) <= Bq!P(y)
      BY <1>2, <3>1 DEF Bq!Fit
    <3>3. /\ x \in Bq!Versions /\ y \in Bq!Versions /\ Bq!W(y) <= run
          /\ Bq!P(x) = Bq!W(x) /\ Bq!P(y) = Bq!W(y) /\ Bq!P(d) = Bq!W(d)
      BY <1>3, <1>4, <1>5, <3>1, <3>2
    <3>4. Bq!W(d) >= Bq!W(x) /\ Bq!W(d) <= run
      BY <1>1, <1>4, <3>1, <3>2, <3>3
    <3>5. d \notin cfg.gone
      BY <1>4, <1>5, <2>1, <3>1
    <3>6. d \in Bq!Whole
      BY <1>3, <1>5, <3>1, <3>2, <3>4, <3>5
    <3> QED BY <2>4, <3>6
  <2> QED BY <1>2, <2>2, <2>3, <2>4
<1>10. ASSUME cfg.stale, NEW v \in cfg.gone, Bq!P(v) \in bounds[run].parts PROVE dest'[v] = 0
  <2>1. v \in Bq!Window(b)
    BY <1>4, <1>10 DEF Bq!Window
  <2>2. \A u \in Bq!Whole : Bq!K(u) # Bq!K(v)
    BY <1>3, <1>4, <1>5, <1>10
  <2> QED BY <1>2, <2>1, <2>2
<1> QED BY <1>7, <1>9, <1>10

\* What is there of what a run sees stays, unless a MERGE of an earlier run runs.
LEMMA BqCoverStays ==
  ASSUME Bq!BigQueryConstants, Bq!Typed, Bq!Stepped, Bq!Jobs, Bq!Once, Bq!OneRow, Bq!Reading,
         Bq!Next,
         cfg.promote = "merge", "promote" \notin late'
  PROVE  \A v \in Bq!Visible(run) : Bq!Covered(v) => Bq!Covered(v)'
<1>1. CASE dest' = dest
  <2>1. \A v : Bq!W(v)' = Bq!W(v) /\ Bq!K(v)' = Bq!K(v)
    BY BqLogStays
  <2>2. Bq!Held(dest)' = Bq!Held(dest)
    BY <1>1 DEF Bq!Held
  <2> QED BY <2>1, <2>2 DEF Bq!Covered
<1>2. CASE \E id \in Bq!JobIds : Bq!JobRuns(id) /\ id[2] = "promote"
  BY <1>2, BqLateGrows, BqMergeCovers
<1> QED BY <1>1, <1>2, BqDestStep

\* What a run read, and what it did not because it is there, stays so, unless a
\* MERGE of an earlier run comes late.
LEMMA BqReadingStep ==
  ASSUME Bq!BigQueryConstants, Bq!Typed, Bq!Stepped, Bq!Jobs, Bq!Once, Bq!OneRow, Bq!Reading,
         Bq!Saved, Bq!Next
  PROVE  Bq!Reading'
<1>1. /\ cfg' = cfg /\ \A n : Bq!Visible(n)' = Bq!Visible(n)
         /\ Bq!Newest(Bq!Visible(n))' = Bq!Newest(Bq!Visible(n))
      /\ \A v : Bq!W(v)' = Bq!W(v)
  BY BqLogStays
<1>2. run \in Nat /\ "clone" \in Bq!Statements
  BY BqCounters, BqNumbers DEF Bq!Statements
<1> SUFFICES ASSUME Bq!Begun'
             PROVE  Bq!Reading'
  BY DEF Bq!Reading
<1>3. run' \in Bq!RunIds
  <2>1. run' \in 0..BqRuns /\ run' > 0
    BY BqCountersStep DEF Bq!Begun
  <2> QED BY <2>1 DEF Bq!RunIds
<1>4. PICK r \in Bq!RunIds : r = run'
  BY <1>3
<1>5. /\ Bq!Visible(run)' = Bq!Visible(r) /\ Bq!Newest(Bq!Visible(run))' = Bq!Newest(Bq!Visible(r))
  <2>1. Bq!Visible(run)' = Bq!Visible(r)
    BY <1>1, <1>4 DEF Bq!Visible
  <2> QED BY <1>1, <1>4, <2>1 DEF Bq!Newest
<1>6. SUFFICES
        /\ Bq!Whole' \subseteq Bq!Visible(r)
        /\ cfg.promote = "swap" => Bq!Whole' = Bq!Newest(Bq!Visible(r))
        /\ cfg.promote = "merge" =>
             /\ \A u \in Bq!Whole' : \A v \in Bq!Visible(r) : Bq!W(v) >= Bq!W(u) => v \in Bq!Whole'
             /\ "promote" \notin late' =>
                \A v \in Bq!Newest(Bq!Visible(r)) : v \in Bq!Whole' \/ Bq!Covered(v)'
  BY <1>1, <1>5 DEF Bq!Reading
<1>7. CASE r = run /\ ~BqBegins /\ Bq!Whole' = Bq!Whole
  <2>1. Bq!Begun
    <3>1. ~Bq!None(run, "clone")' => Bq!Begun
      <4>1. ~Bq!None(r, "clone")' => ~Bq!None(r, "clone") \/ (BqSubmitted /\ r = run)
        BY <1>2, BqDoneGrows
      <4>2. ~Bq!None(run, "clone")' => ~Bq!None(r, "clone")'
        BY <1>4 DEF Bq!None
      <4>3. BqSubmitted => Bq!Calling
        BY DEF BqSubmitted, Bq!Calling
      <4> QED BY <1>7, <4>1, <4>2, <4>3, <1>2, <1>4 DEF Bq!Begun, Bq!RunIds
    <3>2. Bq!Inserting' \/ Bq!Calling' \/ at' = "drop" => Bq!Inserting \/ Bq!Calling \/ at = "drop"
      BY <1>7, BqMoves DEF BqStays, BqStarting, BqEnds, BqPolls, BqSees, BqRetries, BqOpens,
                           BqInserts, BqPromotings, BqDrops, BqSaves, BqSucceeds, Bq!Inserting,
                           Bq!Calling
    <3>3. run > 0
      BY <1>4, <1>7 DEF Bq!RunIds
    <3>4. ~Bq!None(run, "clone")' \/ Bq!Inserting' \/ Bq!Calling' \/ at' = "drop"
      BY DEF Bq!Begun
    <3> QED BY <3>1, <3>2, <3>3, <3>4 DEF Bq!Begun
  <2>2. cfg.promote = "merge" /\ "promote" \notin late' =>
          \A v \in Bq!Newest(Bq!Visible(r)) : v \in Bq!Whole \/ Bq!Covered(v)'
    <3>1. SUFFICES ASSUME cfg.promote = "merge", "promote" \notin late',
                          NEW v \in Bq!Newest(Bq!Visible(r))
                   PROVE  v \in Bq!Whole \/ Bq!Covered(v)'
      OBVIOUS
    <3>2. v \in Bq!Visible(run) /\ v \in Bq!Newest(Bq!Visible(run))
      BY <1>7, <3>1, BqNewestIs
    <3>3. v \in Bq!Whole \/ Bq!Covered(v)
      BY <2>1, <3>1, <3>2, BqLateGrows DEF Bq!Reading
    <3> QED BY <3>1, <3>2, <3>3, BqCoverStays
  <2> QED BY <1>7, <2>1, <2>2 DEF Bq!Reading
<1>8. CASE r = run /\ BqBegins /\ Bq!None(r, "promote")' /\ dest' = dest
  <2>1. Bq!Whole' = Bq!Read(run) /\ Bq!Read(run) \subseteq Bq!Visible(run)
        /\ \A v \in Bq!Visible(run) : Bq!W(v) \in Nat
    BY <1>2, <1>8, BqBatchStep, BqReadIs
  <2>2. cfg.promote = "swap" => Bq!Whole' = Bq!Newest(Bq!Visible(r))
    BY <1>8, <2>1 DEF Bq!Read
  <2>3. ASSUME cfg.promote = "merge"
        PROVE  /\ \A u \in Bq!Whole' : \A v \in Bq!Visible(r) : Bq!W(v) >= Bq!W(u) =>
                  v \in Bq!Whole'
               /\ "promote" \notin late' =>
                  \A v \in Bq!Newest(Bq!Visible(r)) : v \in Bq!Whole' \/ Bq!Covered(v)'
    <3>1. Bq!Cursor \in Nat /\ Bq!Cursor <= run /\ cfg.lookback \in Nat
      BY BqTransfer, BqCounters, BqCursorIs
    <3> DEFINE low == Bq!Cursor - cfg.lookback
    <3>2. low \in Int /\ low <= Bq!Cursor
      BY <3>1
    <3>3. \A v : v \in Bq!Whole' <=> v \in Bq!Visible(r) /\ Bq!W(v) > low
      BY <1>8, <2>1, <2>3 DEF Bq!Read
    <3> HIDE DEF low
    <3>4. \A u \in Bq!Whole' : \A v \in Bq!Visible(r) : Bq!W(v) >= Bq!W(u) => v \in Bq!Whole'
      BY <1>8, <2>1, <3>2, <3>3
    <3>5. ASSUME "promote" \notin late', NEW v \in Bq!Newest(Bq!Visible(r)), v \notin Bq!Whole'
          PROVE  Bq!Covered(v)'
      <4>1. v \in Bq!Visible(r)
        BY <3>5, BqNewestIs
      <4>2. Bq!W(v) <= Bq!Cursor
        BY <1>8, <2>1, <3>1, <3>2, <3>3, <3>5, <4>1
      <4>3. v \in Bq!Visible(Bq!Cursor)
        BY <4>1, <4>2 DEF Bq!Visible
      <4>4. Bq!Visible(Bq!Cursor) \subseteq Bq!Visible(r)
        <5>1. SUFFICES ASSUME NEW u \in Bq!Visible(Bq!Cursor) PROVE u \in Bq!Visible(r)
          OBVIOUS
        <5>2. u \in Bq!Versions \ cfg.gone /\ Bq!W(u) <= Bq!Cursor
          BY DEF Bq!Visible
        <5>3. Bq!W(u) \in Nat
          BY <5>2, BqTransfer, BqCounters
        <5>4. Bq!W(u) <= r
          BY <1>2, <1>8, <3>1, <5>2, <5>3
        <5> QED BY <5>2, <5>4 DEF Bq!Visible
      <4>5. v \in Bq!Newest(Bq!Visible(Bq!Cursor))
        BY <3>5, <4>3, <4>4, BqNewestOfFewer
      <4>6. Bq!CoveredTo(Bq!Cursor)
        <5>1. "promote" \notin late
          BY <3>5, BqLateGrows
        <5>2. Bq!CoveredTo(0) /\ \A i \in DOMAIN saved : Bq!CoveredTo(saved[i])
          BY <2>3, <5>1 DEF Bq!Saved
        <5>3. Bq!Cursor = 0 \/ \E i \in DOMAIN saved : Bq!Cursor = saved[i]
          BY BqCursorIs
        <5> QED BY <5>2, <5>3
      <4>7. Bq!Covered(v)
        BY <4>5, <4>6 DEF Bq!CoveredTo
      <4> QED BY <1>8, <2>3, <3>5, <4>1, <4>7, BqCoverStays
    <3> QED BY <3>4, <3>5
  <2> QED BY <1>8, <2>1, <2>2, <2>3
<1>9. CASE at' = "state" /\ \A s \in Bq!Statements : Bq!None(r, s)'
  <2>1. Bq!None(run, "clone")'
    <3>1. Bq!None(r, "clone")'
      BY <1>2, <1>9
    <3> QED BY <1>4, <3>1 DEF Bq!None
  <2> QED BY <1>9, <2>1 DEF Bq!Begun, Bq!Inserting, Bq!Calling
<1> QED BY <1>4, <1>7, <1>8, <1>9, BqRunFrom

\* A MERGE covers what its run read and takes away nothing newer, so a cursor is
\* saved over nothing that is missing.
LEMMA BqSavedStep ==
  ASSUME Bq!BigQueryConstants, Bq!Typed, Bq!Stepped, Bq!Jobs, Bq!Once, Bq!OneRow, Bq!Reading,
         Bq!Saved, Bq!Next
  PROVE  Bq!Saved'
<1>1. /\ cfg' = cfg /\ Bq!RunIds' = Bq!RunIds
      /\ \A n : Bq!Visible(n)' = Bq!Visible(n)
         /\ Bq!Newest(Bq!Visible(n))' = Bq!Newest(Bq!Visible(n))
  BY BqLogStays DEF Bq!RunIds
<1>2. run \in Nat /\ "promote" \in Bq!Statements /\ "clone" \in Bq!Statements
  BY BqCounters, BqNumbers DEF Bq!Statements
<1> SUFFICES ASSUME cfg.promote = "merge", "promote" \notin late'
             PROVE  Bq!Saved'
  BY <1>1 DEF Bq!Saved
<1>3. /\ Bq!CoveredTo(0)
      /\ \A i \in DOMAIN saved : Bq!CoveredTo(saved[i])
      /\ \A r \in Bq!RunIds : Bq!Is(r, "promote", "done") => Bq!CoveredTo(r)
  BY BqLateGrows DEF Bq!Saved
<1>4. ASSUME NEW n \in Nat, n <= run, Bq!CoveredTo(n)
      PROVE  Bq!CoveredTo(n)'
  <2>1. SUFFICES ASSUME NEW v \in Bq!Newest(Bq!Visible(n)) PROVE Bq!Covered(v)'
    BY <1>1 DEF Bq!CoveredTo
  <2>2. v \in Bq!Visible(n) /\ Bq!Covered(v)
    BY <1>4, <2>1, BqNewestIs DEF Bq!CoveredTo
  <2>3. v \in Bq!Versions \ cfg.gone /\ Bq!W(v) <= n
    BY <2>2 DEF Bq!Visible
  <2>4. Bq!W(v) \in Nat
    BY <2>3, BqTransfer, BqCounters
  <2>5. Bq!W(v) <= run
    BY <1>2, <1>4, <2>3, <2>4
  <2>6. v \in Bq!Visible(run)
    BY <2>3, <2>5 DEF Bq!Visible
  <2> QED BY <2>2, <2>6, BqCoverStays
<1>5. ASSUME NEW r \in Bq!RunIds, Bq!Is(r, "promote", "done")
      PROVE  Bq!CoveredTo(r)'
  <2>1. r <= run /\ r \in Nat
    <3>1. ~(r > run)
      <4>1. SUFFICES ASSUME r > run PROVE FALSE
        OBVIOUS
      <4>2. Bq!None(r, "promote")
        BY <1>2, <4>1, BqNoneLater
      <4> QED BY <1>5, <4>2 DEF Bq!None, Bq!Is
    <3>2. r \in Nat
      BY DEF Bq!RunIds
    <3> QED BY <1>2, <3>1, <3>2
  <2> QED BY <1>3, <1>4, <1>5, <2>1
<1>6. Bq!CoveredTo(0)'
  BY <1>2, <1>3, <1>4
<1>7. ASSUME NEW i \in DOMAIN saved'
      PROVE  \E n \in Nat : n = saved'[i] /\ Bq!CoveredTo(n)'
  <2>2. CASE \E j \in DOMAIN saved : saved'[i] = saved[j]
    <3>1. PICK j \in DOMAIN saved : saved'[i] = saved[j]
      BY <2>2
    <3>2. saved[j] \in Nat /\ saved[j] <= run
      BY <1>2 DEF Bq!Typed
    <3>3. PICK n \in Nat : n = saved[j]
      BY <3>2
    <3> QED BY <1>3, <1>4, <3>1, <3>2, <3>3
  <2>3. CASE \E id \in Bq!JobIds : Bq!JobRuns(id) /\ id[2] = "persist" /\ saved'[i] = id[1]
    <3>1. PICK id \in Bq!JobIds : Bq!JobRuns(id) /\ id[2] = "persist" /\ saved'[i] = id[1]
      BY <2>3
    <3>2. id[1] \in Bq!RunIds /\ Bq!Is(id[1], "promote", "done")
      BY <3>1 DEF Bq!JobRuns, Bq!Jobs, Bq!JobIds
    <3>3. id[1] \in Nat
      BY <3>2 DEF Bq!RunIds
    <3> QED BY <1>5, <3>1, <3>2, <3>3
  <2> QED BY <2>2, <2>3, BqStateStep
<1>8. ASSUME NEW r \in Bq!RunIds, Bq!Is(r, "promote", "done")'
      PROVE  Bq!CoveredTo(r)'
  <2>1. CASE Bq!Is(r, "promote", "done")
    BY <1>5, <2>1
  <2>2. CASE \E id \in Bq!JobIds : Bq!JobRuns(id) /\ id[1] = r /\ id[2] = "promote"
    <3>1. PICK id \in Bq!JobIds : Bq!JobRuns(id) /\ id[1] = r /\ id[2] = "promote"
      BY <2>2
    <3>2. r = run
      BY <3>1, BqLateGrows
    <3>3. SUFFICES ASSUME NEW v \in Bq!Newest(Bq!Visible(r)) PROVE Bq!Covered(v)'
      BY <1>1 DEF Bq!CoveredTo
    <3>4. Bq!Begun
      <4>1. Bq!Is(r, "clone", "done") /\ run > 0
        BY <3>1, <3>2 DEF Bq!JobRuns, Bq!Jobs, Bq!RunIds
      <4> QED BY <3>2, <4>1 DEF Bq!Begun, Bq!Is, Bq!None
    <3>5. v \in Bq!Visible(run) /\ (v \in Bq!Whole \/ Bq!Covered(v))
      BY <3>2, <3>4, BqNewestIs, BqLateGrows DEF Bq!Reading
    <3> QED BY <3>1, <3>2, <3>5, BqMergeCovers
  <2> QED BY <1>2, <1>8, <2>1, <2>2, BqDoneGrows
<1>9. (\A i \in DOMAIN saved : Bq!CoveredTo(saved[i]))'
  BY <1>7 DEF Bq!CoveredTo
<1>10. (\A r \in Bq!RunIds : Bq!Is(r, "promote", "done") => Bq!CoveredTo(r))'
  BY <1>1, <1>8
<1> QED BY <1>1, <1>6, <1>9, <1>10 DEF Bq!Saved

\* What a job of the run did is undone only by one of an earlier run.
LEMMA BqDoneStep ==
  ASSUME Bq!BigQueryConstants, Bq!Typed, Bq!Stepped, Bq!Jobs, Bq!Once, Bq!OneRow, Bq!Reading,
         Bq!Done, Bq!Next
  PROVE  Bq!Done'
<1>1. cfg' = cfg /\ \A v : Bq!P(v)' = Bq!P(v)
  BY BqLogStays
<1>2. run \in Nat /\ "promote" \in Bq!Statements /\ "persist" \in Bq!Statements
  BY BqCounters, BqNumbers DEF Bq!Statements
<1> SUFFICES ASSUME late' = {}, run' > 0
             PROVE  Bq!Done'
  BY DEF Bq!Done
<1>3. PICK r \in Bq!RunIds : r = run'
  <2>1. run' \in 0..BqRuns
    BY BqCountersStep
  <2> QED BY <2>1 DEF Bq!RunIds
<1>4. \A s \in Bq!Statements : Bq!Is(run, s, "done")' => Bq!Is(r, s, "done")' /\ ~Bq!None(r, s)'
  BY <1>3 DEF Bq!Is, Bq!None
<1>5. /\ late = {} /\ \A id \in Bq!JobIds : Bq!JobRuns(id) => id[1] = run
  BY BqLateGrows
<1>6. ASSUME cfg.promote = "swap", Bq!Is(run, "promote", "done")'
      PROVE  Bq!Held(dest') = Bq!Whole'
  <2>1. r = run /\ Bq!Whole' = Bq!Whole
    BY <1>2, <1>4, <1>6, BqRunFrom, <1>3
  <2>2. CASE dest' = dest /\ ~\E id \in Bq!JobIds : Bq!JobRuns(id) /\ id[2] = "promote"
    <3>1. Bq!Is(r, "promote", "done")
      BY <1>2, <1>4, <1>6, <2>2, BqDoneGrows
    <3> QED BY <1>3, <1>5, <1>6, <2>1, <2>2, <3>1 DEF Bq!Done, Bq!RunIds
  <2>3. CASE \E id \in Bq!JobIds : Bq!JobRuns(id) /\ id[2] = "promote"
    <3>1. PICK id \in Bq!JobIds : Bq!JobRuns(id) /\ id[2] = "promote"
      BY <2>3
    <3>2. id[1] = run
      BY <1>5, <3>1
    <3>3. dest' = staging[id[1]] /\ Bq!Held(staging[id[1]]) = Bq!Whole
      BY <1>6, <3>1, <3>2, BqPromotedIs DEF Bq!Promoted
    <3> QED BY <2>1, <3>3
  <2> QED BY <2>2, <2>3, BqDestStep
<1>7. ASSUME cfg.promote = "merge", Bq!Is(run, "persist", "done")'
      PROVE  Bq!Cursor' = run'
  <2>1. r = run
    <3>1. ~(at' = "state" /\ \A s \in Bq!Statements : Bq!None(r, s)')
      BY <1>2, <1>4, <1>7
    <3> QED BY <1>3, <3>1, BqRunFrom
  <2>2. CASE \E id \in Bq!JobIds : Bq!JobRuns(id) /\ id[2] = "persist"
    BY <1>3, <1>5, <2>1, <2>2, BqStateStep
  <2>3. CASE ~\E id \in Bq!JobIds : Bq!JobRuns(id) /\ id[2] = "persist"
    <3>1. Bq!Is(r, "persist", "done") /\ Bq!Cursor' = Bq!Cursor
      BY <1>2, <1>4, <1>7, <2>3, BqDoneGrows, BqStateStep
    <3> QED BY <1>3, <1>5, <1>7, <2>1, <3>1 DEF Bq!Done, Bq!RunIds
  <2> QED BY <2>2, <2>3
<1>8. ASSUME cfg.stale, cfg.promote = "merge", Bq!Is(run, "promote", "done")', NEW v \in cfg.gone,
             Bq!P(v) \in bounds'[run'].parts
      PROVE  dest'[v] = 0
  <2>1. r = run
    <3>1. ~(at' = "state" /\ \A s \in Bq!Statements : Bq!None(r, s)')
      BY <1>2, <1>4, <1>8
    <3> QED BY <1>3, <3>1, BqRunFrom
  <2>2. Bq!Is(r, "promote", "done")
        \/ \E id \in Bq!JobIds : Bq!JobRuns(id) /\ id[1] = r /\ id[2] = "promote"
    BY <1>2, <1>4, <1>8, BqDoneGrows
  <2>3. ~Bq!None(r, "promote")
    <3>1. \A id \in Bq!JobIds : Bq!JobRuns(id) /\ id[1] = r /\ id[2] = "promote" =>
          ~Bq!None(r, "promote")
      <4>1. SUFFICES ASSUME NEW id \in Bq!JobIds, Bq!JobRuns(id), id[1] = r, id[2] = "promote"
                     PROVE  ~Bq!None(r, "promote")
        OBVIOUS
      <4>2. id = <<r, "promote", id[3]>> /\ id[3] \in 0..JobAttempts - 1 /\ job[id] = "pending"
        BY <4>1 DEF Bq!JobIds, Bq!JobRuns
      <4> QED BY <4>2 DEF Bq!None
    <3> QED BY <2>2, <3>1 DEF Bq!Is, Bq!None
  <2>4. bounds'[r] = bounds[r]
    BY <2>3, BqPromotableStays DEF Bq!Promotable
  <2>5. Bq!P(v) \in bounds[run].parts
    BY <1>3, <1>8, <2>1, <2>4
  <2>6. CASE \E id \in Bq!JobIds : Bq!JobRuns(id) /\ id[2] = "promote"
    <3>1. PICK id \in Bq!JobIds : Bq!JobRuns(id) /\ id[2] = "promote"
      BY <2>6
    <3>2. id[1] = run
      BY <1>5, <3>1
    <3> QED BY <1>8, <2>5, <3>1, <3>2, BqMergeCovers
  <2>7. CASE dest' = dest /\ ~\E id \in Bq!JobIds : Bq!JobRuns(id) /\ id[2] = "promote"
    <3>1. Bq!Is(r, "promote", "done")
      BY <2>2, <2>7
    <3> QED BY <1>3, <1>5, <1>8, <2>1, <2>5, <2>7, <3>1 DEF Bq!Done, Bq!RunIds
  <2> QED BY <2>6, <2>7, BqDestStep
<1>9. Bq!Held(dest)' = Bq!Held(dest')
  BY DEF Bq!Held
<1> QED BY <1>1, <1>6, <1>7, <1>8, <1>9 DEF Bq!Done

-----------------------------------------------------------------------------
(* The invariant, and what it promises.                                    *)

\* The invariant holds at first.
LEMMA BqStarts ==
  ASSUME Bq!BigQueryConstants, Bq!Init
  PROVE  Bq!BInv
<1>1. /\ cfg \in BqTransfers /\ run = 0 /\ at = "ok" /\ stmt = "clone" /\ attempt = 1 /\ again = 0
      /\ batch = <<>> /\ sent = 0 /\ stream = 0
      /\ dest = [v \in Bq!Versions |-> IF v \in cfg.old THEN 1 ELSE 0]
      /\ staging = [r \in Bq!RunIds |-> Bq!Missing]
      /\ saved = <<>> /\ job = [id \in Bq!JobIds |-> "absent"]
      /\ bounds = [r \in Bq!RunIds |-> Bq!Unbounded]
      /\ late = {} /\ unsure = FALSE /\ failures = 0
  BY DEF Bq!Init
<1>2. /\ BqRuns \in Nat /\ BqFaults \in Nat /\ BqInsertAttempts \in Nat /\ BqInsertAttempts >= 1
      /\ HttpAttempts \in Nat /\ HttpAttempts >= 1 /\ JobAttempts \in Nat /\ JobAttempts >= 1
  BY BqNumbers
<1>3. \A r \in Bq!RunIds : r > run /\ r # run
  BY <1>1, <1>2 DEF Bq!RunIds
<1>4. \A id \in Bq!JobIds : job[id] = "absent"
  BY <1>1
<1>5. \A r \in Bq!RunIds, s \in Bq!Statements : Bq!None(r, s) /\ ~Bq!Is(r, s, "done")
  <2>1. \A r \in Bq!RunIds, s \in Bq!Statements : \A a \in 0..JobAttempts - 1 : <<r, s,
        a>> \in Bq!JobIds
    BY DEF Bq!JobIds
  <2>2. \A r \in Bq!RunIds,
        s \in Bq!Statements : \A a \in 0..JobAttempts - 1 : job[<<r, s, a>>] = "absent"
    BY <1>4, <2>1
  <2> QED BY <2>2 DEF Bq!None, Bq!Is
<1>6. /\ dest \in [Bq!Versions -> Nat] /\ Bq!Held(dest) = cfg.old
      /\ \A v \in Bq!Versions : dest[v] <= 1
      /\ \A v \in Bq!Held(dest) : dest[v] = 1
  <2>1. cfg.old \subseteq Bq!Versions
    BY <1>1, BqTransfer
  <2> QED BY <1>1, <2>1 DEF Bq!Held
<1>7. Bq!Typed
  <2>1. batch \in Seq(Bq!Versions) /\ Len(batch) = 0 /\ saved \in Seq(Nat) /\ DOMAIN saved = {}
    BY <1>1
  <2>2. run \in 0..BqRuns /\ failures \in 0..BqFaults /\ again \in 0..JobAttempts - 1
        /\ attempt \in 1..HttpAttempts \cup 1..BqInsertAttempts
    BY <1>1, <1>2
  <2>3. job \in [Bq!JobIds -> {"absent", "pending", "done", "failed", "limited"}]
    BY <1>1
  <2>4. sent \in 0..Len(batch) /\ stream \in Nat /\ \A i, j \in 1..Len(batch) : FALSE
    BY <1>1, <2>1
  <2>5. at \in Bq!Steps /\ stmt \in Bq!Statements /\ DOMAIN staging = Bq!RunIds
        /\ DOMAIN bounds = Bq!RunIds
        /\ \A r \in Bq!RunIds : staging[r] = Bq!Missing
    BY <1>1 DEF Bq!Steps, Bq!Statements
  <2>6. Bq!TypeOK
    BY <1>1, <1>6, <2>2, <2>3, <2>4 DEF Bq!TypeOK
  <2> QED BY <2>1, <2>4, <2>5, <2>6 DEF Bq!Typed
<1>8. Bq!Stepped
  BY <1>1 DEF Bq!Stepped, Bq!Calling
<1>9. Bq!Jobs
  BY <1>1, <1>4 DEF Bq!Jobs, Bq!Cloned, Bq!Before, Bq!Promotes, Bq!Inserting, Bq!Calling
<1>10. Bq!Staged
  BY <1>1 DEF Bq!Staged, Bq!Calling, Bq!Inserting
<1>11. Bq!Counted
  BY <1>1 DEF Bq!Counted
<1>12. Bq!Once
  BY <1>1, <1>5 DEF Bq!Once, Bq!Promotable, Bq!Statements
<1>13. Bq!OneRow
  <2>1. \A u, v \in cfg.old : Bq!K(u) = Bq!K(v) => u = v
    BY <1>1, BqTransfer
  <2> QED BY <1>6, <2>1 DEF Bq!OneRow
<1>14. Bq!Reading
  BY <1>1 DEF Bq!Reading, Bq!Begun
<1>15. Bq!CoveredTo(0)
  <2>1. SUFFICES ASSUME NEW v \in Bq!Newest(Bq!Visible(0)) PROVE Bq!Covered(v)
    BY DEF Bq!CoveredTo
  <2>2. \A x \in Bq!NewestOf(cfg.log, {u \in DOMAIN cfg.log \ cfg.gone : cfg.log[u].w <= 0}) :
          \E u \in cfg.old : cfg.log[u].k = cfg.log[x].k /\ cfg.log[u].w >= cfg.log[x].w
    BY <1>1 DEF Bq!BigQueryConstants
  <2>3. v \in Bq!NewestOf(cfg.log, {u \in DOMAIN cfg.log \ cfg.gone : cfg.log[u].w <= 0})
    BY <2>1 DEF Bq!Newest, Bq!Visible, Bq!Versions, Bq!W
  <2> QED BY <1>6, <2>2, <2>3 DEF Bq!Covered, Bq!K, Bq!W
<1>16. Bq!Saved
  <2>1. DOMAIN saved = {}
    BY <1>1
  <2>2. "promote" \in Bq!Statements
    BY DEF Bq!Statements
  <2> QED BY <1>5, <1>15, <2>1, <2>2 DEF Bq!Saved
<1>17. Bq!Done
  BY <1>1 DEF Bq!Done
<1> QED BY <1>7, <1>8, <1>9, <1>10, <1>11, <1>12, <1>13, <1>14, <1>16, <1>17 DEF Bq!BInv

\* A step that changes nothing.
LEMMA BqStutters ==
  ASSUME Bq!BInv, UNCHANGED Bq!vars
  PROVE  Bq!BInv'
<1>1. /\ cfg' = cfg /\ run' = run /\ at' = at /\ stmt' = stmt /\ attempt' = attempt
         /\ again' = again
      /\ batch' = batch /\ sent' = sent /\ stream' = stream /\ dest' = dest /\ staging' = staging
      /\ saved' = saved /\ job' = job /\ bounds' = bounds /\ late' = late /\ unsure' = unsure
      /\ failures' = failures
  BY DEF Bq!vars, Bq!writing, Bq!tables, Bq!saved, Bq!jobs, Bq!told
<1>2. /\ Bq!Versions' = Bq!Versions /\ Bq!RunIds' = Bq!RunIds /\ Bq!JobIds' = Bq!JobIds
         /\ Bq!Statements' = Bq!Statements
      /\ Bq!Job' = Bq!Job /\ Bq!Sent' = Bq!Sent /\ Bq!Whole' = Bq!Whole /\ Bq!Request' = Bq!Request
         /\ Bq!Offset' = Bq!Offset
      /\ Bq!Cursor' = Bq!Cursor /\ (Bq!Inserting <=> Bq!Inserting)'
         /\ (Bq!Inserting' <=> Bq!Inserting)
      /\ (Bq!Calling' <=> Bq!Calling)
  BY <1>1 DEF Bq!Versions, Bq!RunIds, Bq!JobIds, Bq!Statements, Bq!Job, Bq!Sent, Bq!Whole,
              Bq!Request, Bq!CallEnd, Bq!Offset, Bq!Cursor, Bq!Inserting, Bq!Calling
<1>3. Bq!Typed' /\ Bq!Stepped'
  BY <1>1, <1>2 DEF Bq!BInv, Bq!Typed, Bq!TypeOK, Bq!Stepped
<1>4. Bq!Jobs'
  BY <1>1, <1>2 DEF Bq!BInv, Bq!Jobs, Bq!Is, Bq!None, Bq!Cloned, Bq!Before, Bq!Promotes
<1>5. Bq!Staged'
  BY <1>1, <1>2 DEF Bq!BInv, Bq!Staged, Bq!Is, Bq!Empty
<1>6. Bq!Counted'
  BY <1>1, <1>2 DEF Bq!BInv, Bq!Counted, Bq!Now, Bq!Dup, Bq!CountMatches
<1>7. Bq!Once'
  BY <1>1, <1>2 DEF Bq!BInv, Bq!Once, Bq!Promotable, Bq!None, Bq!Fit, Bq!K, Bq!P
<1>8. Bq!OneRow'
  BY <1>1, <1>2 DEF Bq!BInv, Bq!OneRow, Bq!K
<1>9. Bq!Reading'
  BY <1>1, <1>2
  DEF Bq!BInv, Bq!Reading, Bq!Begun, Bq!None, Bq!Visible, Bq!Newest, Bq!Covered, Bq!W, Bq!K
<1>10. Bq!Saved'
  BY <1>1, <1>2
  DEF Bq!BInv, Bq!Saved, Bq!Is, Bq!CoveredTo, Bq!Visible, Bq!Newest, Bq!Covered, Bq!W, Bq!K
<1>11. Bq!Done'
  BY <1>1, <1>2 DEF Bq!BInv, Bq!Done, Bq!Is, Bq!P
<1> QED BY <1>3, <1>4, <1>5, <1>6, <1>7, <1>8, <1>9, <1>10, <1>11 DEF Bq!BInv

\* Every step keeps it.
LEMMA BqSteps0 ==
  ASSUME Bq!BigQueryConstants, Bq!BInv, [Bq!Next]_Bq!vars
  PROVE  Bq!BInv'
<1>1. CASE Bq!Next
  BY <1>1, BqTypedStep, BqSteppedStep, BqJobsStep, BqStagedStep, BqCountedStep, BqOnceStep,
     BqOneRowStep,
     BqReadingStep, BqSavedStep, BqDoneStep
  DEF Bq!BInv
<1>2. CASE UNCHANGED Bq!vars
  BY <1>2, BqStutters
<1> QED BY <1>1, <1>2

\* What it promises.
LEMMA BqPromises ==
  ASSUME Bq!BigQueryConstants, Bq!BInv
  PROVE  Bq!TypeOK /\ Bq!WrittenOnce /\ Bq!CursorCovered /\ Bq!SuccessIsDone
<1>1. Bq!TypeOK /\ Bq!Typed
  BY DEF Bq!BInv, Bq!Typed
<1>2. cfg \in BqTransfers /\ dest \in [Bq!Versions -> Nat] /\ cfg.promote \in {"merge", "swap"}
  BY <1>1, BqCounters, BqTransfer
<1>3. Bq!WrittenOnce
  <2>1. ASSUME cfg.promote = "merge", NEW k \in Bq!Keys
        PROVE  Bq!CountOf(dest, k) <= 1
    <3>1. \A u \in Bq!Held(dest) : dest[u] = 1
          /\ \A v \in Bq!Held(dest) : Bq!K(u) = Bq!K(v) => u = v
      BY <2>1 DEF Bq!BInv, Bq!OneRow
    <3>2. \A u \in Bq!Versions : u \in Bq!Held(dest) \/ dest[u] = 0
      BY <1>2 DEF Bq!Held
    <3>3. CASE \E v \in Bq!Held(dest) : Bq!K(v) = k
      <4>1. PICK v \in Bq!Held(dest) : Bq!K(v) = k
        BY <3>3
      <4>2. \A u \in Bq!Versions : Bq!K(u) = k /\ u # v => dest[u] = 0
        BY <3>1, <3>2, <4>1
      <4>3. Bq!CountOf(dest, k) = dest[v]
        BY <1>2, <4>1, <4>2, BqCountIs DEF Bq!Held
      <4> QED BY <3>1, <4>1, <4>3
    <3>4. CASE ~\E v \in Bq!Held(dest) : Bq!K(v) = k
      <4>1. \A u \in Bq!Versions : Bq!K(u) = k => dest[u] = 0
        BY <3>2, <3>4
      <4>2. Bq!CountOf(dest, k) = 0
        BY <1>2, <4>1, BqCountIs
      <4> QED BY <4>2
    <3> QED BY <3>3, <3>4
  <2>2. cfg.offsets /\ ~unsure => \A v \in Bq!Versions : dest[v] <= 1
    BY DEF Bq!BInv, Bq!OneRow
  <2> QED BY <2>1, <2>2 DEF Bq!WrittenOnce
<1>4. Bq!CursorCovered
  <2>1. SUFFICES ASSUME "promote" \notin late, cfg.promote = "merge"
                 PROVE  Bq!CoveredTo(Bq!Cursor)
    BY DEF Bq!CursorCovered, Bq!CoveredTo, Bq!Covered, Bq!Visible
  <2>2. Bq!CoveredTo(0) /\ \A i \in DOMAIN saved : Bq!CoveredTo(saved[i])
    BY <2>1 DEF Bq!BInv, Bq!Saved
  <2> QED BY <1>1, <2>2, BqCursorIs
<1>5. Bq!SuccessIsDone
  <2>1. SUFFICES ASSUME at = "ok", run > 0, late = {}
                 PROVE  IF cfg.promote = "swap" THEN Bq!Held(dest) = Bq!Newest(Bq!Visible(run))
                        ELSE /\ Bq!Cursor = run
                             /\ cfg.stale => \A v \in cfg.gone : Bq!P(v) \in bounds[run].parts =>
                                dest[v] = 0
    BY DEF Bq!SuccessIsDone
  <2>2. run \in Bq!RunIds
    BY <1>1, <2>1, BqJobThere
  <2>3. \A a \in 0..JobAttempts - 1 : <<run, "promote", a>> \in Bq!JobIds /\ <<run, "persist",
        a>> \in Bq!JobIds
    BY <2>2 DEF Bq!JobIds, Bq!Statements
  <2>4. CASE cfg.promote = "swap"
    <3>1. Bq!Is(run, "promote", "done")
      BY <2>1, <2>4 DEF Bq!BInv, Bq!Jobs
    <3>2. Bq!Is(run, "clone", "done")
      BY <2>3, <3>1 DEF Bq!Is, Bq!BInv, Bq!Jobs
    <3>3. Bq!Begun
      BY <2>1, <3>2 DEF Bq!Begun, Bq!Is, Bq!None
    <3>4. Bq!Held(dest) = Bq!Whole /\ Bq!Whole = Bq!Newest(Bq!Visible(run))
      BY <2>1, <2>4, <3>1, <3>3 DEF Bq!BInv, Bq!Done, Bq!Reading
    <3> QED BY <2>4, <3>4
  <2>5. CASE cfg.promote = "merge"
    <3>1. Bq!Is(run, "persist", "done")
      BY <2>1, <2>5 DEF Bq!BInv, Bq!Jobs
    <3>2. Bq!Is(run, "promote", "done")
      BY <2>3, <3>1 DEF Bq!Is, Bq!BInv, Bq!Jobs
    <3>3. /\ Bq!Cursor = run
          /\ cfg.stale => \A v \in cfg.gone : Bq!P(v) \in bounds[run].parts => dest[v] = 0
      BY <2>1, <2>5, <3>1, <3>2 DEF Bq!BInv, Bq!Done
    <3> QED BY <2>5, <3>3
  <2> QED BY <1>2, <2>4, <2>5
<1> QED BY <1>1, <1>3, <1>4, <1>5

-----------------------------------------------------------------------------
(* One destination runs in each behaviour.                                 *)

\* Where it is BigQuery it starts as its own module says, its steps are that
\* module's, and it stays the one.
LEMMA BqRuns0 ==
  /\ SinksInit => (which = "bigquery" => Bq!Init)
  /\ [SinksNext]_sinksVars =>
       which' = which /\ (which = "bigquery" => [Bq!Next]_Bq!vars)
<1>1. SinksInit => (which = "bigquery" => Bq!Init)
  BY DEF SinksInit
<1>2. UNCHANGED sinksVars => which' = which /\ UNCHANGED Bq!vars
  BY DEF sinksVars, bqOnly, bqChOnly, Bq!vars, Bq!writing, Bq!tables, Bq!saved, Bq!jobs, Bq!told
<1>3. SinksNext => which' = which /\ (which = "bigquery" => Bq!Next)
  BY DEF SinksNext, CsvStep, BqStep, ChStep
<1> QED BY <1>1, <1>2, <1>3

\* The inductive invariant of the BigQuery destination holds in every state.
THEOREM BigQueryInvariant == SinksSpec => [](which = "bigquery" => Bq!BInv)
<1>1. SinksInit => (which = "bigquery" => Bq!BInv)
  BY BqRuns0, BigQueryInstance, BqStarts
<1>2. (which = "bigquery" => Bq!BInv) /\ [SinksNext]_sinksVars =>
      (which = "bigquery" => Bq!BInv)'
  BY BqRuns0, BigQueryInstance, BqSteps0
<1> QED BY <1>1, <1>2, PTL DEF SinksSpec

\* The MERGE leaves one row of each key, though staging may hold a row twice,
\* or two versions of a key, and though a job may run late; Storage Write
\* stores each row once through lost answers and retries, and a stream that
\* counts otherwise stops the run before it is promoted.
THEOREM RowsAreWrittenOnce == SinksSpec => []BqWrittenOnce
<1>1. (which = "bigquery" => Bq!BInv) => BqWrittenOnce
  BY BigQueryInstance, BqPromises DEF BqWrittenOnce
<1> QED BY <1>1, BigQueryInvariant, PTL

\* The newest row of the state table is never past a row the destination has
\* not, whatever jobs.insert and jobs.get answered, unless a MERGE nobody
\* waited for ran in a later run.
THEOREM BigQueryCursorIsCovered == SinksSpec => []BqCursorCovered
<1>1. (which = "bigquery" => Bq!BInv) => BqCursorCovered
  BY BigQueryInstance, BqPromises DEF BqCursorCovered
<1> QED BY <1>1, BigQueryInvariant, PTL

\* A run that ends well has promoted what it read, deleted what is stale in
\* its window, and saved its cursor: it saw each of its jobs done.
THEOREM SuccessMeansDone == SinksSpec => []BqSuccessIsDone
<1>1. (which = "bigquery" => Bq!BInv) => BqSuccessIsDone
  BY BigQueryInstance, BqPromises DEF BqSuccessIsDone
<1> QED BY <1>1, BigQueryInvariant, PTL

-----------------------------------------------------------------------------
(* All three.                                                              *)

\* In the composition the folder does what CsvFolder says, or nothing, so the
\* theorems about Spec are true of every behaviour of it.
THEOREM FolderInSinks == SinksSpec => Spec
<1>1. SinksInit => Init
  BY DEF SinksInit
<1>2. [SinksNext]_sinksVars => [Next]_vars
  <2>1. CsvStep => Next
    BY DEF CsvStep
  <2>2. BqStep \/ ChStep => UNCHANGED vars
    BY DEF BqStep, ChStep
  <2>3. UNCHANGED sinksVars => UNCHANGED vars
    BY DEF sinksVars
  <2> QED BY <2>1, <2>2, <2>3 DEF SinksNext
<1> QED BY <1>1, <1>2, PTL DEF SinksSpec, Spec

\* Whichever destination runs, its variables keep their types, and no call, no
\* statement and no removal is tried more often than the code allows
\* (REMOVE_TRIES, MAX_INSERT_ATTEMPTS, RATE_LIMITED_JOB_ATTEMPTS).
THEOREM SinksTyping ==
  ASSUME Placed
  PROVE  SinksSpec => []SinksTypeOK
<1>1. FInv => TypeOK
  <2>1. SUFFICES ASSUME FInv PROVE TypeOK
    OBVIOUS
  <2>2. TypedPlaces /\ TypedSteps /\ TypedWriters
    BY <2>1 DEF FInv, Typed
  <2>3. \A p \in Paths : folder[p].there \in BOOLEAN /\ IsFiniteSet(folder[p].files)
    BY <2>2 DEF TypedPlaces, Folder
  <2>4. \A r \in Runs : next[r] \in Nat /\ tries[r] \in 0..RemoveTries
    <3>1. next \in [Runs -> Nat] /\ tries \in [Runs -> 0..RemoveTries]
      BY <2>2 DEF TypedSteps, TypedWriters
    <3> QED BY <3>1
  <2> QED BY <2>2, <2>3, <2>4 DEF TypedPlaces, TypedSteps, TypeOK
<1>2. (which = "bigquery" => Bq!BInv) => (which = "bigquery" => Bq!TypeOK)
  BY BigQueryInstance, BqPromises
<1>3. (which = "clickhouse" => Ch!CInv) => (which = "clickhouse" => Ch!TypeOK)
  BY ClickHouseInstance, ChPromises
<1>4. FInv /\ (which = "bigquery" => Bq!BInv) /\ (which = "clickhouse" => Ch!CInv)
      => SinksTypeOK
  BY <1>1, <1>2, <1>3 DEF SinksTypeOK
<1> QED BY <1>4, FolderInSinks, FolderInvariant, BigQueryInvariant, ClickHouseInvariant, PTL
=============================================================================
