----------------------------- MODULE KeyRangesInv -----------------------------
(***************************************************************************)
(* Why every key is read once: the inductive invariant of KeyRanges.       *)
(***************************************************************************)
EXTENDS KeyRanges

\* What the constants are.  Bounds that are given are an interval of i64; only
\* MySQL's and ClickHouse's keys can be unsigned, and no ClickHouse read is
\* swept (setup_clickhouse refuses it).
RangesConstants ==
  /\ MinInt \in Int /\ MaxInt \in Int /\ 0 \in MinInt..MaxInt
  /\ IsFiniteSet(Keys) /\ \A k \in Keys : k # NullKey => k \in Int /\ k >= MinInt
  /\ MaxRows \in Nat /\ BoundsAttempts \in Nat \ {0} /\ LeastWindow \in Nat
  /\ \A r \in Reads :
       /\ r.parallel \in Nat /\ r.nullable \in BOOLEAN /\ r.start \in Nat /\ r.ceiling \in Nat
       /\ r.above = NoCursor \/ r.above \in Int
       /\ r.given = NoBounds
          \/ (r.given.min \in MinInt..MaxInt /\ r.given.max \in r.given.min..MaxInt)
       /\ r.unsigned => r.engine \in {"mysql", "clickhouse"}
       /\ r.engine = "clickhouse" => r.sweep = "no" /\ r.given = NoBounds

\* The keys a partition asks for.
Of(p) ==
  CASE p.of = "all"   -> Keys
    [] p.of = "null"  -> {NullKey}
    [] p.of = "range" -> In(p)

Planned == pc \in {"planned", "read", "done"}

\* The types, and that rows are only added.
Typed ==
  /\ TypeOK
  /\ got \in [Keys -> {0, 1}]
  /\ \A k \in rows : MayHold(k)
  /\ Planned => present \subseteq rows
  /\ pc \in {"read", "done"} => present \subseteq early /\ early \subseteq rows
  /\ pc \in {"plan", "unswept", "planned"} => \A k \in Keys : got[k] = 0
  /\ pc = "unswept" => read.given = NoBounds
  /\ pc = "planned" => todo = DOMAIN parts /\ (Swept => lo = Begin(window.min))
  /\ Planned /\ ~Swept => read.given = NoBounds

\* The partitions overlap nowhere, and have a place for what is there or may
\* come inside them.
Divided ==
  Planned /\ ~Swept =>
    /\ \A i, j \in DOMAIN parts : Of(parts[i]) \cap Of(parts[j]) # {} => i = j
    /\ \A k \in Keys : Passes(k) /\ MayHold(k) /\ (k \in present \/ Covered(k)) =>
         \E i \in DOMAIN parts : k \in Of(parts[i])

\* What was read is what the partitions that were read hold of the rows there
\* were when the reading began.
PartsRead ==
  pc \in {"read", "done"} /\ ~Swept =>
    /\ pc = "done" => todo = {}
    /\ \A k \in Keys : got[k] = 1 => Passes(k) /\ \E i \in DOMAIN parts \ todo : k \in Of(parts[i])
    /\ \A k \in early, i \in DOMAIN parts \ todo : Passes(k) /\ k \in Of(parts[i]) => got[k] = 1

\* A sweep goes from below its smallest key to its largest, and takes in what is
\* there.
Placed ==
  Planned /\ Swept =>
    /\ window.min \in MinInt..MaxInt /\ window.max \in window.min..MaxInt
    /\ lo \in Begin(window.min)..window.max
    /\ IF read.given # NoBounds THEN window = read.given
       ELSE \A k \in Integer(present) : k \in In(window)

Taken(k) == k # NullKey /\ Begin(window.min) < k /\ k <= lo

WindowsRead ==
  pc \in {"read", "done"} /\ Swept =>
    /\ pc = "done" => lo = window.max
    /\ \A k \in Keys : got[k] = 1 => Passes(k)
         /\ (Taken(k) \/ (k = NullKey /\ pc = "done" /\ read.given = NoBounds))
    /\ \A k \in early : Passes(k) /\ (Taken(k) \/ (k = NullKey /\ pc = "done" /\ read.given = NoBounds))
         => got[k] = 1

KInv == Typed /\ Divided /\ PartsRead /\ Placed /\ WindowsRead
=============================================================================
