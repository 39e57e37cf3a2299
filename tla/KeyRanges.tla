------------------------------ MODULE KeyRanges ------------------------------
(***************************************************************************)
(* Which keys each statement of a plain read asks for: the ranges of a     *)
(* parallel read, or the windows of a sweep, planned from the smallest and *)
(* largest key and read while rows are still being added.  A row is its    *)
(* key; NullKey is a row without one.                                      *)
(***************************************************************************)
EXTENDS Integers, Sequences, FiniteSets

CONSTANTS
  Reads,           \* the reads a behaviour may be of, each
                   \*   [engine: "postgres", "mysql" or "clickhouse",
                   \*    parallel: parallelism, above: the cursor, if the
                   \*    watermark is the key, or NoCursor,
                   \*    nullable, unsigned: the key column is,
                   \*    sweep: "no", "probed", or "forced" (windowed=True),
                   \*    given: window_bounds [min, max], or NoBounds,
                   \*    start, ceiling: widths of a window]
  Keys,            \* keys a row may have, NullKey perhaps among them
  NullKey,         \* stands for NULL, outside the integers' range below
  NoCursor,        \* stands for no cursor
  MinInt, MaxInt,  \* i64::MIN and i64::MAX
  LeastWindow,     \* MIN_READ_WINDOW_ROWS, 20000
  BoundsAttempts,  \* KEY_BOUNDS_ATTEMPTS, 3
  MaxRows          \* bound: rows of the source

VARIABLES
  read,     \* a member of Reads
  rows,     \* the keys in the source
  pc,       \* where the read is
  tries,    \* probes of the key bounds that failed
  window,   \* WindowPlan's [min, max], or NoBounds
  parts,    \* the partitions, each [of: "all", "null" or "range", min, max]
  todo,     \* those not read yet
  lo, step, \* the sweep's
  present,  \* history: rows when the bounds were found
  early,    \* history: rows when the reading began
  got       \* how many times each key was sent on

sweeping == <<lo, step>>
planned  == <<tries, window, parts, present>>
vars     == <<read, rows, pc, planned, todo, sweeping, early, got>>

-----------------------------------------------------------------------------
NoBounds == [min |-> 1, max |-> 0]

Integer(ks)  == {k \in ks : k # NullKey}
Least(S)     == CHOOSE x \in S : \A y \in S : x <= y
Largest(S)   == CHOOSE x \in S : \A y \in S : y <= x
Smaller(a, b) == IF a < b THEN a ELSE b
Larger(a, b)  == IF a > b THEN a ELSE b

Forced  == read.sweep = "forced" \/ read.given # NoBounds
Above   == read.above # NoCursor

\* The read's own filter, which no NULL passes.
Passes(k) == Above => k # NullKey /\ k > read.above

\* watermark_bounds_the_key.
BoundedByCursor == Above /\ ~Forced

\* An unsigned key may be larger than i64::MAX.
MayHold(k) ==
  /\ k = NullKey => read.nullable
  /\ k # NullKey => IF read.unsigned THEN k >= 0 ELSE k <= MaxInt

\* Rows are added at any time.
Grow ==
  /\ pc # "done" /\ Cardinality(rows) < MaxRows
  /\ \E k \in Keys \ rows : MayHold(k) /\ rows' = rows \cup {k}
  /\ UNCHANGED <<read, pc, planned, todo, sweeping, early, got>>

-----------------------------------------------------------------------------
(* Planning.                                                               *)

Part(of, min, max) == [of |-> of, min |-> min, max |-> max]
Everything == <<Part("all", 1, 0)>>
NullKeys   == <<Part("null", 1, 0)>>

\* super::range_partitions, of [min, max] in up to n parts.
Split(min, max, n) ==
  LET span == max - min + 1
      width == Larger((span + n - 1) \div n, 1)
      count == (span + width - 1) \div width
  IN [i \in 1..count |-> Part("range", min + (i - 1) * width, Smaller(min + i * width - 1, max))]

Parts(keys, from, null) ==
  IF read.parallel <= 1 \/ keys = {} THEN Everything
  ELSE Split(from, Largest(keys), read.parallel) \o (IF null THEN NullKeys ELSE <<>>)

\* MIN and MAX are of the keys above the cursor.
KeysAbove == {k \in Integer(rows) : Passes(k)}

\* The ranges start just past the cursor; after a variant, at the first key found
\* there.
FromLowest(keys) == Least(keys)
From(keys)       == IF Above THEN read.above + 1 ELSE Least(keys)

\* range_partitions of PgSource and MySqlSource, then of ClickHouseSource, which
\* are of every key.
SqlRanges == Parts(KeysAbove, From(KeysAbove), read.nullable /\ ~Above)
ClickHouseRanges == LET keys == Integer(rows) IN Parts(keys, Least(keys), read.nullable)

Ranges == IF read.engine = "clickhouse" THEN ClickHouseRanges ELSE SqlRanges

Start(w, ps) ==
  /\ window' = w /\ parts' = ps /\ todo' = DOMAIN ps
  /\ pc' = "planned" /\ present' = rows

\* setup_postgres, setup_mysql: a read that is not swept is split, unless the
\* cursor spared it the sweep.
PlanRanges ==
  /\ pc = "unswept" \/ (pc = "plan" /\ read.sweep = "no" /\ ~Forced)
  /\ Start(NoBounds, Ranges)
  /\ UNCHANGED <<read, rows, tries, sweeping, early, got>>

PlanOnePass ==
  /\ pc = "plan" /\ read.sweep = "probed" /\ BoundedByCursor
  /\ Start(NoBounds, Everything)
  /\ UNCHANGED <<read, rows, tries, sweeping, early, got>>

\* plan_read_window; the sweep begins just below the smallest key.
Below(min)   == Larger(min - 1, MinInt)
Begin(min)   == Below(min)

Floor == Smaller(Larger(read.start \div 64, LeastWindow), read.start)

Sweep(b) == Start(b, Everything) /\ lo' = Begin(b.min) /\ step' = read.start

\* Without bounds there is no sweep.
NoSweep == pc' = "unswept" /\ UNCHANGED <<window, parts, todo, present, sweeping>>

PlanGiven ==
  /\ pc = "plan" /\ read.given # NoBounds
  /\ Sweep(read.given)
  /\ UNCHANGED <<read, rows, tries, early, got>>

\* key_bounds of PgSource, then of MySqlSource, whose keys may not fit an i64:
\* an empty relation has none.
PgBounds == LET keys == Integer(rows)
            IN IF keys = {} THEN NoBounds ELSE [min |-> Least(keys), max |-> Largest(keys)]
MySqlBounds == IF PgBounds # NoBounds /\ PgBounds.max > MaxInt THEN NoBounds ELSE PgBounds

KeyBounds == IF read.engine = "mysql" THEN MySqlBounds ELSE PgBounds

PlanSweep ==
  /\ pc = "plan" /\ read.sweep # "no" /\ read.given = NoBounds /\ ~BoundedByCursor
  /\ IF KeyBounds = NoBounds THEN NoSweep ELSE Sweep(KeyBounds)
  /\ UNCHANGED <<read, rows, tries, early, got>>

\* key_bounds_with_retry: a warning, and no bounds.
ProbeFails ==
  /\ pc = "plan" /\ read.sweep # "no" /\ read.given = NoBounds /\ ~BoundedByCursor
  /\ IF tries + 1 < BoundsAttempts
     THEN tries' = tries + 1 /\ UNCHANGED <<pc, window, parts, todo, present, sweeping>>
     ELSE NoSweep /\ UNCHANGED tries
  /\ UNCHANGED <<read, rows, early, got>>

-----------------------------------------------------------------------------
(* Reading.                                                                *)

Swept == window # NoBounds

Begins ==
  /\ pc = "planned" /\ pc' = "read" /\ early' = rows
  /\ UNCHANGED <<read, rows, planned, todo, sweeping, got>>

Send(ks) ==
  got' = [k \in Keys |-> got[k] + (IF k \in rows /\ k \in ks /\ Passes(k) THEN 1 ELSE 0)]

In(b) == {k \in Integer(Keys) : b.min <= k /\ k <= b.max}

\* The partitions are read at the same time.
ReadPart ==
  /\ pc = "read" /\ ~Swept
  /\ \E i \in todo :
       /\ Send(CASE parts[i].of = "all"   -> Keys
                 [] parts[i].of = "null"  -> {NullKey}
                 [] parts[i].of = "range" -> In(parts[i]))
       /\ todo' = todo \ {i}
       /\ pc' = IF todo = {i} THEN "done" ELSE pc
  /\ UNCHANGED <<read, rows, planned, sweeping, early>>

\* window_hi.
Until == IF lo + step > MaxInt THEN window.max ELSE Smaller(lo + step, window.max)

\* next_window after a window that was read: any width the clock may ask for.
ReadWindow ==
  /\ pc = "read" /\ Swept /\ lo < window.max
  /\ Send({k \in Integer(Keys) : lo < k /\ k <= Until})
  /\ \E w \in ((step + 2) \div 4)..((5 * step + 2) \div 4) :
       step' = Larger(Smaller(w, read.ceiling), Floor)
  /\ lo' = Until
  /\ UNCHANGED <<read, rows, pc, planned, todo, early>>

\* A window that is cancelled is read again, at half the width; one that
\* cannot be narrower fails the read.
CancelWindow ==
  /\ pc = "read" /\ Swept /\ lo < window.max
  /\ IF step > Floor THEN step' = Larger(step \div 2, Floor) /\ UNCHANGED pc
     ELSE pc' = "failed" /\ UNCHANGED step
  /\ UNCHANGED <<read, rows, planned, todo, lo, early, got>>

ReadNull ==
  /\ pc = "read" /\ Swept /\ lo >= window.max
  /\ Send(IF read.nullable /\ read.given = NoBounds THEN {NullKey} ELSE {})
  /\ todo' = {} /\ pc' = "done"
  /\ UNCHANGED <<read, rows, planned, sweeping, early>>

-----------------------------------------------------------------------------
Init ==
  /\ read \in Reads
  /\ rows \in {ks \in SUBSET Keys : Cardinality(ks) < MaxRows /\ \A k \in ks : MayHold(k)}
  /\ pc = "plan" /\ tries = 0 /\ window = NoBounds /\ parts = <<>> /\ todo = {}
  /\ lo = 0 /\ step = 0 /\ present = {} /\ early = {}
  /\ got = [k \in Keys |-> 0]

Next ==
  \/ Grow \/ PlanRanges \/ PlanOnePass \/ PlanGiven \/ PlanSweep \/ ProbeFails
  \/ Begins \/ ReadPart \/ ReadWindow \/ CancelWindow \/ ReadNull
  \/ pc \in {"done", "failed"} /\ UNCHANGED vars

Spec == Init /\ [][Next]_vars

-----------------------------------------------------------------------------
TypeOK ==
  /\ read \in Reads /\ rows \subseteq Keys /\ Cardinality(rows) <= MaxRows
  /\ pc \in {"plan", "unswept", "planned", "read", "done", "failed"}
  /\ tries \in 0..(BoundsAttempts - 1)
  /\ lo \in MinInt..MaxInt /\ step \in 0..Larger(read.ceiling, read.start)
  /\ todo \subseteq DOMAIN parts

\* Where the first range has to start.
Bottom == IF Above /\ read.engine # "clickhouse" THEN read.above + 1 ELSE Least(Integer(present))

\* The rows that came after the plan was made and lie inside it.
Covered(k) ==
  \/ k = NullKey \/ (parts = Everything /\ ~Swept)
  \/ Swept /\ k \in In(window)
  \/ ~Swept /\ parts # Everything /\ Bottom <= k /\ k <= Largest(Integer(present))

Asked(k) ==
  /\ Passes(k)
  /\ read.given # NoBounds => k # NullKey /\ read.given.min <= k /\ k <= read.given.max

\* Every row the read asks for that was there when its bounds were found, or
\* that came inside them before it began (the gap above the cursor too), is read
\* once, by one partition or window, however wide the windows are and however often one is
\* cancelled; no row is read twice.  A sweep's first window is open below, so
\* a key that is i64::MIN is in none.
\* (range_partitions, plan_read_window, next_window, window_hi.)
KeysReadOnce ==
  /\ \A k \in Keys : got[k] <= 1
  /\ pc = "done" => \A k \in Keys :
       /\ got[k] = 1 => Asked(k)
       /\ Asked(k) /\ (k \in present \/ (k \in early /\ Covered(k))) =>
            got[k] = 1 \/ (k = MinInt /\ Swept)
=============================================================================
