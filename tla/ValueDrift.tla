------------------------------ MODULE ValueDrift ------------------------------
(***************************************************************************)
(* reconcile_values: one column of the rows both sides hold, compared.     *)
(* A cell is [f: its family, m, s]: a number m / 10^s, where a float is    *)
(* taken to have a finite decimal form; a date in days, a timestamp in     *)
(* microseconds, of which a day has MicrosPerDay; or bytes, told apart by  *)
(* m.  What a sync makes of a value is ClickHouse's conversion on insert.  *)
(***************************************************************************)
EXTENDS Integers, Sequences, FiniteSets

CONSTANTS
  Columns,     \* the columns a behaviour may compare, each
               \*   [source, dest: [f, s]: the family and scale,
               \*    unit: microseconds a tick of the destination has,
               \*    nullable: the destination column is, default: what it
               \*    holds for NULL if not, tolerance: in the finest scale,
               \*    named: the caller asked for it]
  SourceKeys,  \* key cells the source may have, Null among them
  DestKeys,    \* and the destination
  Cells(_, _), \* the values a column of a family and scale may have
  MaxRows,     \* bound: rows of a side
  FinestScale, \* the largest scale there is
  MicrosPerDay \* MICROS_PER_DAY

VARIABLES
  column,  \* a member of Columns
  pc,      \* where the comparison is
  dest,    \* dest_batches: a sequence of [k: key cell, c: cell]
  source,  \* source_batches
  result   \* ValueReconcileResult

vars == <<column, pc, dest, source, result>>

-----------------------------------------------------------------------------
Null == [f |-> "null", m |-> 0, s |-> 0]

TowardZero(a, b) == IF a >= 0 THEN a \div b ELSE -((-a) \div b)
Power[n \in Nat] == IF n = 0 THEN 1 ELSE 10 * Power[n - 1]
Distance(a, b)   == IF a > b THEN a - b ELSE b - a

Numbers == {"int", "dec", "bool"}

\* rule_for: how cells of two families compare, if they do.
RuleFor(s, d) ==
  CASE s \in Numbers /\ d \in {"int", "dec"}                  -> "exact"
    [] s = "float" /\ d \in {"int", "dec", "float"}           -> "float"
    [] s \in {"int", "dec"} /\ d = "float"                    -> "float"
    [] s \in {"int", "bool"} /\ d = "bool"                    -> "truth"
    [] s = "bytes" /\ d = "bytes"                             -> "bytes"
    [] s \in {"date", "timestamp"} /\ d = "date"              -> "date"
    [] s \in {"date", "timestamp"} /\ d = "timestamp"         -> "instant"
    [] OTHER                                                  -> "none"

Rule == RuleFor(column.source.f, column.dest.f)

\* key_value: trailing zeros of a decimal dropped, a whole one an integer.
KeyValue(c) ==
  CASE c.f = "bool" -> [c EXCEPT !.f = "int"]
    [] c.f = "dec"  ->
         LET s == CHOOSE t \in 0..c.s :
                    /\ c.m % Power[c.s - t] = 0
                    /\ \A u \in 0..(t - 1) : c.m % Power[c.s - u] # 0
         IN [f |-> IF s = 0 THEN "int" ELSE "dec", m |-> TowardZero(c.m, Power[c.s - s]), s |-> s]
    [] OTHER -> c

-----------------------------------------------------------------------------
(* One pair of cells.                                                      *)

Micros(c) == IF c.f = "date" THEN c.m * MicrosPerDay ELSE c.m
Days(c)   == IF c.f = "date" THEN c.m ELSE c.m \div MicrosPerDay

\* decimals_within: both at the larger scale, then as integers.
Within(s, d) ==
  LET scale == IF s.s > d.s THEN s.s ELSE d.s
      off   == Distance(s.m * Power[scale - s.s], d.m * Power[scale - d.s])
  IN off = 0 \/ off * Power[FinestScale - scale] <= column.tolerance

Same(s, d) ==
  CASE Rule \in {"exact", "float"} -> Within(s, d)
    [] Rule = "truth"   -> (s.m # 0) = (d.m # 0)
    [] Rule = "bytes"   -> s.m = d.m
    [] Rule = "date"    -> Days(s) = Days(d)
    [] Rule = "instant" -> TowardZero(Micros(s), column.unit) = TowardZero(Micros(d), column.unit)

\* null_default_flag: the column cannot hold NULL and holds what one becomes.
HoldsDefault(d) == ~column.nullable /\ d.m = column.default

\* A variant that takes a default for a lost value before it compares them.
DefaultFirst(s, d) ==
  CASE s = Null /\ d = Null         -> "equal"
    [] s = Null /\ HoldsDefault(d)  -> "equal"
    [] s = Null                     -> "nullInSource"
    [] d = Null \/ HoldsDefault(d)  -> "nullInDest"
    [] Same(s, d)                   -> "equal"
    [] OTHER                        -> "mismatch"

Classify(s, d) ==
  CASE s = Null /\ d = Null         -> "equal"
    [] s = Null /\ HoldsDefault(d)  -> "equal"
    [] s = Null /\ ~HoldsDefault(d) /\ d # Null -> "nullInSource"
    [] s # Null /\ d = Null         -> "nullInDest"
    [] s # Null /\ d # Null /\ Same(s, d) -> "equal"
    [] s # Null /\ d # Null /\ ~Same(s, d) /\ HoldsDefault(d) -> "nullInDest"
    [] OTHER                        -> "mismatch"

-----------------------------------------------------------------------------
(* diff.                                                                   *)

KeysOf(rows)  == {KeyValue(rows[i].k) : i \in {j \in DOMAIN rows : rows[j].k # Null}}
At(rows, k)   == {i \in DOMAIN rows : KeyValue(rows[i].k) = k}
Twice(rows)   == {k \in KeysOf(rows) : Cardinality(At(rows, k)) > 1}
CellAt(rows, k) == rows[CHOOSE i \in At(rows, k) : TRUE].c

Compared == (KeysOf(source) \cap KeysOf(dest)) \ (Twice(source) \cup Twice(dest))
Outcomes(o) == Cardinality({k \in Compared : Classify(CellAt(source, k), CellAt(dest, k)) \in o})

None == [compared |-> 0, missing |-> 0, orphans |-> 0, duplicates |-> 0,
         mismatched |-> 0, nullInDest |-> 0, nullInSource |-> 0]

Disjoint == KeysOf(source) # {} /\ KeysOf(dest) # {} /\ KeysOf(source) \cap KeysOf(dest) = {}

\* plan_columns: what cannot be compared is skipped, or refused by name.
Plan ==
  /\ pc = "plan"
  /\ pc' = IF Rule # "none" THEN "dest" ELSE IF column.named THEN "refused" ELSE "skipped"
  /\ UNCHANGED <<column, dest, source, result>>

Row(keys, type) == [k : keys, c : Cells(type.f, type.s) \cup {Null}]
Reads(rows) == UNION {[1..n -> rows] : n \in 0..MaxRows}

\* The destination is read before the source.
ReadDest ==
  /\ pc = "dest"
  /\ dest' \in Reads({r \in Row(DestKeys, column.dest) :
                       IF r.c = Null THEN column.nullable
                       ELSE r.c.f = "timestamp" => r.c.m % column.unit = 0})
  /\ pc' = "source"
  /\ UNCHANGED <<column, source, result>>

ReadSource ==
  /\ pc = "source"
  /\ source' \in Reads(Row(SourceKeys, column.source))
  /\ pc' = "diff"
  /\ UNCHANGED <<column, dest, result>>

Diff ==
  /\ pc = "diff"
  /\ IF Disjoint THEN pc' = "refused" /\ UNCHANGED result
     ELSE /\ pc' = "done"
          /\ result' = [compared     |-> Cardinality(Compared),
                        missing      |-> Cardinality(KeysOf(source) \ KeysOf(dest)),
                        orphans      |-> Cardinality(KeysOf(dest) \ KeysOf(source)),
                        duplicates   |-> Cardinality(Twice(source) \cup Twice(dest)),
                        mismatched   |-> Outcomes({"mismatch", "nullInDest", "nullInSource"}),
                        nullInDest   |-> Outcomes({"nullInDest"}),
                        nullInSource |-> Outcomes({"nullInSource"})]
  /\ UNCHANGED <<column, dest, source>>

-----------------------------------------------------------------------------
Init ==
  /\ column \in Columns
  /\ pc = "plan" /\ dest = <<>> /\ source = <<>> /\ result = None

Next ==
  \/ Plan \/ ReadDest \/ ReadSource \/ Diff
  \/ pc \in {"done", "refused", "skipped"} /\ UNCHANGED vars

Spec == Init /\ [][Next]_vars

-----------------------------------------------------------------------------
TypeOK ==
  /\ column \in Columns
  /\ pc \in {"plan", "dest", "source", "diff", "done", "refused", "skipped"}
  /\ Len(dest) <= MaxRows /\ Len(source) <= MaxRows
  /\ \A x \in DOMAIN result : result[x] \in 0..(2 * MaxRows)

\* What a sync leaves in the column of a source cell, in its finest scale.
Finest(c) == c.m * Power[FinestScale - c.s]
Landed(s) ==
  LET d == column.dest
      tick == Power[FinestScale - d.s]
  IN CASE s = Null /\ column.nullable  -> Null
       [] s = Null /\ ~column.nullable -> [f |-> d.f, m |-> column.default, s |-> d.s]
       [] s # Null ->
            [f |-> d.f, s |-> d.s, m |->
              CASE d.f \in {"int", "dec", "float"} -> TowardZero(Finest(s), tick)
                [] d.f = "bool"      -> IF s.m = 0 THEN 0 ELSE 1
                [] d.f = "bytes"     -> s.m
                [] d.f = "date"      -> CHOOSE x \in -9..9 : \E r \in 0..(MicrosPerDay - 1) :
                                          Micros(s) = x * MicrosPerDay + r
                [] d.f = "timestamp" -> TowardZero(Micros(s), column.unit) * column.unit]

\* Where the sync loses digits, or the caller allows for some, cells that far
\* apart are the same.
Near(c, d) == Distance(Finest(c), Finest(d)) <= column.tolerance
Kept(s, d) ==
  IF s # Null /\ d # Null /\ column.dest.f \in {"int", "dec", "float"}
  THEN Near(s, d) ELSE d = Landed(s)

Equal(a, b) == a # Null /\ b # Null /\ Finest(a) = Finest(b)
Lone(rows, k) == \A i, j \in DOMAIN rows : Equal(rows[i].k, k) /\ Equal(rows[j].k, k) => i = j
Pairs == {p \in (DOMAIN source) \X (DOMAIN dest) :
            /\ Equal(source[p[1]].k, dest[p[2]].k)
            /\ Lone(source, source[p[1]].k) /\ Lone(dest, source[p[1]].k)}

\* A comparison reports as drift what a sync would not have written, no more
\* and no less: each row whose key, as a value, each side has once is compared,
\* and counts as lost to NULL just where the source has a value and the
\* destination holds NULL, or the default NULL becomes, in place of it.
DriftIsDamage ==
  pc = "done" =>
    LET drifted == {p \in Pairs : ~Kept(source[p[1]].c, dest[p[2]].c)}
    IN /\ result.compared = Cardinality(Pairs)
       /\ result.mismatched = Cardinality(drifted)
       /\ result.nullInDest =
            Cardinality({p \in drifted : /\ source[p[1]].c # Null
                                         /\ dest[p[2]].c \in {Null, Landed(Null)}})
=============================================================================
