------------------------------- MODULE RowValues -------------------------------
(***************************************************************************)
(* What a run makes of the values it reads: the plan gives each column a   *)
(* type and says whether it may be NULL, a decoder turns a source value    *)
(* into a cell or, where it cannot, into NULL, and the NULL guard leaves   *)
(* out or fills in what the destination cannot hold.  A source value is    *)
(* [k, m, s]: NULL; the number m / 10^s (a date in days, a text by a       *)
(* number, a boolean as 0, 1 or a larger tinyint); or one no cell can      *)
(* hold.  Signs are left out: the decoders put them aside.                 *)
(***************************************************************************)
EXTENDS Integers, Sequences, FiniteSets

CONSTANTS
  Transfers,   \* the transfers a behaviour may do, each
               \*   [from, to: source and destination, table: "absent",
               \*    "known" or "unknown", replacing: the engine is
               \*    ReplacingMergeTree, numeric: numeric_as_decimal or <<>>,
               \*    columns: a sequence of
               \*    [type, null: the source allows it, key: "no", "yes" or
               \*     "othercase", watermark, order (or primary_key, not_null),
               \*     engine: a parameter of it, declared, asked: <<p, s>> or
               \*     <<>>, has: "none", "decimal" or "float" in the table,
               \*     values: the source values it may have]]
  Limit,       \* i128::MAX
  NumericWhole, NumericScale, \* integer and fractional digits BigQuery holds
  GroupDigits, \* decimal digits of one group of a PostgreSQL numeric
  MaxRows      \* bound: rows of a run

VARIABLES
  transfer, \* a member of Transfers
  pc,       \* where the run is
  plan,     \* per column [type: of the batch, exact: <<p, s>> or <<>>, nullable]
  read,     \* the rows the source gave
  batch,    \* those of them decoded and not pushed
  written,  \* rows the destination got
  coerced,  \* CoercionTally: per column
  nullRows, \* Warnings::null_rows: [left, filled: per column]
  observed  \* the watermark tracker's largest

vars == <<transfer, pc, plan, read, batch, written, coerced, nullRows, observed>>

-----------------------------------------------------------------------------
Null == [k |-> "null", m |-> 0, s |-> 0]
Zero == [k |-> "value", m |-> 0, s |-> 0]

Columns == transfer.columns
Columned == DOMAIN Columns
ToCsv   == transfer.to = "csv"

Power[n \in Nat] == IF n = 0 THEN 1 ELSE 10 * Power[n - 1]
Largest(S) == CHOOSE x \in S : \A y \in S : y <= x

-----------------------------------------------------------------------------
(* transform::plan_for_destination.                                        *)

\* decimal_fits.
DecimalFits(d) == transfer.to = "bigquery" => d[2] <= NumericScale /\ d[1] - d[2] <= NumericWhole

\* existing_decimals, and declared_decimal_default's use of it.
Followed == {c \in {Columns[i] : i \in Columned} :
               c.declared # <<>> /\ c.asked = <<>> /\ DecimalFits(c.declared)}
AllFloat == /\ \E c \in Followed : c.has = "float"
            /\ \A c \in Followed : c.has # "decimal"

Defaults(c) ==
  /\ c.declared # <<>> /\ DecimalFits(c.declared)
  /\ \/ ToCsv \/ transfer.table = "absent"
     \/ transfer.table = "known" /\ c.has = "decimal"
     \/ transfer.table = "known" /\ c.has = "none" /\ ~AllFloat

Exact(c) ==
  CASE c.type # "decimal"      -> <<>>
    [] c.asked # <<>>          -> c.asked
    [] transfer.numeric # <<>> -> transfer.numeric
    [] Defaults(c)             -> c.declared
    [] OTHER                   -> <<>>

BatchType(c) == IF c.type = "decimal" /\ Exact(c) = <<>> THEN "float" ELSE c.type

\* types::may_coerce_to_null, after a variant without the decimals.
DatesOnly(type)       == type = "date"
MayCoerceToNull(type) == type \in {"date", "decimal"}

NeverNull(c) ==
  /\ ~ToCsv
  /\ \/ c.key = "yes" \/ c.order
     \/ transfer.to = "clickhouse" /\ (c.engine \/ (c.watermark /\ transfer.replacing))

Nullable(c) ==
  /\ ~NeverNull(c)
  /\ \/ ToCsv \/ c.null
     \/ transfer.from # "clickhouse" /\ MayCoerceToNull(BatchType(c))
     \/ c.watermark /\ transfer.to # "clickhouse"

\* ensure_key_columns: only BigQuery's names are alike in any case.
KeysFound == transfer.to # "bigquery" => \A i \in Columned : Columns[i].key # "othercase"

Plan ==
  /\ pc = "plan"
  /\ IF KeysFound
     THEN /\ plan' = [i \in Columned |-> [type |-> BatchType(Columns[i]), exact |-> Exact(Columns[i]),
                                          nullable |-> Nullable(Columns[i])]]
          /\ pc' = "read"
     ELSE pc' = "refused" /\ UNCHANGED plan
  /\ UNCHANGED <<transfer, read, batch, written, coerced, nullRows, observed>>

-----------------------------------------------------------------------------
(* NullGuard::new.                                                         *)

GuardsWatermark(i) == Columns[i].watermark /\ ~plan[i].nullable
LeavesOut(i) == ~ToCsv /\ (GuardsWatermark(i) \/ Columns[i].key # "no")
FillsIn(i)   == /\ ~ToCsv /\ ~LeavesOut(i) /\ ~plan[i].nullable
                /\ \/ Columns[i].order
                   \/ transfer.to = "clickhouse" /\ Columns[i].engine
\* decode_columns.
DecodedNullable(i) == plan[i].nullable \/ LeavesOut(i) \/ FillsIn(i)

\* The column a row counts against: the watermark first, then as key names them.
First(S) == IF \E i \in S : GuardsWatermark(i) THEN CHOOSE i \in S : GuardsWatermark(i)
            ELSE CHOOSE i \in S : \A j \in S : i <= j

-----------------------------------------------------------------------------
(* The decoders: what a value becomes as a cell, and the kind of warning    *)
(* that counts it, if one does.                                            *)

Overflow == [m |-> -1, s |-> 0]

AsIs(v)      == [cell |-> v, counted |-> "no"]
Nulled(kind) == [cell |-> Null, counted |-> kind]

\* The digits and scale PostgreSQL sends a number with: whole groups, without
\* the zero ones at either end.
Grouped(v) ==
  IF v.m = 0 THEN [m |-> 0, s |-> 0]
  ELSE LET scales == {GroupDigits * g : g \in -3..3}
           whole(t) == IF t >= v.s THEN TRUE ELSE v.m % Power[v.s - t] = 0
           t == CHOOSE x \in scales : whole(x) /\ \A y \in scales : whole(y) => x <= y
       IN [m |-> IF t >= v.s THEN v.m * Power[t - v.s] ELSE v.m \div Power[v.s - t], s |-> t]

\* parse_decimal_text, parse_numeric_wire: the digits an i128 holds, all those
\* before the point among them.
Kept(n) ==
  LET fits == {t \in (IF n.s < 0 THEN n.s ELSE 0)..n.s : n.m \div Power[n.s - t] <= Limit}
  IN IF fits = {} THEN Overflow
     ELSE [m |-> n.m \div Power[n.s - Largest(fits)], s |-> Largest(fits)]

\* rescale_mantissa.
Rescale(n, to) ==
  CASE n.m = 0   -> 0
    [] n.m # 0 /\ to >= n.s -> IF n.m * Power[to - n.s] > Limit THEN -1 ELSE n.m * Power[to - n.s]
    [] n.m # 0 /\ to < n.s  ->
         LET divisor == Power[n.s - to]
         IN IF divisor > Limit THEN 0
            ELSE n.m \div divisor + (IF n.m % divisor >= divisor \div 2 THEN 1 ELSE 0)

\* A number at the column's scale, if its precision holds it.
Fitted(n, exact) ==
  LET m == IF n = Overflow THEN -1 ELSE Rescale(n, exact[2])
  IN IF m = -1 \/ m >= Power[exact[1]] THEN Nulled("decimal")
     ELSE AsIs([k |-> "value", m |-> m, s |-> exact[2]])

\* NaN and the infinities are values PostgreSQL has.
FromPostgres(v, p) ==
  CASE p.type = "decimal" -> IF v.k = "bad" THEN Nulled("decimal") ELSE Fitted(Kept(Grouped(v)), p.exact)
    [] p.type = "date" /\ v.k = "bad" -> Nulled("date")
    [] OTHER -> AsIs(v)

\* A boolean is a tinyint(1), which may hold more than 0 and 1.
FromMySql(v, p) ==
  CASE p.type = "decimal" -> Fitted(Kept(v), p.exact)
    [] p.type = "date" /\ v.k = "bad" -> Nulled("date")
    [] p.type = "bool" /\ v.m > 1 -> [cell |-> [v EXCEPT !.m = 1], counted |-> "flattened"]
    [] OTHER -> AsIs(v)

FromBigQuery(v, p) ==
  CASE p.type = "decimal" -> Fitted(Kept(v), p.exact)
    [] p.type = "date" /\ v.k = "bad" -> Nulled("date")
    [] OTHER -> AsIs(v)

\* Text, which may be of no value of its column's type.
FromApi(v, p) ==
  CASE v.k = "bad" /\ p.type \in {"date", "decimal"} -> Nulled(p.type)
    [] v.k = "bad" /\ p.type \notin {"date", "decimal", "text"} -> Nulled("scalar")
    [] v.k = "value" /\ p.type = "decimal" -> Fitted(Kept(v), p.exact)
    [] OTHER -> AsIs(v)

\* adapt_to_plan: whole columns, only decimals of which may have to change.
FromColumns(v, p) == IF p.type = "decimal" THEN Fitted(v, p.exact) ELSE AsIs(v)

Taken(v, p) ==
  CASE v = Null -> AsIs(Null)
    [] v # Null /\ transfer.from = "postgres" -> FromPostgres(v, p)
    [] v # Null /\ transfer.from = "mysql"    -> FromMySql(v, p)
    [] v # Null /\ transfer.from = "bigquery" -> FromBigQuery(v, p)
    [] v # Null /\ transfer.from = "api"      -> FromApi(v, p)
    [] v # Null /\ transfer.from \in {"clickhouse", "frame"} -> FromColumns(v, p)

Decoded(v, p) == Taken(v, p).cell

Rows == {row \in [Columned -> UNION {Columns[i].values : i \in Columned}] :
           \A i \in Columned : row[i] \in Columns[i].values}

Read ==
  /\ pc = "read" /\ Len(read) < MaxRows
  /\ \E row \in Rows :
       /\ read' = Append(read, row)
       /\ batch' = Append(batch, [i \in Columned |-> Decoded(row[i], plan[i])])
       /\ coerced' = [i \in Columned |-> coerced[i] + (IF Taken(row[i], plan[i]).counted = "no" THEN 0 ELSE 1)]
  /\ UNCHANGED <<transfer, pc, plan, written, nullRows, observed>>

-----------------------------------------------------------------------------
(* push_batch, and NullGuard::filter in it.                                *)

NullsOf(row) == {i \in Columned : LeavesOut(i) /\ row[i] = Null}
Fill(row)    == [i \in Columned |-> IF FillsIn(i) /\ row[i] = Null THEN Zero ELSE row[i]]
Keeps(row)   == NullsOf(row) = {}
Filtered     == LET kept == SelectSeq(batch, Keeps) IN [j \in DOMAIN kept |-> Fill(kept[j])]

FilledIn(i)    == Cardinality({j \in DOMAIN batch : Keeps(batch[j]) /\ FillsIn(i) /\ batch[j][i] = Null})
LeftOut(i)  == Cardinality({j \in DOMAIN batch : NullsOf(batch[j]) # {} /\ First(NullsOf(batch[j])) = i})

\* A batch with a NULL where its column has none cannot be built.
Sound == \A j \in DOMAIN batch, i \in Columned : batch[j][i] = Null => DecodedNullable(i)

Watermarks == {batch[j][i].m : i \in {x \in Columned : Columns[x].watermark}, j \in {y \in DOMAIN batch :
                 \A x \in Columned : Columns[x].watermark => batch[y][x].k = "value"}}

Push ==
  /\ pc = "read" /\ batch # <<>>
  /\ batch' = <<>>
  /\ IF Sound
     THEN /\ observed' = Largest(Watermarks \cup {observed})
          /\ written' = written \o Filtered
          /\ nullRows' = [left   |-> [i \in Columned |-> nullRows.left[i] + LeftOut(i)],
                          filled |-> [i \in Columned |-> nullRows.filled[i] + FilledIn(i)]]
          /\ UNCHANGED pc
     ELSE pc' = "failed" /\ UNCHANGED <<observed, written, nullRows>>
  /\ UNCHANGED <<transfer, plan, read, coerced>>

Finish ==
  /\ pc = "read" /\ batch = <<>>
  /\ pc' = "done"
  /\ UNCHANGED <<transfer, plan, read, batch, written, coerced, nullRows, observed>>

-----------------------------------------------------------------------------
Init ==
  /\ transfer \in Transfers
  /\ pc = "plan" /\ plan = <<>> /\ read = <<>> /\ batch = <<>> /\ written = <<>>
  /\ coerced = [i \in Columned |-> 0]
  /\ nullRows = [left |-> [i \in Columned |-> 0], filled |-> [i \in Columned |-> 0]]
  /\ observed = -1

Next ==
  \/ Plan \/ Read \/ Push \/ Finish
  \/ pc \in {"done", "refused", "failed"} /\ UNCHANGED vars

Spec == Init /\ [][Next]_vars

-----------------------------------------------------------------------------
TypeOK ==
  /\ transfer \in Transfers
  /\ pc \in {"plan", "read", "done", "refused", "failed"}
  /\ Len(read) <= MaxRows /\ Len(batch) <= Len(read) /\ Len(written) <= Len(read)
  /\ observed \in -1..Limit
  /\ \A i \in Columned : /\ coerced[i] \in 0..MaxRows
                         /\ nullRows.left[i] \in 0..MaxRows
                         /\ nullRows.filled[i] \in 0..MaxRows

(* What each value should have become, without the decoders' arithmetic.   *)

Rounded(v, s) == (2 * v.m * Power[s] + Power[v.s]) \div (2 * Power[v.s])
Dropped(v, s) == (v.m * Power[s]) \div Power[v.s]

\* Digits past an i128 are dropped, which shows only where the last one that
\* fits is the last one of the column.
Shortened(v, s) == transfer.from \notin {"clickhouse", "frame"} /\ 10 * Dropped(v, s) > Limit

FairCells(v, i) ==
  CASE v.k = "value" /\ plan[i].type = "decimal" ->
         LET p == plan[i].exact[1]
             s == plan[i].exact[2]
             cell(m) == IF m >= Power[p] THEN Null ELSE [k |-> "value", m |-> m, s |-> s]
         IN {cell(Rounded(v, s))} \cup (IF Shortened(v, s) THEN {cell(Dropped(v, s))} ELSE {})
    [] v.k = "value" /\ plan[i].type = "bool" -> {[v EXCEPT !.m = IF v.m = 0 THEN 0 ELSE 1]}
    [] v.k = "bad" /\ plan[i].type # "float"  -> {Null}
    [] OTHER -> {v}

Pushed  == 1..(Len(read) - Len(batch))
Cell(j, i) == Decoded(read[j][i], plan[i])
Must(i) == ~ToCsv /\ (Columns[i].key # "no" \/ (Columns[i].watermark /\ ~plan[i].nullable))
Out     == {j \in Pushed : \E i \in Columned : Must(i) /\ Cell(j, i) = Null}
Stayed     == Pushed \ Out
Place(j) == Cardinality({h \in Stayed : h <= j})

Total(f) == LET sum[n \in 0..Len(Columns)] == IF n = 0 THEN 0 ELSE sum[n - 1] + f[n]
            IN sum[Len(Columns)]

\* Every row read is written with each value as the column holds it, rounded
\* once, or as NULL or the type's default with a warning that counts it, or it
\* is left out and counted once, against the watermark if that is NULL; no
\* batch is refused for a NULL, and the cursor saw the rows left out too.
\* (append_value, rescale_mantissa; NullGuard::filter; push_batch.)
RowsAccounted ==
  /\ pc # "failed"
  /\ pc \in {"read", "done"} =>
       /\ \A j \in DOMAIN read, i \in Columned : Cell(j, i) \in FairCells(read[j][i], i)
       /\ Len(written) = Cardinality(Stayed)
       /\ \A j \in Stayed, i \in Columned :
            written[Place(j)][i] = IF Cell(j, i) = Null /\ ~plan[i].nullable THEN Zero ELSE Cell(j, i)
       /\ Total(nullRows.left) = Cardinality(Out)
       /\ \A i \in Columned :
            /\ Must(i) /\ Columns[i].watermark /\ ~plan[i].nullable =>
                 nullRows.left[i] = Cardinality({j \in Pushed : Cell(j, i) = Null})
            /\ nullRows.filled[i] =
                 Cardinality({j \in Stayed : Cell(j, i) = Null /\ ~plan[i].nullable})
            /\ coerced[i] = Cardinality({j \in DOMAIN read :
                              \/ read[j][i] # Null /\ Cell(j, i) = Null
                              \/ plan[i].type = "bool" /\ read[j][i].m > 1})
            /\ Columns[i].watermark => \A j \in Pushed : Cell(j, i).k = "value" => observed >= Cell(j, i).m
=============================================================================
