------------------------------ MODULE MCReads ------------------------------
(***************************************************************************)
(* What surrounds a table's read, on small instances.                      *)
(***************************************************************************)
EXTENDS Reads

-----------------------------------------------------------------------------
(* Transfers asked for: the usual options of each mode, up to three of     *)
(* them changed.                                                           *)

Options ==
  {"source_table", "source_query", "watermark", "watermark_source_expr", "lookback", "seed",
   "no_advance", "key", "order_by", "table_options", "prune_watermark", "prune_other",
   "delete_stale", "parallel", "partition_column", "partition_source_expr", "rate",
   "invalid_number", "chunk_rows", "keyset_not_null", "retries", "windowed", "window_bounds",
   "bounds_reversed", "no_windows", "transforms_key", "transforms_watermark", "validate",
   "key_not_int", "key_nullable", "probe_too_costly", "keeps_duplicates"}
Usual(s, m) ==
  (IF s \in {"api", "frame"} THEN {} ELSE {"source_table"})
  \cup (IF m = "full" \/ s = "frame" THEN {} ELSE {"watermark"})
  \cup (IF m = "incremental" THEN {"key"} ELSE {})
Changed(usual, by) == (usual \ by) \cup (by \ usual)
Changes == {{}} \cup {{a, b, c} : a, b, c \in Options}
MCAskedFor ==
  UNION {[source : {s}, dest : {"clickhouse", "bigquery", "csv"}, mode : {m},
          set : {Changed(Usual(s, m), by) : by \in Changes}] :
           s \in {"postgres", "clickhouse", "bigquery", "api", "frame"},
           m \in {"full", "incremental", "append"}}

-----------------------------------------------------------------------------
(* Columns a run writes and columns a table has: a name in either case, a  *)
(* second one, two types, and the options that type a column.              *)

Name(b, u) == [base |-> b, upper |-> u]
Written(n) == [name |-> n, type |-> "t", override |-> FALSE, seeded |-> FALSE, arbitrary |-> FALSE,
               alias |-> FALSE]
There(n, t, f) == [name |-> n, type |-> t, fills |-> f]
ColumnA == Written(Name("a", FALSE))
ColumnB == Written(Name("b", FALSE))
WrittenColumns ==
  {{ColumnA, ColumnB}, {Written(Name("a", TRUE)), ColumnB}, {ColumnB}}
  \cup {{[ColumnA EXCEPT !.override = o, !.seeded = s, !.arbitrary = a, !.alias = l]} :
          o, s, a, l \in BOOLEAN}
MCTablesFound ==
  {[engine |-> e, columns |-> cs] : e \in {"none", "Replacing", "Plain", "ReplicatedPlain"},
     cs \in {{There(Name("a", u), t, f)} : u, f \in BOOLEAN, t \in {"t", "u"}}
            \cup {{There(Name("a", u), "t", FALSE), There(Name("b", FALSE), "t", f)} : u, f \in BOOLEAN}
            \cup {{}}}
RunsTo(d, m, evolve, create, forced, engine) ==
  [dest : {d}, mode : {m}, keyed : {m = "incremental"}, evolve : evolve, create : create,
   forced : forced, engine : engine, numeric : BOOLEAN, writes : WrittenColumns]
MCColumnRuns ==
  UNION {RunsTo("clickhouse", m, BOOLEAN, BOOLEAN,
                IF m = "incremental" THEN BOOLEAN ELSE {FALSE}, {"none", "Replacing", "Plain"}) :
           m \in {"full", "incremental", "append"}}
  \cup UNION {RunsTo("bigquery", m, BOOLEAN, {TRUE}, {FALSE}, {"none"}) :
                m \in {"full", "incremental", "append"}}
  \cup UNION {RunsTo("csv", m, {FALSE}, {TRUE}, {m = "append"}, {"none"}) : m \in {"full", "append"}}

-----------------------------------------------------------------------------
(* Runs with a cursor: each place the MAX can come from, with one or two   *)
(* things out of the ordinary.                                             *)

CursorRun(f, q, t, m) ==
  [flow |-> f, query |-> q, table |-> t, from |-> m, nullable |-> FALSE, lands |-> TRUE,
   append |-> FALSE, skip |-> FALSE, counts |-> TRUE, judges |-> TRUE, ordered |-> TRUE,
   lookback |-> 1]
UsualCursorRuns == {
  CursorRun("sql", FALSE, FALSE, "query"), CursorRun("sql", FALSE, FALSE, "stream"),
  CursorRun("sql", TRUE, FALSE, "query"), CursorRun("sql", TRUE, TRUE, "query"),
  CursorRun("sql", TRUE, TRUE, "table"), CursorRun("session", FALSE, FALSE, "query"),
  CursorRun("session", TRUE, FALSE, "query")}
MCCursorRuns ==
  UNION {{r, [r EXCEPT !.nullable = TRUE], [r EXCEPT !.nullable = TRUE, !.lands = FALSE],
          [r EXCEPT !.nullable = TRUE, !.append = TRUE], [r EXCEPT !.nullable = TRUE, !.counts = FALSE],
          [r EXCEPT !.judges = FALSE, !.lookback = IF r.from = "stream" THEN 1 ELSE 0],
          [r EXCEPT !.ordered = r.from = "table"]} : r \in UsualCursorRuns}
  \cup {[r EXCEPT !.skip = TRUE] : r \in {u \in UsualCursorRuns : u.from # "table"}}

-----------------------------------------------------------------------------
(* API reads: ill-behaved chains of pages among the sound ones.            *)

Record(day, hour) == [day |-> day, at |-> hour]
Records == <<Record(1, 1), Record(1, 2), Record(2, 3), Record(1, 3), Record(2, 4)>>

Chain(p, n, partial) == [at |-> p, next |-> n, partial |-> partial]
Sound  == Chain(0, 0, FALSE)
Chains == {Sound, Chain(1, 0, FALSE), Chain(1, 1, FALSE), Chain(2, 1, FALSE), Chain(2, 2, FALSE),
           Chain(0, 0, TRUE)}

FromApi(k, m, s, f, lb, to, skip) ==
  [kind |-> k, mode |-> m, stages |-> s, fatal |-> f, advance |-> TRUE, from |-> 1, to |-> to,
   skip |-> skip, lookback |-> lb, records |-> Records,
   turns |-> IF k = "appsflyer" THEN {Sound} ELSE Chains]
MCApiTransfers == {
  FromApi("clevertap", "incremental", TRUE, FALSE, 1, 0, FALSE),
  FromApi("clevertap", "incremental", FALSE, TRUE, 2, 0, TRUE),
  FromApi("clevertap", "append", FALSE, TRUE, 0, 0, FALSE),
  FromApi("clevertap", "full", TRUE, FALSE, 0, 2, FALSE),
  FromApi("http", "incremental", TRUE, FALSE, 1, 0, FALSE),
  FromApi("http", "full", TRUE, FALSE, 0, 0, FALSE),
  [FromApi("appsflyer", "append", TRUE, TRUE, 1, 1, FALSE) EXCEPT !.advance = FALSE],
  FromApi("appsflyer", "incremental", FALSE, TRUE, 0, 0, FALSE)}

-----------------------------------------------------------------------------
(* Archived reads: two partitions, a sweep, and a chunked read.            *)

Archived(k, ps) == [kind |-> k, pieces |-> ps]
MCArchivedReads == {Archived("plain", <<1, 1>>), Archived("windows", <<2>>), Archived("chunks", <<2>>)}

-----------------------------------------------------------------------------
(* Integers from -4 to 3, of which both are keys; 4 is too large, and 50    *)
(* NULL.                                                                   *)

Range(min, max) == [min |-> min, max |-> max]
KeyedRead(e, p, a, n, s, g, st, c) ==
  [engine |-> e, parallel |-> p, above |-> a, nullable |-> n, unsigned |-> FALSE, sweep |-> s, given |-> g,
   start |-> st, ceiling |-> c]
Anywhere == Range(1, 0)
Lowest   == -4
MCRangeKeys == {Lowest, -3, 0, 1, 3, 4, NullKey}
MCKeyedReads == {
  KeyedRead("postgres", 3, NoCursor, TRUE, "no", Anywhere, 2, 4),
  [KeyedRead("mysql", 2, 0, TRUE, "no", Anywhere, 2, 4) EXCEPT !.unsigned = TRUE],
  KeyedRead("clickhouse", 2, 0, TRUE, "no", Anywhere, 2, 4),
  KeyedRead("postgres", 2, NoCursor, TRUE, "probed", Anywhere, 3, 4),
  KeyedRead("mysql", 1, NoCursor, FALSE, "forced", Anywhere, 2, 2),
  [KeyedRead("mysql", 2, NoCursor, FALSE, "forced", Anywhere, 2, 2) EXCEPT !.unsigned = TRUE],
  KeyedRead("mysql", 3, 0, FALSE, "forced", Anywhere, 3, 5),
  KeyedRead("mysql", 3, 0, TRUE, "probed", Anywhere, 3, 5),
  KeyedRead("postgres", 1, NoCursor, TRUE, "no", Range(-3, 2), 4, 4)}

-----------------------------------------------------------------------------
(* Chunked reads: chunks shorter than, as long as and longer than a batch, *)
(* with no row, one or two whose key is NULL.                              *)

MCChunkedReads == [nulls_first : BOOLEAN, nulls : 0..2, guarded : BOOLEAN, limit : 1..3]

-----------------------------------------------------------------------------
(* Key reconciliations: with and without a ceiling, on a destination that  *)
(* merges or appends, and with two renderings that never meet.             *)

Asked(d, c, a, m) == [delete |-> d, ceiling |-> c, alike |-> a, merges |-> m]
MCRequests == {Asked(TRUE, 0, TRUE, TRUE), Asked(TRUE, 2, TRUE, FALSE), Asked(TRUE, 0, FALSE, FALSE),
             Asked(FALSE, 0, TRUE, TRUE)}

-----------------------------------------------------------------------------
(* Rows: a key, a watermark and a column of each kind that can lose a      *)
(* value, to every destination and from every decoder.                     *)

Missing    == [k |-> "null", m |-> 0, s |-> 0]
Unreadable == [k |-> "bad", m |-> 0, s |-> 0]
Value(m, s) == [k |-> "value", m |-> m, s |-> s]

Column(type, values) ==
  [type |-> type, null |-> Missing \in values, key |-> "no", watermark |-> FALSE, order |-> FALSE,
   engine |-> FALSE, declared |-> <<>>, asked |-> <<>>, has |-> "none", values |-> values]
Id     == [Column("text", {Missing, Value(1, 0)}) EXCEPT !.key = "yes"]
OtherId == [Id EXCEPT !.key = "othercase"]
Stamp  == [Column("date", {Missing, Value(1, 0), Value(2, 0), Unreadable}) EXCEPT !.watermark = TRUE]
Sure   == [Stamp EXCEPT !.values = @ \ {Missing, Unreadable}, !.null = FALSE]
Amount == [Column("decimal", {Value(5, 0), Value(105, 2), Value(104, 2), Value(994, 1), Value(996, 1),
                              Value(9996, 2), Unreadable}) EXCEPT !.declared = <<2, 1>>]
Whole  == [Column("decimal", {Missing, Value(0, 0), Value(15, 1), Value(400, 0), Value(1999, 2)})
             EXCEPT !.declared = <<2, 0>>]
Flag   == Column("bool", {Value(0, 0), Value(2, 0)})
Day    == [Column("date", {Missing, Value(1, 0), Unreadable}) EXCEPT !.engine = TRUE]
Count  == [Column("int", {Missing, Value(1, 0), Unreadable}) EXCEPT !.order = TRUE]

Rows(f, t, table, r, n, cs) ==
  [from |-> f, to |-> t, table |-> table, replacing |-> r, numeric |-> n, columns |-> cs]
MCRowTransfers == {
  Rows("mysql", "clickhouse", "absent", TRUE, <<>>, <<Id, Stamp, Flag>>),
  Rows("mysql", "bigquery", "known", FALSE, <<>>,
       <<OtherId, Stamp, [Amount EXCEPT !.values = @ \ {Unreadable}]>>),
  Rows("mysql", "clickhouse", "absent", FALSE, <<>>, <<OtherId>>),
  Rows("postgres", "clickhouse", "known", TRUE, <<>>,
       <<Id, [Stamp EXCEPT !.key = "yes"], [Amount EXCEPT !.order = TRUE, !.has = "decimal"]>>),
  Rows("postgres", "clickhouse", "known", FALSE, <<>>,
       <<[Whole EXCEPT !.order = TRUE], [Amount EXCEPT !.has = "float"], Day>>),
  Rows("postgres", "csv", "unknown", FALSE, <<>>, <<Id, Stamp, Whole>>),
  Rows("bigquery", "clickhouse", "absent", FALSE, <<2, 0>>, <<Id, Whole>>),
  Rows("clickhouse", "clickhouse", "absent", TRUE, <<>>, <<Id, Sure>>),
  Rows("frame", "bigquery", "unknown", FALSE, <<>>, <<Id, [Whole EXCEPT !.asked = <<2, 1>>]>>),
  Rows("api", "clickhouse", "absent", FALSE, <<>>, <<Count, Stamp>>)}

-----------------------------------------------------------------------------
(* Compared columns: one for each rule, and each default for NULL.         *)

Type(f, s) == [f |-> f, s |-> s]
Compare(s, d, unit, nullable, tolerance, named) ==
  [source |-> s, dest |-> d, unit |-> unit, nullable |-> nullable, default |-> 0,
   tolerance |-> tolerance, named |-> named]
MCComparedColumns == {
  Compare(Type("int", 0), Type("int", 0), 1, FALSE, 0, TRUE),
  Compare(Type("dec", 1), Type("dec", 2), 1, TRUE, 0, TRUE),
  Compare(Type("float", 2), Type("dec", 1), 1, FALSE, 0, TRUE),
  Compare(Type("float", 2), Type("dec", 1), 1, TRUE, 10, TRUE),
  Compare(Type("int", 0), Type("bool", 0), 1, FALSE, 0, TRUE),
  Compare(Type("bool", 0), Type("int", 0), 1, TRUE, 0, TRUE),
  Compare(Type("int", 0), Type("float", 0), 1, TRUE, 0, TRUE),
  Compare(Type("bytes", 0), Type("bytes", 0), 1, FALSE, 0, TRUE),
  Compare(Type("timestamp", 0), Type("date", 0), 1, FALSE, 0, TRUE),
  Compare(Type("timestamp", 0), Type("timestamp", 0), 2, FALSE, 0, TRUE),
  Compare(Type("date", 0), Type("timestamp", 0), 2, TRUE, 0, TRUE),
  Compare(Type("bytes", 0), Type("int", 0), 1, TRUE, 0, TRUE),
  Compare(Type("bytes", 0), Type("int", 0), 1, FALSE, 0, FALSE)}

Cell(f, s, m) == [f |-> f, m |-> m, s |-> s]
NullCell == Cell("null", 0, 0)
Held(f, s) ==
  {Cell(f, s, m) : m \in
     CASE f = "bool"            -> {0, 1}
       [] f = "float" /\ s = 2  -> {0, 10, 19}
       [] f = "dec" /\ s = 2    -> {0, 10, 11}
       [] f = "timestamp"       -> {-6, -3, 0, 5}
       [] f = "date"            -> {-2, -1, 0, 1}
       [] OTHER                 -> {0, 1, 2}}
MCSourceKeys == {NullCell, Cell("int", 0, 1), Cell("int", 0, 2)}
MCDestKeys   == {Cell("dec", 1, 10), Cell("dec", 1, 15)}
=============================================================================
