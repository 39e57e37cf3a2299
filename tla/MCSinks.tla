------------------------------ MODULE MCSinks ------------------------------
(***************************************************************************)
(* The three destinations on small instances: the CSV folder with two runs *)
(* at once, BigQuery and ClickHouse with a few runs in a row over a short  *)
(* log of row versions.                                                    *)
(***************************************************************************)
EXTENDS Sinks

-----------------------------------------------------------------------------
(* What the runs of each are.                                              *)

Insert(s, n)        == [stream |-> s, rows |-> n]
Writes(m, l, k, is) == [mode |-> m, layout |-> l, key |-> k, inserts |-> is]

CsvPlans == {
  <<Writes("append", 1, "a", <<Insert(1, 1), Insert(1, 2)>>), Writes("append", 1, "b", <<Insert(1, 1)>>)>>,
  <<Writes("append", 1, "a", <<Insert(1, 1)>>), Writes("full", 2, "b", <<Insert(1, 1), Insert(2, 1)>>)>>,
  <<Writes("full", 1, "a", <<Insert(1, 1)>>), Writes("full", 2, "b", <<>>)>>}

Place(x, o, e) == [exchanges |-> x, overlap |-> o, exists |-> e]
CsvSettings == {Place(TRUE, TRUE, TRUE), Place(FALSE, FALSE, TRUE), Place(FALSE, FALSE, FALSE)}

Version(k, p, w) == [k |-> k, p |-> p, w |-> w]
Growing == <<Version(1, 1, 0), Version(3, 2, 0), Version(1, 1, 1), Version(2, 2, 1), Version(1, 1, 2)>>
Twice   == <<Version(1, 1, 0), Version(3, 2, 0), Version(1, 1, 1), Version(2, 2, 1), Version(2, 2, 1),
             Version(1, 1, 2)>>
Dated   == <<Version(1, 0, 0), Version(2, 1, 1), Version(3, 1, 1), Version(4, 2, 2)>>
Close   == <<Version(1, 0, 0), Version(2, 1, 1), Version(3, 1, 1), Version(4, 1, 1)>>

ToBigQuery(l, o, g, pr, of, h, lb, pn, b, st, s) ==
  [log |-> l, old |-> o, gone |-> g, promote |-> pr, offsets |-> of, honours |-> h,
   lookback |-> lb, prune |-> pn, bound |-> b, stale |-> st, state |-> s]
MCBqTransfers == {
  ToBigQuery(Twice, {1, 2}, {}, "merge", TRUE, TRUE, 0, TRUE, "range", FALSE, "old"),
  ToBigQuery(Twice, {1, 2}, {}, "merge", FALSE, TRUE, 0, FALSE, "list", FALSE, "new"),
  ToBigQuery(Dated, {1, 3}, {3}, "merge", TRUE, TRUE, 1, TRUE, "none", TRUE, "new"),
  ToBigQuery(Twice, {1, 2}, {}, "swap", TRUE, FALSE, 0, FALSE, "none", FALSE, "none")}

ToClickHouse(l, o, g, pr, c, lb, t, d, s) ==
  [log |-> l, old |-> o, gone |-> g, promote |-> pr, chunked |-> c, lookback |-> lb,
   token |-> t, dedups |-> d, stale |-> s]
MCChTransfers == {
  ToClickHouse(Growing, {1, 2}, {}, "direct", TRUE, 1, FALSE, TRUE, FALSE),
  ToClickHouse(Growing, {1, 2}, {}, "direct", FALSE, 0, FALSE, FALSE, FALSE),
  ToClickHouse(Close, {1, 3}, {3}, "insert", FALSE, 0, TRUE, TRUE, TRUE),
  ToClickHouse(Growing, {1, 2}, {}, "swap", FALSE, 0, TRUE, TRUE, FALSE)}

\* The settings are such as the theorems about the folder ask for.
ASSUME Placed
=============================================================================
