---------------------------- MODULE ColumnDrift ----------------------------
(***************************************************************************)
(* A run's columns and those of the table that is there: the checks of the *)
(* destination before anything is written, what prepare_target makes of    *)
(* the table, and what the write leaves in a row that was there and in one *)
(* that is new.                                                            *)
(*                                                                         *)
(* A name is [base, upper]: two of the same base differ only in case.  A   *)
(* column's value in a row is the run's ("run"), what was stored ("old"),  *)
(* what the table computes for it ("own"), or the type's default or NULL   *)
(* ("none").                                                               *)
(***************************************************************************)
EXTENDS Naturals, FiniteSets

CONSTANTS
  Runs,   \* the runs a behaviour may be of, each [dest, mode, keyed: key,
          \*   evolve: evolve_schema, create: create_if_missing,
          \*   forced: force_stage_incremental, engine: engine=,
          \*   numeric: numeric_as_decimal,
          \*   writes: the plan's columns, each [name, type: the type it makes,
          \*     override: type_overrides has it, seeded: for an API source,
          \*     arbitrary: a decimal of no declared precision,
          \*     alias: the type is spelled in another way]]
  Tables  \* what may be there, [engine, columns: each [name, type,
          \*   fills: the table has an expression for it]], or Nothing

VARIABLES
  run,     \* the run, a member of Runs
  pc,      \* the step it is at, or how it ended
  table,   \* the destination
  found,   \* history: the destination before the run
  target,  \* the table it writes into
  raised,  \* warnings, <<kind, name>>
  stored,  \* per column, the value in a row the run updates and in one it adds
  copies   \* of a row the run updates

vars == <<run, pc, table, found, target, raised, stored, copies>>

Dests   == {"clickhouse", "bigquery", "csv"}
Modes   == {"full", "incremental", "append"}
Engines == {"Replacing", "Plain", "ReplicatedPlain"}
Kinds   == {"unsourced", "dropped", "ignored", "copies"}
Nothing == [engine |-> "none", columns |-> {}]

-----------------------------------------------------------------------------
(* Columns.                                                                *)

\* column_key: BigQuery's names compare without case.
Same(n, m) == IF run.dest = "bigquery" THEN n.base = m.base ELSE n = m

\* The columns of a that b lacks.
Lacking(a, b) == {c \in a : \A d \in b : ~Same(c.name, d.name)}

\* missing_columns, added as Nullable with the plan's type.
Evolved(t) ==
  [t EXCEPT !.columns = @ \cup {[name |-> c.name, type |-> c.type, fills |-> FALSE] :
                                  c \in Lacking(run.writes, @)}]

\* create_table, of the plan's columns.
Fresh ==
  [engine |-> CASE run.dest # "clickhouse" -> "none"
                [] run.engine # "none"      -> run.engine
                [] run.mode = "incremental" -> "Replacing"
                [] OTHER                    -> "Plain",
   columns |-> {[name |-> c.name, type |-> c.type, fills |-> FALSE] : c \in run.writes}]

\* engine_keeps_duplicates.
KeepsDuplicates(engine) == engine \in {"Plain", "ReplicatedPlain"}

\* requires_staging_for_incremental, or staged all the same.
Staged == run.mode = "full" \/ run.forced \/ (run.mode = "incremental" /\ run.dest = "bigquery")

-----------------------------------------------------------------------------
(* The checks.                                                             *)

\* check_write: an append to CSV parts of other columns.
Unwritable ==
  /\ run.dest = "csv" /\ run.mode # "full"
  /\ table # Nothing /\ table.columns # {}
  /\ {c.name : c \in table.columns} # {c.name : c \in run.writes}

\* warn_on_unsourced_columns: nothing feeds them, the table does not either.
Unsourced ==
  IF run.dest = "csv" THEN {}
  ELSE {<<"unsourced", c.name>> : c \in {d \in Lacking(table.columns, run.writes) : ~d.fills}}

\* A variant that takes any staging for one that names every column.
NamesEveryColumnStaged == Staged

\* An insert-select from staging names every column, and would fail.
NamesEveryColumn == run.mode = "incremental" /\ run.forced

\* warn_on_dropped_columns: only ClickHouse leaves a column out unasked.
Dropped ==
  IF run.dest # "clickhouse" \/ run.evolve \/ NamesEveryColumn \/ table = Nothing THEN {}
  ELSE {<<"dropped", c.name>> : c \in Lacking(run.writes, table.columns)}

\* The option that types a column: an override, or numeric_as_decimal where no
\* override is, of the caller's or seeded.
Asked(c) == c.override \/ (run.numeric /\ c.arbitrary /\ ~c.seeded)

\* warn_on_ignored_overrides: the column is there with another type; where the
\* type is only spelled otherwise the server may be able to say so.
Ignored(answers) ==
  IF run.dest = "csv" THEN {}
  ELSE {<<"ignored", c.name>> : c \in {w \in run.writes :
          /\ Asked(w)
          /\ \E d \in table.columns :
               /\ Same(w.name, d.name)
               /\ d.type # w.type \/ (w.alias /\ ~(run.dest = "clickhouse" /\ answers))}}

\* warn_on_non_replacing_target: an upsert that would append.
Copying ==
  IF /\ run.mode = "incremental" /\ run.keyed /\ run.dest = "clickhouse"
     /\ KeepsDuplicates(table.engine) /\ ~KeepsDuplicates(run.engine)
  THEN {<<"copies", "table">>} ELSE {}

\* warn_on_destination.
CheckDestination ==
  /\ pc = "check"
  /\ IF Unwritable THEN pc' = "refused" /\ UNCHANGED raised
     ELSE /\ pc' = "prepare"
          /\ \E answers \in BOOLEAN :
               raised' = Unsourced \cup Dropped \cup Ignored(answers) \cup Copying
  /\ UNCHANGED <<run, table, found, target, stored, copies>>

-----------------------------------------------------------------------------
(* prepare_target.                                                         *)

\* Whether the destination itself gets the new columns: ClickHouse's swap
\* takes them from staging, and CSV has none to add.
EvolvesTable == run.evolve /\ (run.mode # "full" \/ run.dest = "bigquery")

\* Staging is a clone of what is there, but for CSV.
Staging(dest) ==
  IF table = Nothing \/ run.dest = "csv" THEN Fresh
  ELSE IF run.mode = "full" /\ run.evolve THEN Evolved(dest)
  ELSE dest

PrepareTarget ==
  /\ pc = "prepare"
  /\ IF table = Nothing /\ ~run.create
     THEN pc' = "failed" /\ UNCHANGED <<table, target>>
     ELSE /\ table' = IF table = Nothing THEN Fresh
                      ELSE IF EvolvesTable THEN Evolved(table) ELSE table
          /\ target' = IF Staged THEN Staging(table') ELSE table'
          /\ pc' = "write"
  /\ UNCHANGED <<run, found, raised, stored, copies>>

-----------------------------------------------------------------------------
(* The write.                                                              *)

\* A ClickHouse insert skips a column the table lacks; BigQuery rejects it.
Write ==
  /\ pc = "write"
  /\ pc' = IF run.dest = "bigquery" /\ Lacking(run.writes, target.columns) # {} THEN "failed"
           ELSE "promote"
  /\ UNCHANGED <<run, table, found, target, raised, stored, copies>>

\* The insert-select of a staged run into ClickHouse names columns that the
\* destination must have.
Misfits ==
  run.dest = "clickhouse" /\ Staged /\ run.mode # "full" /\ Lacking(run.writes, table.columns) # {}

\* What the write leaves in column c of t, in a row that is there and a new
\* one: a MERGE keeps what it has no value for, the others write whole rows.
Left(c, t) ==
  LET written == \E w \in run.writes : Same(w.name, c.name)
      blank   == IF c.fills THEN "own" ELSE "none"
  IN [updated |-> IF written THEN "run"
                  ELSE IF run.dest = "bigquery" /\ run.mode = "incremental" THEN "old"
                  ELSE blank,
      added   |-> IF written THEN "run" ELSE blank]

\* What is there afterwards: a swap's DDL is staging's where the tables are
\* exchanged, and a CSV folder is rewritten by a refresh.
Promote ==
  /\ pc = "promote"
  /\ IF Misfits THEN pc' = "failed" /\ UNCHANGED <<table, stored, copies>>
     ELSE /\ table' = IF run.mode = "full" /\ run.dest # "bigquery" THEN target
                      ELSE IF run.dest = "csv" /\ table.columns = {}
                      THEN [table EXCEPT !.columns = target.columns]
                      ELSE table
          /\ stored' = [c \in table'.columns |-> Left(c, table')]
          /\ copies' = IF run.mode = "append" \/ (run.mode = "incremental" /\ KeepsDuplicates(table.engine))
                       THEN copies + 1 ELSE copies
          /\ pc' = "ok"
  /\ UNCHANGED <<run, found, target, raised>>

Returned == pc \in {"ok", "failed", "refused"} /\ UNCHANGED vars

Init ==
  /\ run \in Runs
  /\ table \in {t \in Tables : run.dest = "csv" =>
                  t.engine = "none" /\ \A c \in t.columns : ~c.fills}
  /\ table # Nothing => (table.engine = "none") = (run.dest # "clickhouse")
  /\ \A c, d \in table.columns : Same(c.name, d.name) => c = d
  /\ found = table /\ target = Nothing
  /\ raised = {} /\ stored = <<>>
  /\ copies = IF table = Nothing THEN 0 ELSE 1
  /\ pc = "check"

Next == CheckDestination \/ PrepareTarget \/ Write \/ Promote \/ Returned

Spec == Init /\ [][Next]_vars

-----------------------------------------------------------------------------
\* Types, and what always goes together: rows are written by a run that ends
\* well, and only a checked run changes the table.
TypeOK ==
  /\ run \in Runs
  /\ pc \in {"check", "prepare", "write", "promote", "ok", "failed", "refused"}
  /\ \A w \in raised : w[1] \in Kinds
  /\ \A c \in DOMAIN stored : stored[c].updated \in {"run", "old", "own", "none"}
  /\ stored # <<>> => pc = "ok"
  /\ copies \in 0..2
  /\ pc \in {"check", "refused"} => table = found

\* Columns of the table as it was found.
Was == found.columns

\* Every harm a run's columns do to a table that was there is in a warning
\* raised before anything was written, and no warning is of a harm that a run
\* which ends well did not do, but for a type the server could not be asked
\* about (warn_on_destination): values of the source with no column to land
\* in, columns that end up with no value, columns not of the type an option
\* names, and upserts that append.  A CSV refresh rewrites its folder.
HarmIsTold ==
  pc = "ok" /\ found # Nothing =>
    /\ \A w \in run.writes :
         (\A c \in DOMAIN stored : ~Same(w.name, c.name)) <=> <<"dropped", w.name>> \in raised
    /\ run.dest # "csv" =>
         \A c \in Was :
           (\E d \in DOMAIN stored : d.name = c.name /\ stored[d].added = "none")
             <=> <<"unsourced", c.name>> \in raised
    /\ run.dest # "csv" =>
         \A w \in run.writes, c \in DOMAIN stored :
           /\ Same(w.name, c.name) /\ Asked(w) /\ c.type # w.type
                => <<"ignored", w.name>> \in raised
           /\ Same(w.name, c.name) /\ <<"ignored", w.name>> \in raised
                => c.type # w.type \/ w.alias
    /\ (copies > 1 /\ run.mode = "incremental" /\ run.keyed /\ ~KeepsDuplicates(run.engine))
         <=> <<"copies", "table">> \in raised

-----------------------------------------------------------------------------
(* Why every harm is told: what was raised is of the table as it was       *)
(* found, and what was made of it since is known.                          *)

\* The columns a run writes have different names, and so do its table's; a run
\* that adds to a CSV folder stages.
ColumnsConstants ==
  /\ \A t \in Tables : t = [engine |-> t.engine, columns |-> t.columns]
  /\ \A r \in Runs :
       /\ r.mode \in Modes /\ r.dest \in Dests
       /\ r.dest = "csv" => r.mode = "full" \/ r.forced
       /\ \A v, w \in r.writes :
            (IF r.dest = "bigquery" THEN v.name.base = w.name.base ELSE v.name = w.name) => v = w

WasFound ==
  /\ found = [engine |-> found.engine, columns |-> found.columns]
  /\ found # Nothing => (found.engine = "none") = (run.dest # "clickhouse")
  /\ \A c, d \in Was : Same(c.name, d.name) => c = d

LeavesOut == run.dest = "clickhouse" /\ ~run.evolve /\ ~NamesEveryColumn

WasTold ==
  /\ \A w \in run.writes :
       <<"dropped", w.name>> \in raised <=> LeavesOut /\ found # Nothing /\ w \in Lacking(run.writes, Was)
  /\ run.dest # "csv" =>
       /\ \A c \in Was : <<"unsourced", c.name>> \in raised <=> ~c.fills /\ c \in Lacking(Was, run.writes)
       /\ \A w \in run.writes, c \in Was :
            Same(w.name, c.name) /\ Asked(w) /\ c.type # w.type => <<"ignored", w.name>> \in raised
       /\ \A w \in run.writes : <<"ignored", w.name>> \in raised =>
            \E c \in Was : Same(w.name, c.name) /\ (c.type # w.type \/ w.alias)
  /\ <<"copies", "table">> \in raised <=>
       /\ run.mode = "incremental" /\ run.keyed /\ run.dest = "clickhouse"
       /\ KeepsDuplicates(found.engine) /\ ~KeepsDuplicates(run.engine)
  /\ run.dest = "csv" /\ run.mode # "full" /\ found # Nothing /\ Was # {} =>
       {c.name : c \in Was} = {w.name : w \in run.writes}

WasPrepared ==
  /\ table = IF found = Nothing THEN Fresh ELSE IF EvolvesTable THEN Evolved(found) ELSE found
  /\ target = IF ~Staged THEN table
              ELSE IF found = Nothing \/ run.dest = "csv" THEN Fresh
              ELSE IF run.mode = "full" /\ run.evolve THEN Evolved(table) ELSE table

\* The table a run that ends well leaves.
WasLeft ==
  /\ DOMAIN stored = table.columns /\ \A c \in DOMAIN stored : stored[c] = Left(c, table)
  /\ found # Nothing =>
       /\ Lacking(run.writes, table.columns) = IF LeavesOut THEN Lacking(run.writes, Was) ELSE {}
       /\ run.dest # "csv" =>
            /\ Was \subseteq table.columns
            /\ \A c \in table.columns \ Was :
                 \E w \in Lacking(run.writes, Was) : c.name = w.name /\ c.type = w.type
       /\ copies > 1 <=>
            run.mode = "append" \/ (run.mode = "incremental" /\ KeepsDuplicates(found.engine))

ColumnsInv ==
  /\ TypeOK /\ WasFound
  /\ pc # "ok" => copies = IF found = Nothing THEN 0 ELSE 1
  /\ pc \in {"prepare", "write", "promote", "ok"} => WasTold
  /\ pc = "prepare" => table = found
  /\ pc \in {"write", "promote"} => WasPrepared
  /\ pc = "promote" /\ run.dest = "bigquery" => Lacking(run.writes, target.columns) = {}
  /\ pc = "ok" => WasLeft
=============================================================================
