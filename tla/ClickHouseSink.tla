---------------------------- MODULE ClickHouseSink ---------------------------
(***************************************************************************)
(* The ClickHouse destination.  Runs follow one another.  Each reads its   *)
(* cursor, makes sure of the state table, inserts what it read, into the   *)
(* destination or into a staging table that it then promotes, and saves    *)
(* its cursor.  The answer of a statement may be lost.  A table that       *)
(* deduplicates drops a block it has seen: one with the same token, or     *)
(* without tokens one with the same rows.                                  *)
(***************************************************************************)
EXTENDS RowVersions

CONSTANTS
  LastRun,        \* bound: runs
  Transfers,      \* the transfers a behaviour may be of, each
                  \*   [log: a sequence of versions,
                  \*    old: those the destination starts with,
                  \*    gone: those the source no longer returns,
                  \*    promote: "direct", "insert" or "swap",
                  \*    chunked: chunk_rows, lookback: lookback_seconds,
                  \*    token: insert_dedup_token, dedups: the tables do,
                  \*    stale: delete_stale_in_window]
  RowsPerCall,    \* rows of one insert_batches, or of a chunk
  InsertAttempts, \* MAX_INSERT_ATTEMPTS, 5
  MaxFaults       \* bound: failures, lost answers, crashes and drops by hand

VARIABLES
  cfg,     \* a member of Transfers
  run,     \* the run
  pc,      \* where it is
  attempt, \* attempt
  epoch,   \* insert_epoch: the tokens it has used
  upper,   \* what the read goes up to
  batch,   \* the versions it reads
  sent,    \* those it has inserted
  dest,    \* the destination
  staging, \* the run's staging table, or Missing
  blocks,  \* blocks the tables have seen: <<staging's?, token, version>>
  state,   \* the state table: its rows, oldest first, or Absent
  tokens,  \* blocks the state table has seen
  writes,  \* state_epoch
  ready,   \* the process has seen the state table: ready_state_tables
  faults   \* within MaxFaults

reading == <<upper, batch, sent>>
tables  == <<dest, staging, blocks>>
saved   == <<state, tokens, writes>>
vars    == <<cfg, run, pc, attempt, epoch, reading, tables, saved, ready, faults>>

-----------------------------------------------------------------------------
Versions == DOMAIN cfg.log
Empty    == [v \in Versions |-> 0]
Keys     == {cfg.log[v].k : v \in Versions}
K(v)     == cfg.log[v].k
P(v)     == cfg.log[v].p
W(v)     == cfg.log[v].w
Newest(S) == NewestOf(cfg.log, S)

Absent == <<[w |-> -1, at |-> 0, upper |-> 0]>>
NoRow  == [w |-> 0, at |-> 0, upper |-> 0]

Over  == pc \in {"ok", "failed", "dead"}
Fault == faults < MaxFaults /\ faults' = faults + 1
Goto(s) == pc' = s

\* A read of the state table with FINAL: the newest row, or none.
Row == IF state \in {<<>>, Absent} THEN NoRow ELSE state[Len(state)]

Visible(r) == {v \in Versions \ cfg.gone : W(v) <= r}

\* What the run reads: all, or what is past the cursor; after a marker only
\* what is past it, up to its bound.
Read(r) ==
  IF cfg.promote = "swap" THEN Newest(Visible(r))
  ELSE IF cfg.chunked /\ Row.at > 0
       THEN {v \in Visible(r) : v > Row.at /\ W(v) > Row.w - cfg.lookback /\ W(v) <= Row.upper}
       ELSE {v \in Visible(r) : W(v) > Row.w - cfg.lookback}

UpperOf(r) == IF cfg.chunked /\ Row.at > 0 THEN Row.upper
              ELSE Max({Row.w} \cup {W(v) : v \in Read(r)})

-----------------------------------------------------------------------------
(* The start: the cursor and the state table.                              *)

\* read_last_watermark and read_chunk_state: a process that has seen the
\* state table does not ask whether it exists, and forgets it if it is gone.
StartRun ==
  /\ Over /\ run < LastRun
  /\ run' = run + 1
  /\ batch' = InOrder(Read(run + 1)) /\ upper' = UpperOf(run + 1)
  /\ sent' = 0
  /\ ready' = (ready /\ state # Absent)
  /\ attempt' = 1
  /\ Goto("prepare")
  /\ UNCHANGED <<cfg, epoch, tables, saved, faults>>

Created == IF state = Absent THEN <<>> ELSE state
NextStep == IF sent < Len(batch) THEN "insert"
            ELSE IF cfg.promote = "direct" THEN "persist" ELSE "promote"

\* prepare_target: staging, and ensure_state_table unless the process has.
Prepare ==
  /\ pc = "prepare"
  /\ staging' = IF cfg.promote = "direct" THEN Missing ELSE Empty
  /\ state' = IF ready THEN state ELSE Created
  /\ ready' = TRUE
  /\ Goto(NextStep)
  /\ UNCHANGED <<cfg, run, attempt, epoch, reading, dest, blocks, tokens, writes, faults>>

\* The state table is dropped by hand.
DropState ==
  /\ state # Absent /\ Fault
  /\ state' = Absent /\ tokens' = {}
  /\ UNCHANGED <<cfg, run, pc, attempt, epoch, reading, tables, writes, ready>>

\* OPTIMIZE FINAL of the state table.
CompactState ==
  /\ state # Absent /\ Len(state) > 1
  /\ state' = <<Row>>
  /\ UNCHANGED <<cfg, run, pc, attempt, epoch, reading, tables, tokens, writes, ready, faults>>

-----------------------------------------------------------------------------
(* Inserts.                                                                *)

Call == {batch[i] : i \in (sent + 1)..Min({sent + RowsPerCall, Len(batch)})}

\* A variant with a token of its own for each attempt.
TokenOfAttempt == <<run, epoch, attempt>>
\* next_dedup_token, taken once for all the attempts at an insert.
TokenOfInsert == <<run, epoch, 0>>
Token == IF cfg.token THEN TokenOfInsert ELSE <<0, 0, 0>>

\* A block of each row; the server may store the first ones only.
Block(v) == <<staging # Missing, IF staging = Missing \/ cfg.token THEN 0 ELSE run, Token, v>>
Kept(rows) == IF cfg.dedups THEN {v \in rows : Block(v) \notin blocks} ELSE rows

StoreBlocks(rows) ==
  /\ blocks' = IF cfg.dedups THEN blocks \cup {Block(v) : v \in rows} ELSE blocks
  /\ IF staging = Missing
     THEN dest' = Adding(dest, Kept(rows)) /\ UNCHANGED staging
     ELSE staging' = Adding(staging, Kept(rows)) /\ UNCHANGED dest

Insert ==
  /\ pc = "insert"
  /\ StoreBlocks(Call)
  /\ sent' = sent + Cardinality(Call)
  /\ epoch' = epoch + 1 /\ attempt' = 1
  /\ Goto(IF cfg.chunked THEN "mark"
          ELSE IF sent + Cardinality(Call) < Len(batch) THEN "insert"
          ELSE IF cfg.promote = "direct" THEN "persist" ELSE "promote")
  /\ UNCHANGED <<cfg, run, upper, batch, saved, ready, faults>>

\* A transient failure: some of its blocks were stored, or all and the answer
\* was lost.  Any other failure ends the run.
InsertFails ==
  /\ pc = "insert" /\ Fault
  /\ \E rows \in {{v \in Call : v < u} : u \in Call} \cup {Call} : StoreBlocks(rows)
  /\ \/ attempt < InsertAttempts /\ attempt' = attempt + 1 /\ UNCHANGED pc
     \/ Goto("cleanup") /\ UNCHANGED attempt
  /\ UNCHANGED <<cfg, run, epoch, reading, saved, ready>>

-----------------------------------------------------------------------------
(* The promotion, each statement sent once.                                *)

\* A variant that deletes in the window of an empty batch, which ClickHouse
\* makes of default values.
StagedAnything == TRUE
StagedAny == Held(staging) # {}

Stale ==
  LET window == IF Held(staging) = {} THEN {0} ELSE Between({P(v) : v \in Held(staging)})
      keys   == {K(v) : v \in Held(staging)}
  IN IF cfg.stale /\ StagedAny THEN {v \in Held(dest) : P(v) \in window /\ K(v) \notin keys}
     ELSE {}

\* A statement that applies goes on, or its answer is lost; one that does not
\* ends the run.
Applies(next) == \/ Goto(next) /\ UNCHANGED faults
                 \/ Goto("cleanup") /\ Fault
Refused == Goto("cleanup") /\ Fault

\* delete_stale_against_staging, before the insert.
DeleteStale ==
  /\ pc = "promote" /\ cfg.promote = "insert"
  /\ \/ dest' = Without(dest, Stale) /\ Applies("copy")
     \/ UNCHANGED dest /\ Refused
  /\ UNCHANGED <<cfg, run, attempt, epoch, reading, staging, blocks, saved, ready>>

InsertSelect ==
  /\ pc = "copy"
  /\ \/ dest' = SumOf(staging, dest) /\ Applies("drop")
     \/ UNCHANGED dest /\ Refused
  /\ UNCHANGED <<cfg, run, attempt, epoch, reading, staging, blocks, saved, ready>>

ExchangeTables ==
  /\ pc = "promote" /\ cfg.promote = "swap"
  /\ \/ dest' = staging /\ staging' = dest /\ Applies("drop")
     \/ UNCHANGED <<dest, staging>> /\ Refused
  /\ UNCHANGED <<cfg, run, attempt, epoch, reading, blocks, saved, ready>>

DropStaging ==
  /\ pc \in {"drop", "cleanup"}
  /\ \/ staging' = Missing
        /\ Goto(IF pc = "cleanup" THEN "failed" ELSE IF cfg.promote = "swap" THEN "ok" ELSE "persist")
        /\ UNCHANGED faults
     \/ Goto("failed") /\ Fault /\ UNCHANGED staging
  /\ UNCHANGED <<cfg, run, attempt, epoch, reading, dest, blocks, saved, ready>>

-----------------------------------------------------------------------------
(* State rows.                                                             *)

\* The row of a chunk's marker, and the one that ends the run.
NewRow == IF pc = "mark" THEN [w |-> Row.w, at |-> batch[sent], upper |-> upper]
          ELSE [w |-> upper, at |-> 0, upper |-> 0]

\* A variant without a token: the table compares the rows.
RowAsToken == <<NewRow, 0>>
\* state_dedup_token.
StateToken == <<run, writes>>

\* insert_state_row makes a table that was dropped again.
WriteRow ==
  /\ state' = IF StateToken \in tokens THEN Created ELSE Append(Created, NewRow)
  /\ tokens' = tokens \cup {StateToken}
  /\ writes' = writes + 1
  /\ ready' = TRUE

AfterRow == IF pc = "persist" THEN "ok" ELSE NextStep

PersistRow ==
  /\ pc \in {"mark", "persist"}
  /\ \/ WriteRow /\ Applies(AfterRow)
     \/ UNCHANGED <<saved, ready>> /\ Refused
  /\ UNCHANGED <<cfg, run, attempt, epoch, reading, tables>>

Crash ==
  /\ ~Over /\ Fault
  /\ Goto("dead")
  /\ ready' = FALSE
  /\ UNCHANGED <<cfg, run, attempt, epoch, reading, tables, saved>>

-----------------------------------------------------------------------------
Init ==
  /\ cfg \in Transfers
  /\ run = 0 /\ pc = "ok" /\ attempt = 1 /\ epoch = 0
  /\ upper = 0 /\ batch = <<>> /\ sent = 0
  /\ dest = [v \in Versions |-> IF v \in cfg.old THEN 1 ELSE 0]
  /\ staging = Missing /\ blocks = {}
  /\ state = Absent /\ tokens = {} /\ writes = 0
  /\ ready = FALSE /\ faults = 0

Ended == Over /\ run = LastRun

Next ==
  \/ StartRun \/ Prepare \/ DropState \/ CompactState
  \/ Insert \/ InsertFails
  \/ DeleteStale \/ InsertSelect \/ ExchangeTables \/ DropStaging
  \/ PersistRow \/ Crash
  \/ Ended /\ UNCHANGED vars

Spec == Init /\ [][Next]_vars

-----------------------------------------------------------------------------
TypeOK ==
  /\ cfg \in Transfers /\ run \in 0..LastRun
  /\ attempt \in 1..InsertAttempts
  /\ dest \in [Versions -> Nat]
  /\ sent \in 0..Len(batch)
  /\ \A i \in DOMAIN state : state[i].at \in Nat /\ state[i].upper \in Nat
  /\ ready \in BOOLEAN /\ faults \in 0..MaxFaults

\* With a token, a table that deduplicates holds each row of a run once,
\* though blocks of an attempt were stored and the attempt was made again.
StoredOnce ==
  cfg.token /\ cfg.dedups =>
    /\ staging # Missing => \A v \in Versions : staging[v] <= 1
    /\ cfg.promote = "swap" => \A v \in Versions : dest[v] <= 1

\* The destination has the newest version of each key up to the cursor, or a
\* newer one, through failed promotions, deletes and resumed reads.
CursorCovered ==
  \A v \in Newest({u \in Versions \ cfg.gone : W(u) <= Row.w}) :
    \E u \in Held(dest) : K(u) = K(v) /\ W(u) >= W(v)

\* A run that succeeds leaves its cursor as the newest state row, and no
\* marker, though the table drops rows it has seen or was dropped by hand
\* before; only a drop after that loses it.
StateTold ==
  pc = "ok" /\ run > 0 /\ cfg.promote # "swap" /\ state # Absent => Row = NewRow
=============================================================================
