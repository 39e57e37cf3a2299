-------------------------- MODULE ClickHouseSinkInv --------------------------
(***************************************************************************)
(* Why the promises of ClickHouseSink hold: the inductive invariant its    *)
(* theorems are proved from.                                               *)
(***************************************************************************)
EXTENDS ClickHouseSink

\* What the constants are.  Only a read that inserts into the destination is
\* chunked, and stale rows are deleted by the column of the watermark.  A key
\* that is gone is gone in all its versions, and the destination starts with
\* what is at watermark 0, or newer.
ClickHouseConstants ==
  /\ LastRun \in Nat /\ MaxFaults \in Nat
  /\ RowsPerCall \in Nat \ {0} /\ InsertAttempts \in Nat \ {0}
  /\ \A t \in Transfers :
       /\ t.log \in Seq(Range(t.log))
       /\ \A v \in DOMAIN t.log : t.log[v].w \in Nat /\ t.log[v].p \in Int
       /\ t.old \subseteq DOMAIN t.log
       /\ \A u, v \in DOMAIN t.log : u \in t.gone /\ t.log[u].k = t.log[v].k => v \in t.gone
       /\ t.promote \in {"direct", "insert", "swap"} /\ t.lookback \in Nat
       /\ t.chunked => t.promote = "direct"
       /\ t.stale => \A v \in DOMAIN t.log : t.log[v].p = t.log[v].w
       /\ \A v \in NewestOf(t.log, {u \in DOMAIN t.log \ t.gone : t.log[u].w <= 0}) :
            \E u \in t.old : t.log[u].k = t.log[v].k /\ t.log[u].w >= t.log[v].w

Steps == {"prepare", "insert", "mark", "promote", "copy", "drop", "persist", "cleanup",
          "ok", "failed", "dead"}
Running == pc \in {"prepare", "insert", "mark", "promote", "copy", "drop", "persist"}
StateRow == [w : Nat, at : Nat, upper : Nat]

\* The types: the batch is in order, and a staging table is there until it is
\* dropped.
Typed ==
  /\ TypeOK /\ pc \in Steps
  /\ run \in Nat /\ attempt \in Nat /\ epoch \in Nat /\ writes \in Nat
  /\ state = Absent \/ state \in Seq(StateRow)
  /\ batch \in Seq(Versions)
  /\ \A i, j \in 1..Len(batch) : i < j => batch[i] < batch[j]
  /\ staging = Missing \/ staging \in [Versions -> Nat]
  /\ cfg.promote = "direct" => staging = Missing
  /\ cfg.promote # "direct" /\ pc \in {"insert", "promote", "copy"} => staging \in [Versions -> Nat]

\* What each step is of.
Stepped ==
  /\ pc = "prepare" => sent = 0
  /\ pc = "insert" => sent < Len(batch)
  /\ pc = "mark" => cfg.chunked /\ sent > 0
  /\ pc \in {"promote", "copy"} => cfg.promote # "direct" /\ sent = Len(batch)
  /\ pc = "copy" => cfg.promote = "insert"
  /\ pc = "drop" => cfg.promote # "direct"
  /\ pc = "persist" => cfg.promote # "swap"

\* The rows of the state table: the newest is of what was visible, a swap
\* writes none, a token is of a write that was made.
Told ==
  /\ Running => run > 0
  /\ upper \in 0..run /\ Row.w <= run /\ Row.upper <= run
  /\ cfg.promote = "swap" => Row = NoRow
  /\ ~cfg.chunked => Row.at = 0
  /\ \A t \in tokens : t[2] \in 0..(writes - 1)
  /\ StateTold

-----------------------------------------------------------------------------
RunOf(b) == IF cfg.token THEN b[3][1] ELSE b[2]

\* The blocks that were seen, each of this run or an earlier one: the rows of
\* those of the table that is inserted into are there.
Seen ==
  /\ cfg.promote = "direct" => \A b \in blocks : b[4] \in Held(dest)
  /\ cfg.promote # "direct" =>
       \A b \in blocks : /\ RunOf(b) \in 0..run
                         /\ pc = "prepare" => RunOf(b) < run
                         /\ pc = "insert" /\ RunOf(b) = run => b[4] \in Held(staging)

Sent == {batch[i] : i \in 1..sent}
Whole == {batch[i] : i \in 1..Len(batch)}

\* A staging table holds what was sent, and nothing that was not read.
Staged ==
  cfg.promote # "direct" =>
    /\ pc \in {"insert", "promote", "copy"} => Sent \subseteq Held(staging)
    /\ pc \in {"insert", "promote", "copy"} => Held(staging) \subseteq Whole

\* Where blocks have tokens a row is in the staging table once: it was sent, or
\* is of the insert that is tried again and its block was seen.
Once ==
  cfg.token /\ cfg.dedups =>
    /\ StoredOnce
    /\ staging # Missing /\ pc = "insert" =>
         \A v \in Versions : staging[v] > 0 => v \in Sent \/ (v \in Call /\ Block(v) \in blocks)

-----------------------------------------------------------------------------
\* The destination has a version as new.
Covered(v) == \E u \in Held(dest) : K(u) = K(v) /\ W(u) >= W(v)
CoveredTo(n) == \A v \in Newest(Visible(n)) : Covered(v)

\* What of the run's rows the destination may lack.
Owed ==
  IF pc \in {"prepare", "insert", "mark", "promote", "copy"}
  THEN IF cfg.promote = "direct" THEN {batch[i] : i \in (sent + 1)..Len(batch)} ELSE Whole
  ELSE {}

\* What is not past the cursor is there.  After a marker the rest is past it,
\* and above the cursor's lower bound.
Saved ==
  /\ CoveredTo(0) /\ CoveredTo(Row.w)
  /\ Row.at > 0 => \A v \in Newest(Visible(Row.upper)) :
                     Covered(v) \/ (v > Row.at /\ W(v) > Row.w - cfg.lookback)

\* What a run reads: of a swap the newest version of each key, else what is
\* not there yet, and all that is visible from its oldest row on.
Reading ==
  Running =>
    /\ Whole \subseteq Visible(run)
    /\ cfg.promote = "swap" => \A v \in Visible(run) : \E u \in Whole : K(u) = K(v) /\ W(u) >= W(v)
    /\ cfg.promote # "swap" => \A v \in Newest(Visible(upper)) : Covered(v) \/ v \in Owed
    /\ cfg.chunked => \A v \in Whole : W(v) > Row.w - cfg.lookback
    /\ cfg.promote = "insert" =>
         \A u \in Whole : \A v \in Visible(run) : W(v) >= W(u) => v \in Whole

CInv ==
  /\ Typed /\ Stepped /\ Told
  /\ Seen /\ Staged /\ Once
  /\ Saved /\ Reading
=============================================================================
