--------------------------- MODULE BigQuerySinkInv ---------------------------
(***************************************************************************)
(* Why the promises of BigQuerySink hold: the inductive invariant its      *)
(* theorems are proved from.                                               *)
(***************************************************************************)
EXTENDS BigQuerySink

\* What the constants are.  The column a MERGE is pruned by never changes for
\* a key, stale rows are deleted by the column of the watermark, which is that
\* column.  A key that is gone is gone in all its versions, and the
\* destination starts with one row of a key, and with what is at watermark 0,
\* or newer.
BigQueryConstants ==
  /\ LastRun \in Nat /\ MaxFaults \in Nat
  /\ RowsPerCall \in Nat \ {0} /\ RowsPerRequest \in Nat \ {0}
  /\ InsertAttempts \in Nat \ {0} /\ HttpAttempts \in Nat \ {0} /\ JobAttempts \in Nat \ {0}
  /\ \A t \in Transfers :
       /\ t.log \in Seq(Range(t.log))
       /\ \A v \in DOMAIN t.log : t.log[v].w \in Nat /\ t.log[v].p \in Int /\ t.log[v].k \in Int
       /\ t.old \subseteq DOMAIN t.log /\ t.gone \subseteq DOMAIN t.log
       /\ \A u, v \in t.old : t.log[u].k = t.log[v].k => u = v
       /\ \A u, v \in DOMAIN t.log : u \in t.gone /\ t.log[u].k = t.log[v].k => v \in t.gone
       /\ t.promote \in {"merge", "swap"} /\ t.lookback \in Nat
       /\ t.prune => \A u, v \in DOMAIN t.log : t.log[u].k = t.log[v].k => t.log[u].p = t.log[v].p
       /\ t.stale => t.prune /\ \A v \in DOMAIN t.log : t.log[v].p = t.log[v].w
       /\ \A v \in NewestOf(t.log, {u \in DOMAIN t.log \ t.gone : t.log[u].w <= 0}) :
            \E u \in t.old : t.log[u].k = t.log[v].k /\ t.log[u].w >= t.log[v].w

Steps == {"state", "submit", "poll", "next", "open", "append", "finalize", "bounds", "drop",
          "cleanup", "ok", "failed", "dead"}
Calling == pc \in {"submit", "poll", "next"}
Inserting == pc \in {"open", "append", "finalize", "bounds"}

\* The types: the batch is in order.
Typed ==
  /\ TypeOK /\ pc \in Steps /\ stmt \in Statements
  /\ batch \in Seq(Versions)
  /\ \A i, j \in 1..Len(batch) : i < j => batch[i] < batch[j]
  /\ DOMAIN staging = RunIds /\ DOMAIN bounds = RunIds
  /\ \A r \in RunIds : staging[r] = Missing \/ staging[r] \in [Versions -> Nat]
  /\ state \in Seq(Nat) /\ \A i \in DOMAIN state : state[i] \in 0..run

-----------------------------------------------------------------------------
Is(r, s, how) == \E a \in 0..JobAttempts - 1 : job[<<r, s, a>>] = how
None(r, s) == \A a \in 0..JobAttempts - 1 : job[<<r, s, a>>] = "absent"

\* What each step is of.
Stepped ==
  /\ pc \notin {"ok"} => run > 0
  /\ Calling /\ stmt = "clone" => again = 0
  /\ pc = "poll" => job[Job] # "absent"
  /\ pc = "next" => job[Job] = "done"
  /\ (Calling \/ pc = "drop") /\ stmt = "persist" => cfg.promote = "merge" /\ pc # "drop"
  /\ pc = "open" => sent < Len(batch) /\ sent % RowsPerCall = 0
  /\ pc = "append" => sent < Len(batch)
  /\ pc = "finalize" => sent > 0 /\ (sent = Len(batch) \/ sent % RowsPerCall = 0)
  /\ pc = "bounds" => sent = Len(batch)
  /\ Calling /\ stmt = "clone" => sent = 0

\* What the run has behind it.
Cloned   == Inserting \/ pc = "drop" \/ (Calling /\ stmt # "clone") \/ (pc = "next")
Promotes == pc = "drop" \/ (Calling /\ stmt = "persist") \/ (pc = "next" /\ stmt = "promote")
Before   == pc = "state" \/ Inserting \/ (Calling /\ stmt = "clone")

\* The jobs of each run: a clone once, a promotion of what was cloned, a cursor
\* of what was promoted.
Jobs ==
  /\ \A id \in JobIds : job[id] # "absent" =>
       /\ id[1] <= run
       /\ id[2] = "clone" => id[3] = 0
       /\ id[2] = "promote" => Is(id[1], "clone", "done")
       /\ id[2] = "persist" => cfg.promote = "merge" /\ Is(id[1], "promote", "done")
  /\ pc = "state" => \A s \in Statements : None(run, s)
  /\ Cloned => Is(run, "clone", "done")
  /\ Before => None(run, "promote")
  /\ Promotes => Is(run, "promote", "done")
  /\ pc = "ok" /\ run > 0 =>
       IF cfg.promote = "merge" THEN Is(run, "persist", "done") ELSE Is(run, "promote", "done")

-----------------------------------------------------------------------------
Sent  == {batch[i] : i \in 1..sent}
Whole == {batch[i] : i \in 1..Len(batch)}

\* A MERGE's bounds let in what staging holds, and no partition but between
\* those; only one that prunes has a bound on them.
Fit(s, b) ==
  /\ b.keys # {} => \A v \in Held(s) : K(v) \in b.keys
  /\ b.parts # {} => \A v \in Held(s) : P(v) \in b.parts
  /\ b.parts # {} => cfg.prune
  /\ \A p \in b.parts : \E u, v \in Held(s) : P(u) <= p /\ p <= P(v)

\* While a run inserts, staging holds what was sent, and of the request under
\* way all or nothing.
Staged ==
  /\ \A r \in RunIds : r > run => staging[r] = Missing
  /\ Calling /\ stmt = "clone" /\ Is(run, "clone", "done") => staging[run] = Empty
  /\ Inserting => staging[run] \in [Versions -> Nat]
  /\ pc \in {"open", "finalize", "bounds"} => Held(staging[run]) = Sent
  /\ pc = "append" => Held(staging[run]) \in {Sent, Sent \cup Request}

\* Where streams have offsets: one that counts what was sent has each row
\* once, and one that honours them counts nothing else.
Dup == \E v \in Versions : staging[run][v] > 1
Now == IF Request \subseteq Held(staging[run]) THEN Cardinality(Request) ELSE 0
Counted ==
  /\ cfg.offsets /\ cfg.honours =>
       /\ ~unsure
       /\ pc = "append" => stream = Offset + Now
       /\ pc = "finalize" => CountMatches
  /\ cfg.offsets /\ ~unsure =>
       /\ pc \in {"open", "bounds"} => ~Dup
       /\ pc = "append" => stream >= Offset + Now /\ (Dup => stream > Offset + Now)
       /\ pc = "finalize" /\ Dup => ~CountMatches

\* Where a promotion has a job, its staging table is as it was then, or gone.
Promotable(r) == ~None(r, "promote") \/ (r = run /\ pc = "submit" /\ stmt = "promote")
Once ==
  \A r \in RunIds : Promotable(r) /\ staging[r] # Missing =>
    /\ Fit(staging[r], bounds[r])
    /\ cfg.offsets /\ ~unsure => \A v \in Versions : staging[r][v] <= 1
    /\ r = run => Held(staging[r]) = Whole

\* The destination has one row of a key, or each row of a stream once.
OneRow ==
  /\ cfg.promote = "merge" =>
       \A u \in Held(dest) : dest[u] = 1 /\ \A v \in Held(dest) : K(u) = K(v) => u = v
  /\ cfg.offsets /\ ~unsure => \A v \in Versions : dest[v] <= 1

-----------------------------------------------------------------------------
\* The destination has a version as new.
Covered(v) == \E u \in Held(dest) : K(u) = K(v) /\ W(u) >= W(v)
CoveredTo(n) == \A v \in Newest(Visible(n)) : Covered(v)

\* A run has read: what a MERGE is of is all that is visible from its oldest
\* row on, and what it leaves out is there.
Begun == run > 0 /\ (~None(run, "clone") \/ Inserting \/ Calling \/ pc = "drop")
Reading ==
  Begun =>
    /\ Whole \subseteq Visible(run)
    /\ cfg.promote = "swap" => Whole = Newest(Visible(run))
    /\ cfg.promote = "merge" =>
         /\ \A u \in Whole : \A v \in Visible(run) : W(v) >= W(u) => v \in Whole
         /\ "promote" \notin late => \A v \in Newest(Visible(run)) : v \in Whole \/ Covered(v)

\* What is not past a cursor, or a promotion of which was done, is there.
Saved ==
  cfg.promote = "merge" /\ "promote" \notin late =>
    /\ CoveredTo(0)
    /\ \A i \in DOMAIN state : CoveredTo(state[i])
    /\ \A r \in RunIds : Is(r, "promote", "done") => CoveredTo(r)

\* What the jobs of the run did stays so while none of an earlier one runs.
Done ==
  late = {} =>
    /\ cfg.promote = "swap" /\ run > 0 /\ Is(run, "promote", "done") => Held(dest) = Whole
    /\ cfg.promote = "merge" /\ run > 0 /\ Is(run, "persist", "done") => Cursor = run
    /\ cfg.stale /\ cfg.promote = "merge" /\ run > 0 /\ Is(run, "promote", "done") =>
         \A v \in cfg.gone : P(v) \in bounds[run].parts => dest[v] = 0

BInv ==
  /\ Typed /\ Stepped /\ Jobs
  /\ Staged /\ Counted /\ Once /\ OneRow
  /\ Reading /\ Saved /\ Done
=============================================================================
