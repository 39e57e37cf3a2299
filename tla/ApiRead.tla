------------------------------- MODULE ApiRead -------------------------------
(***************************************************************************)
(* A transfer from an API: CleverTap, AppsFlyer or any HTTP endpoint.      *)
(* Each run derives a window of days from the cursor the last one saved,   *)
(* fetches the window's records, page after page where the vendor pages,   *)
(* hands them to the destination or to a staging table, promotes that, and *)
(* saves the window's end as the next cursor.                              *)
(*                                                                         *)
(* The vendor's records are a sequence of [day: the day they are of, at:   *)
(* the hour they can first be read], of two hours a day.  Page p of a      *)
(* window is named by cursor p and leads to the next one, unless the       *)
(* vendor's answer takes a turn.                                           *)
(***************************************************************************)
EXTENDS Integers, Sequences, FiniteSets, FiniteSetsExt

CONSTANTS
  LastRun,      \* bound: runs
  LastHour,     \* bound: hours, two a day
  Transfers,    \* the transfers a behaviour may be of, each
                \*   [kind: "clevertap", "appsflyer" or "http",
                \*    mode: "full", "incremental" or "append",
                \*    stages: writes go to staging, fatal: fail_on_warnings
                \*    names incomplete_export, advance: advance_watermark,
                \*    from: from_date, to: to_date or 0 for today,
                \*    skip: skip_to_max, lookback: lookback_days,
                \*    records: a sequence of [day, at],
                \*    turns: what the vendor's pages may do, each
                \*      [at: a page or 0, next: what follows it, partial]]
  PageSize,     \* records of a page
  BatchRows,    \* batch_rows
  HttpAttempts, \* MAX_INSERT_ATTEMPTS, 5
  PageAttempts, \* MAX_PAGE_RETRY_ATTEMPTS, 8
  MaxFaults     \* bound: failed requests, failed writes and crashes

VARIABLES
  cfg,        \* a member of Transfers
  run,        \* the run
  now,        \* the hour it is
  pc,         \* where the run is
  window,     \* the days it reads
  turn,       \* a member of cfg.turns
  page,       \* cursor: the page it asks for
  answered,   \* seen: the pages it got
  repeats,    \* history: a page was got twice
  attempt,    \* attempt, of a request
  again,      \* attempt, at a page that is not ready
  held,       \* records of no full batch yet
  staging,    \* records in the staging table
  dest,       \* records in the destination
  exists,     \* the destination does
  incomplete, \* the run raised incomplete_export
  cursor,     \* the saved cursor, a day, or 0
  since,      \* history: where the runs that saved cursors started
  savedAt,    \* history: the hour of the run that saved the cursor
  excused,    \* history: records of windows whose end was not honest
  faults      \* within MaxFaults

reading == <<page, answered, repeats, held, incomplete>>
request == <<attempt, again>>
tables  == <<staging, dest, exists>>
saved   == <<cursor, since, savedAt, excused>>
vars    == <<cfg, run, now, pc, window, turn, reading, request, tables, saved, faults>>

-----------------------------------------------------------------------------
Records == DOMAIN cfg.records
Day(i)  == cfg.records[i].day
At(i)   == cfg.records[i].at
Larger(a, b) == IF a > b THEN a ELSE b

DayOf(hour) == (hour + 1) \div 2

Over    == pc \in {"ok", "failed", "dead"}
Fault   == faults < MaxFaults /\ faults' = faults + 1
Goto(s) == pc' = s
Staged  == cfg.mode = "full" \/ cfg.stages

-----------------------------------------------------------------------------
(* The window.                                                             *)

\* A variant that starts at the day after the cursor.
FromNextDay(committed) == committed + 1 - cfg.lookback

\* lookback_days before the cursor: without it the cursor's own day is read
\* again, which was not over when the run before ended.
ResumeFrom(committed) == committed - cfg.lookback

\* derive_api_window, with read_saved_state: a destination that is gone is
\* read from the start.
WindowOf(day, committed) ==
  LET to     == IF cfg.to = 0 THEN day ELSE cfg.to
      start  == IF cfg.skip THEN to ELSE cfg.from
      resume == IF cfg.lookback > 0 THEN Larger(ResumeFrom(committed), cfg.from)
                                    ELSE ResumeFrom(committed)
      from   == IF cfg.mode = "full" THEN cfg.from
                ELSE IF committed > 0 THEN resume ELSE start
  IN [from |-> IF from > to /\ cfg.mode # "full" THEN to ELSE from, to |-> to]

Committed == IF exists THEN cursor ELSE 0

StartRun ==
  /\ Over /\ run < LastRun
  /\ run' = run + 1
  /\ now' \in now..LastHour
  /\ window' = WindowOf(DayOf(now'), Committed)
  /\ turn' \in cfg.turns
  /\ page' = 1 /\ answered' = {1} /\ repeats' = FALSE
  /\ held' = {} /\ incomplete' = FALSE /\ staging' = {}
  /\ attempt' = 1 /\ again' = 1
  /\ cursor' = Committed /\ exists' = TRUE
  /\ since' = IF Committed = 0 THEN window'.from ELSE since
  /\ dest' = IF exists THEN dest ELSE {}
  /\ Goto(IF cfg.kind = "clevertap" THEN "create" ELSE "fetch")
  /\ UNCHANGED <<cfg, savedAt, excused, faults>>

\* The destination is dropped by hand between runs.
DropDest ==
  /\ Over /\ exists /\ Fault
  /\ exists' = FALSE
  /\ UNCHANGED <<cfg, run, now, pc, window, turn, reading, request, staging, dest, saved>>

-----------------------------------------------------------------------------
(* Requests.                                                               *)

\* What the vendor has for the window, and how it is paged.
Exported == {i \in Records : At(i) <= now /\ window.from <= Day(i) /\ Day(i) <= window.to}
PageOf(i) == (Cardinality({j \in Exported : j < i}) \div PageSize) + 1
Pages == Larger(1, Max({0} \cup {PageOf(i) : i \in Exported}))

\* A page's records; AppsFlyer's report has them all.
EventsPage(p) == {i \in Exported : PageOf(i) = p}
Report        == Exported
Content(p)    == IF cfg.kind = "appsflyer" THEN Report ELSE EventsPage(p)

\* The cursor of the page after p, or 0.
NextCursor(p) ==
  IF cfg.kind = "appsflyer" THEN 0
  ELSE IF p = turn.at THEN turn.next
  ELSE IF p < Pages THEN p + 1 ELSE 0

CreateExport ==
  /\ pc = "create"
  /\ attempt' = 1
  /\ Goto("fetch")
  /\ UNCHANGED <<cfg, run, now, window, turn, reading, again, tables, saved, faults>>

\* A transient failure is tried again, any other ends the run; so does
\* AppsFlyer's limit message, which comes with status 200.
Resend  == attempt < HttpAttempts /\ attempt' = attempt + 1 /\ UNCHANGED pc
Refused == Goto("failed") /\ UNCHANGED attempt

CleverTapFails == cfg.kind = "clevertap" /\ pc \in {"create", "fetch"} /\ (Resend \/ Refused)
AppsFlyerFails == cfg.kind = "appsflyer" /\ pc = "fetch" /\ (Resend \/ Refused)
HttpFails      == cfg.kind = "http" /\ pc = "fetch" /\ (Resend \/ Refused)

RequestFails ==
  /\ CleverTapFails \/ AppsFlyerFails \/ HttpFails
  /\ Fault
  /\ UNCHANGED <<cfg, run, now, window, turn, reading, again, tables, saved>>

\* next_page: CleverTap answers that the page is not ready, or too many.
AskAgain ==
  /\ pc = "fetch" /\ cfg.kind = "clevertap" /\ Fault
  /\ attempt' = 1
  /\ IF again < PageAttempts
     THEN again' = again + 1 /\ UNCHANGED pc
     ELSE Goto("failed") /\ UNCHANGED again
  /\ UNCHANGED <<cfg, run, now, window, turn, reading, tables, saved>>

-----------------------------------------------------------------------------
(* Pages.                                                                  *)

\* append_record gives out a batch at batch_rows; the pages of an HTTP read
\* are all fetched before the first of its records is appended.
Batched(rows) ==
  IF cfg.kind = "clevertap"
  THEN {b \in SUBSET rows : Cardinality(b) = (Cardinality(rows) \div BatchRows) * BatchRows}
  ELSE {{}}

Hand(rows) ==
  IF Staged THEN staging' = staging \cup rows /\ UNCHANGED dest
            ELSE dest' = dest \cup rows /\ UNCHANGED staging

\* A variant that compares with the page before only.
RepeatsLast(next) == next = page

\* seen: a cursor whose page was asked for.
Seen(next) == next \in answered

\* An HTTP read's first request has no cursor.
FirstRequest == page = 1 /\ ~repeats

\* What the cursor of the page that came says: go on, or that was all, and
\* whether that is honest.  CleverTap's chain ends where a cursor comes
\* again; HTTP's where it is the one just sent.
Stops(next) == next = 0 \/ IF cfg.kind = "clevertap" THEN Seen(next)
                           ELSE next = page /\ ~FirstRequest

\* The records of the page go on before its cursor is looked at.
TakePage ==
  LET rows == held \cup Content(page)
      next == NextCursor(page)
      odd  == cfg.kind = "clevertap" /\ (turn.partial \/ (next # 0 /\ Seen(next)))
  IN /\ pc = "fetch"
     /\ \E b \in Batched(rows) : Hand(b) /\ held' = rows \ b
     /\ attempt' = 1 /\ again' = 1
     /\ incomplete' = (incomplete \/ odd)
     /\ IF Stops(next)
        THEN Goto("read") /\ UNCHANGED <<page, answered, repeats>>
        ELSE /\ page' = next /\ answered' = answered \cup {next}
             /\ repeats' = (repeats \/ next \in answered)
             /\ UNCHANGED pc
     /\ UNCHANGED <<cfg, run, now, window, turn, exists, saved, faults>>

\* A single page that had records is told.
Single == cfg.kind = "clevertap" /\ answered = {1} /\ Content(1) # {}

\* finish gives out the last batch.  fail_on_warnings stops the run before
\* the promotion or the cursor; an append that wrote to the destination is
\* stopped after the cursor.
EndRead ==
  /\ pc = "read"
  /\ Hand(held) /\ held' = {}
  /\ incomplete' = (incomplete \/ Single)
  /\ Goto(IF cfg.fatal /\ incomplete' /\ ~(cfg.mode = "append" /\ ~Staged) THEN "failed"
          ELSE IF Staged THEN "promote" ELSE "save")
  /\ UNCHANGED <<cfg, run, now, window, turn, page, answered, repeats, request, exists, saved, faults>>

\* A write of the read or of the promotion fails.
WriteFails ==
  /\ pc \in {"fetch", "read", "promote", "save"} /\ Fault
  /\ Goto("failed")
  /\ UNCHANGED <<cfg, run, now, window, turn, reading, request, tables, saved>>

Promote ==
  /\ pc = "promote"
  /\ dest' = IF cfg.mode = "full" THEN staging ELSE dest \cup staging
  /\ Goto(IF cfg.mode = "full" THEN "ok" ELSE "save")
  /\ UNCHANGED <<cfg, run, now, window, turn, reading, request, staging, exists, saved, faults>>

\* The vendor's chain ended where its records did.
Honest == NextCursor(page) = 0 /\ page = Pages

SaveCursor ==
  /\ pc = "save"
  /\ IF cfg.advance
     THEN /\ cursor' = window.to /\ savedAt' = now
          /\ excused' = IF incomplete \/ (cfg.kind = "http" /\ ~Honest)
                        THEN excused \cup Exported ELSE excused
     ELSE UNCHANGED <<cursor, savedAt, excused>>
  /\ Goto(IF cfg.fatal /\ incomplete THEN "failed" ELSE "ok")
  /\ UNCHANGED <<cfg, run, now, window, turn, reading, request, tables, since, faults>>

Crash ==
  /\ ~Over /\ Fault
  /\ Goto("dead")
  /\ UNCHANGED <<cfg, run, now, window, turn, reading, request, tables, saved>>

-----------------------------------------------------------------------------
Init ==
  /\ cfg \in Transfers
  /\ run = 0 /\ now = 1 /\ pc = "ok"
  /\ window = [from |-> 1, to |-> 0] /\ turn \in cfg.turns
  /\ page = 1 /\ answered = {} /\ repeats = FALSE
  /\ attempt = 1 /\ again = 1
  /\ held = {} /\ staging = {} /\ dest = {} /\ exists = TRUE
  /\ incomplete = FALSE
  /\ cursor = 0 /\ since = 0 /\ savedAt = 0 /\ excused = {}
  /\ faults = 0

Ended == Over /\ run = LastRun

Next ==
  \/ StartRun \/ DropDest \/ CreateExport \/ RequestFails \/ AskAgain \/ TakePage
  \/ EndRead \/ WriteFails \/ Promote \/ SaveCursor \/ Crash
  \/ Ended /\ UNCHANGED vars

Spec == Init /\ [][Next]_vars

-----------------------------------------------------------------------------
TypeOK ==
  /\ cfg \in Transfers /\ run \in 0..LastRun /\ now \in 1..LastHour
  /\ turn \in cfg.turns
  /\ UNION {held, staging, dest, excused} \subseteq Records
  /\ attempt \in 1..HttpAttempts /\ again \in 1..PageAttempts
  /\ cursor \in 0..DayOf(LastHour) /\ faults \in 0..MaxFaults
  /\ {repeats, exists, incomplete} \subseteq BOOLEAN

\* CleverTap's chain of pages visits none twice, whatever cursors the vendor
\* returns: it ends, and appends no record twice.
PagesOnce == cfg.kind = "clevertap" => ~repeats

\* A cursor vouches for its days: each record of them, since the first run's
\* window, that could be read when it was saved and was no later than
\* lookback_days, is in the destination, through failed and crashed runs and
\* whatever the last batch held, unless the run said the export is incomplete.
\* A full refresh leaves what the window has.
DaysCovered ==
  /\ cfg.mode # "full" /\ exists =>
       \A i \in Records \ excused :
         /\ since <= Day(i) /\ Day(i) <= cursor
         /\ At(i) <= savedAt /\ DayOf(At(i)) - Day(i) <= cfg.lookback
         => i \in dest
  /\ cfg.mode = "full" /\ pc = "ok" /\ run > 0 /\ exists =>
       dest = Exported \/ incomplete \/ (cfg.kind = "http" /\ ~Honest)
-----------------------------------------------------------------------------
(* Why the days are covered: a run that saves its window's end has written *)
(* the whole window, or said that it has not, and the days before it were  *)
(* covered by the cursor it started from.                                  *)

\* Days are counted from the first that a record is of.  A cursor's read has
\* begun by then, and reads to today or to a day that has been.  A turn skips
\* no page, and one that ends CleverTap's chain early does so at its first
\* page, or partially.
ApiConstants ==
  /\ LastRun \in Nat /\ LastHour \in Nat /\ LastHour >= 1 /\ MaxFaults \in Nat
  /\ PageSize \in Nat /\ PageSize >= 1
  /\ HttpAttempts \in Nat /\ HttpAttempts >= 1 /\ PageAttempts \in Nat /\ PageAttempts >= 1
  /\ \A c \in Transfers :
       /\ c.kind \in {"clevertap", "appsflyer", "http"}
       /\ c.lookback \in Nat /\ c.from \in Int /\ c.to \in Nat
       /\ c.mode # "full" => c.from <= 1 /\ c.to <= 1
       /\ DOMAIN c.records \subseteq Int /\ IsFiniteSet(DOMAIN c.records)
       /\ \A i \in DOMAIN c.records :
            /\ c.records[i].day \in Int /\ c.records[i].day >= 1
            /\ c.records[i].at \in Int
       /\ \A t \in c.turns :
            /\ t.at \in Nat /\ t.next \in Nat /\ t.next <= t.at + 1
            /\ c.kind = "clevertap" /\ t.next = 0 => t.at <= 1 \/ t.partial

\* What a run found when it started, it still goes by.
RunsKnown ==
  /\ pc \in {"create", "fetch", "read", "promote", "save", "ok", "failed", "dead"}
  /\ ~Over => exists /\ window = WindowOf(DayOf(now), cursor)
  /\ ~Over /\ cursor = 0 => since = window.from
  /\ pc = "promote" => Staged
  /\ pc = "save" => cfg.mode # "full"

CursorKnown ==
  /\ savedAt \in 0..LastHour
  /\ cfg.mode = "full" => cursor = 0
  /\ cursor > 0 =>
       since \in Int /\ cfg.from <= since /\ cursor <= DayOf(savedAt) /\ savedAt <= now

\* No page is asked for but those before it were.
PagesKnown ==
  /\ page \in answered
  /\ \A p \in answered : p \in Nat /\ p >= 1 /\ \A q \in 1..p : q \in answered
  /\ cfg.kind = "clevertap" => ~repeats /\ \A p \in answered : p <= page

\* The records of the pages that were taken are held or were handed on, or the
\* run has said, or the vendor has, that they are not all.
Written == IF Staged THEN staging ELSE dest
Told    == incomplete \/ (cfg.kind = "http" /\ ~Honest)

RecordsKept ==
  /\ pc \in {"create", "fetch"} =>
       \A i \in Exported : PageOf(i) \in answered \ {page} => i \in held \cup Written
  /\ pc = "read" => Exported \subseteq held \cup Written \/ Told \/ Single
  /\ pc = "promote" => Exported \subseteq staging \/ Told
  /\ pc = "save" => Exported \subseteq dest \/ Told
  /\ cfg.mode = "full" /\ ~Over => held \cup staging \subseteq Exported

ApiInv ==
  /\ TypeOK /\ RunsKnown /\ CursorKnown /\ PagesOnce /\ DaysCovered
  /\ ~Over => PagesKnown /\ RecordsKept
=============================================================================
