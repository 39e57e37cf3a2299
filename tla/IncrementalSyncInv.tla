------------------------- MODULE IncrementalSyncInv -------------------------
(***************************************************************************)
(* Where the promises of IncrementalSync hold, and why: the hypotheses of  *)
(* its theorems and the inductive invariant they are proved from.          *)
(***************************************************************************)
EXTENDS IncrementalSync

\* Some row read by the sync always holds a watermark, so the MAX is not NULL.
SourceNeverEmpty ==
  ~CanDelete /\ (InitialRows \cap Selected) \ NullRows # {}

\* No key is new to the source, so one between its MIN and MAX stays so.
NoNewKeys == ~CanDelete /\ Selected \subseteq InitialRows

\* What a configuration needs for no update to be lost.  A discarded cursor
\* is cleared; a cursor taken from the rows of several statements only allows
\* for changes stamped as they commit, and one no MAX bounds for none at a key
\* outside the ranges that were split; and a resume marker records a bound
\* unless there is a committed cursor to keep.
SoundFor(c) ==
  /\ CanDrop => c.advance
  /\ c.from # "max" /\ c.mode # "single" => Lag = 0
  /\ c.from # "max" /\ c.mode = "windows" =>
       \/ NoNewKeys
       \/ c.from = "table_max" /\ SourceNeverEmpty
  /\ c.mode = "chunks" =>
       \/ Starts = {"established"} /\ ~CanDrop
       \/ c.from = "stream" /\ ~NullLands
       \/ c.from # "stream" /\ SourceNeverEmpty

Sound == Lag <= Lookback /\ \A c \in Configs : SoundFor(c)

Early   == {"idle", "cursor", "marker", "probe", "bounds", "clear", "prepare"}
Planned == {"probe", "bounds", "clear", "prepare", "read", "land", "mark",
            "finish"}
Bounded == Planned \ {"probe"}
Reading == {"read", "land", "mark", "finish"}
Split   == {"clear", "prepare"} \cup Reading

\* Nothing is stamped, saved or read later than now.
Clock ==
  /\ 1 <= now
  /\ \A k \in Keys : /\ src[k].at <= now
                     /\ src[k].wm # None => src[k].at # 0 /\ src[k].wm <= now
                     /\ dest[k] <= now
                     /\ buf[k] <= now
  /\ committed # None => committed <= now
  /\ last # None => last <= now
  /\ upper # None => upper <= now
  /\ snapMax # None => snapMax <= now
  /\ seen # None => seen <= now
  /\ best # None => best <= now
  /\ marker # None /\ marker.upper # None => marker.upper <= now
  /\ resume # None /\ resume.upper # None => resume.upper <= now
  /\ started <= now
  /\ first <= now

\* A version in flight is no older than the one it replaces.
Versions ==
  \A k \in Keys : /\ src[k].at # 0 => dest[k] <= src[k].at /\ buf[k] <= src[k].at
                  /\ buf[k] # 0 => dest[k] <= buf[k]

\* What the state row says of a destination, existing or not.
StateRow ==
  /\ marker # None => Chunked
  /\ marker # None /\ marker.upper = None => committed # None
  /\ ~destExists => \/ committed = None /\ marker = None
                    \/ cfg.advance /\ pc \in {"idle", "cursor", "marker"}
                    \/ cfg.advance /\ discarded /\ pc \in {"probe", "bounds", "clear"}
  /\ Starts = {"established"} /\ ~CanDrop =>
       destExists /\ committed # None /\ ~discarded
  /\ SourceNeverEmpty => \A k \in InitialRows \ NullRows : src[k].wm # None
  /\ NoNewKeys => \A k \in Selected : src[k].at # 0

\* What a run knows of the state row and the source, as far as it has got.
RunPlan ==
  /\ pc \in {"idle", "cursor", "marker"} => resume = None
  /\ pc = "marker" => last = committed
  /\ pc \in Planned => IF discarded THEN last = None /\ resume = None
                                    ELSE last = committed
  /\ pc = "clear" => discarded
  /\ discarded => cfg.advance
  /\ pc \in Early => buf = NoRows /\ seen = None /\ best = None
  /\ pc \in Planned /\ last # None => destExists
  /\ resume # None => Chunked /\ (resume.upper = None => last # None)
  /\ pc \in {"probe", "bounds", "clear", "prepare"} /\ resume # None =>
       destExists /\ resume = marker
  /\ pc \in Bounded => upper = IF Pinned THEN resume.upper ELSE snapMax
  /\ pc \in Bounded /\ cfg.from = "stream" => snapMax = None
  /\ pc \in Bounded /\ cfg.from # "stream" /\ SourceNeverEmpty => upper # None

\* What the statements leave out came too late for this run to owe it.
Spanned ==
  pc \in Split =>
    /\ cfg.mode # "windows" => span = Keys /\ spans_statements = Chunked
    /\ NoNewKeys => Selected \subseteq span
    /\ \A k \in Owed \ span : /\ src[k].at > first
                              /\ upper # None => src[k].wm + Lookback > upper

\* How far a read has got.
ReadPlan ==
  /\ todo \subseteq Selected
  /\ pc \in Reading /\ ~spans_statements => todo = Selected \cap span \/ todo = {}
  /\ seen # None /\ upper # None => seen <= upper
  /\ pc \in Reading =>
       /\ destExists
       /\ first <= started
       /\ upper # None => upper <= started
       /\ last # None => last <= started
       /\ best # None => best <= started + Lookback
  /\ pc \in {"land", "mark"} =>
       /\ Chunked
       /\ pos # None => \A k \in todo : k > pos
       /\ pos # None /\ cfg.from = "stream" /\ ~NullLands => seen # None
  /\ pc = "land" /\ pos = None => todo = {}
  /\ pc = "mark" => pos # None
  /\ pc \in {"mark", "finish"} => buf = NoRows
  /\ pc = "finish" => /\ todo = {}
                      /\ seen # None => seen <= started + stage_secs

\* A row changed too late for this read to have to deliver it: the next one
\* starts below it.
Settled(k) ==
  IF upper # None THEN src[k].wm + Lookback > upper
  ELSE IF ~spans_statements
  THEN todo = {} /\ (seen # None => src[k].wm + Lookback > seen)
  ELSE src[k].wm > started

InHand(k)   == Current(k) \/ buf[k] = src[k].at
StillDue(k) == k \in todo /\ InFilter(src[k])

\* What the cursor a read will save leaves out is delivered or still due.
ReadCovers ==
  pc \in Reading /\ ~KeepCommitted /\ (upper # None \/ Tracked) =>
    \A k \in Owed : InHand(k) \/ Settled(k) \/ StillDue(k)

\* So is every change from before the run.
ReadDelivers ==
  /\ pc \in {"bounds", "clear", "prepare"} /\ resume = None =>
       \A k \in Owed : src[k].at <= first /\ upper # None => src[k].wm <= upper
  /\ pc \in Reading /\ resume = None =>
       \A k \in Owed : src[k].at <= first => InHand(k) \/ StillDue(k)

\* The inductive invariant.
IInv ==
  /\ TypeOK /\ Clock /\ Versions
  /\ StateRow /\ RunPlan /\ Spanned /\ ReadPlan
  /\ NoLostUpdate /\ MarkerVouches
  /\ ReadCovers /\ ReadDelivers
-----------------------------------------------------------------------------
(* Why cursors do not fall behind, where rows are not deleted.             *)

\* Some row selected is stamped c or later.
Attained(c) == c # None => \E k \in Selected : src[k].wm # None /\ src[k].wm >= c

\* So for every cursor and bound that is saved or held.
CursorsAttained ==
  cfg.from # "table_max" =>
    /\ Attained(committed) /\ Attained(last) /\ Attained(upper)
    /\ Attained(seen) /\ Attained(best)
    /\ marker # None => Attained(marker.upper)
    /\ resume # None => Attained(resume.upper)

\* A cursor taken from rows read above another is past it, or in its lookback.
InReach(c, floor) ==
  c # None /\ floor # None =>
    c >= floor \/ (cfg.from = "stream" /\ c + Lookback > floor)

\* A marker's bound is not behind the cursor beside it, nor is what a chunk may
\* yet record.
MarkersInReach ==
  /\ marker # None => InReach(marker.upper, committed)
  /\ resume # None => InReach(resume.upper, last)
  /\ InReach(best, last)
  /\ seen # None /\ last # None => seen + Lookback > last
  /\ pc \in Bounded /\ cfg.from = "max" /\ resume = None => InReach(snapMax, last)

\* A read of everything that takes its cursor from the rows has read one as new
\* as the cursor it started from, has it still to read, or reads only newer ones.
StreamReaches ==
  pc \in Reading /\ cfg.from = "stream" /\ resume = None /\ last # None =>
    \/ \E k \in todo : src[k].wm # None /\ src[k].wm >= last
    \/ seen # None /\ seen >= last
    \/ Lookback = 0 /\ seen = None

\* The invariant next to IInv.
CInv == CursorsAttained /\ MarkersInReach /\ StreamReaches
=============================================================================
