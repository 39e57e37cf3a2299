--------------------------- MODULE MCRunTransfer ---------------------------
(***************************************************************************)
(* RunTransfer with one or more transfers of each kind.                    *)
(***************************************************************************)
EXTENDS RunTransferInv

Plain(promote) ==
  [flow |-> "database", promote |-> promote, append |-> promote = "append",
   chunked |-> FALSE, gate |-> FALSE, delete_stale |-> FALSE, counts |-> FALSE,
   allow_shrink |-> FALSE, fail |-> {}, exists |-> TRUE, old |-> {1}]

New(c)     == [c EXCEPT !.exists = FALSE, !.old = {}]
Chunked(c) == [c EXCEPT !.chunked = TRUE]

\* Two batches: four old keys shrink under a full refresh, of which 0 is stale
\* and 3 is outside of the window.
Larger(c) == [c EXCEPT !.old = {0, 1, 2, 3}]

FullRefreshes ==
  {New([Plain("swap") EXCEPT !.gate = TRUE, !.fail = {"read"}]),
   [Plain("swap") EXCEPT !.counts = TRUE],
   Larger(Plain("swap")),
   Larger([Plain("swap") EXCEPT !.allow_shrink = TRUE]),
   Larger([Plain("swap") EXCEPT !.allow_shrink = TRUE, !.fail = {"shrink", "setup"}])}

Merges ==
  {New([Plain("merge") EXCEPT !.counts = TRUE, !.fail = {"read"}]),
   Larger([Plain("merge") EXCEPT !.gate = TRUE, !.delete_stale = TRUE, !.counts = TRUE]),
   Chunked(Larger([Plain("merge") EXCEPT !.counts = TRUE, !.fail = {"read"}]))}

Inserts ==
  {New([Plain("insert") EXCEPT !.gate = TRUE]),
   Larger([Plain("insert") EXCEPT !.delete_stale = TRUE, !.fail = {"read"}]),
   Chunked([Plain("insert") EXCEPT !.fail = {"read"}])}

Appends ==
  {New([Plain("append") EXCEPT !.fail = {"read"}]), Larger(Plain("append"))}

Directs ==
  {New(Plain("direct")), [Plain("direct") EXCEPT !.fail = {"partial", "read"}],
   Chunked(New([Plain("direct") EXCEPT !.fail = {"partial"}])),
   Chunked([Plain("direct") EXCEPT !.fail = {"setup", "read"}])}

\* The other flows: a BigQuery source, an API, whose append checks after its
\* cursor, and a frame, which keeps none.  The last two append straight into
\* BigQuery, whose streams may miscount.
Sessions ==
  {[Plain("direct") EXCEPT !.flow = "session", !.fail = {"read"}],
   New([Plain("append") EXCEPT !.flow = "session", !.fail = {"read"}]),
   Larger([Plain("insert") EXCEPT !.flow = "session", !.delete_stale = TRUE])}

Apis ==
  {[Plain("direct") EXCEPT !.flow = "api", !.append = TRUE, !.fail = {"read"}],
   [Plain("direct") EXCEPT !.flow = "api", !.append = TRUE, !.counts = TRUE,
                            !.fail = {"count"}],
   [Plain("append") EXCEPT !.flow = "api", !.fail = {"read"}],
   Larger([Plain("merge") EXCEPT !.flow = "api", !.counts = TRUE])}

Frames ==
  {New([Plain("swap") EXCEPT !.flow = "frame", !.counts = TRUE]),
   [Plain("direct") EXCEPT !.flow = "frame", !.append = TRUE, !.counts = TRUE,
                            !.fail = {"read"}],
   [Plain("merge") EXCEPT !.flow = "frame", !.gate = TRUE, !.fail = {"read"}]}

Transfers ==
  FullRefreshes \cup Merges \cup Inserts \cup Appends \cup Directs \cup Sessions \cup Apis
    \cup Frames
=============================================================================
