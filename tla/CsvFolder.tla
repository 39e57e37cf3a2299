------------------------------ MODULE CsvFolder ------------------------------
(***************************************************************************)
(* The CSV destination: a table is a folder of part files with a manifest. *)
(* Several runs, of one process or of several, write one table under one   *)
(* root: each writes parts into a staging folder of its own, closes them,  *)
(* and moves the folder, or its parts, into the table's place.             *)
(*                                                                         *)
(* A part is [run, n, rows]: its name and how many rows it holds.  A       *)
(* folder's manifest is [layout, parts], or None; a path that does not     *)
(* exist is Missing.  A layout is the columns and the format of a run's    *)
(* parts.                                                                  *)
(***************************************************************************)
EXTENDS Integers, Sequences, FiniteSets, FiniteSetsExt, Functions

CONSTANTS
  Runs,        \* run ids, positive naturals
  Plans,       \* what the runs may be: each a function from Runs to
               \*   [mode: "full" or "append", layout: from 1 on,
               \*    key: the state key,
               \*    inserts: a sequence of [stream, rows]]
  Settings,    \* where they run: each of Booleans, [exchanges: the
               \*   platform, two folders in one step, overlap: runs do,
               \*   exists: the table does]
  MaxRows,     \* max_rows_per_file
  RemoveTries, \* bound: times remove_dir tries again (20 in the code)
  MaxFaults    \* bound: failures and crashes

ASSUME CsvConstants ==
  /\ Runs \subseteq Nat \ {0}
  /\ \A p \in Plans : \A r \in Runs :
       /\ p[r].mode \in {"full", "append"} /\ p[r].layout \in Nat \ {0}
       /\ IsFiniteSet(DOMAIN p[r].inserts)
       /\ \A i \in DOMAIN p[r].inserts : p[r].inserts[i].rows \in Nat
  /\ \A s \in Settings : {s.exchanges, s.overlap, s.exists} \subseteq BOOLEAN
  /\ MaxRows \in Nat \ {0} /\ {RemoveTries, MaxFaults} \subseteq Nat

VARIABLES
  plan,      \* a member of Plans
  setting,   \* a member of Settings
  folder,    \* what is at each path
  state,     \* the state file: a run's cursor for each key
  lock,      \* the run that holds the root's lock, or 0
  pc,        \* where each run is
  task,      \* its inserts: their open part, and rows left to write
  idle,      \* StagedState.idle: open parts no insert writes to, per stream
  closed,    \* StagedState.parts
  next,      \* Staged.next_part
  dropped,   \* Staged.dropped
  target,    \* the manifest, or the state, a run read under the lock
  tries,     \* remove_dir's tries
  aborted,   \* the run failed: nothing waits for its inserts any more
  undone,    \* history: a run crashed, or could not undo, amid its commit
  hidden,    \* history: the last run that moved the table aside
  leaked,    \* history: runs whose removal of staging failed
  saver,     \* history: the last run that saved each key's cursor
  faults     \* within MaxFaults

files  == <<folder, state>>
writes == <<task, idle, closed, next, dropped>>
commit == <<lock, target>>
told   == <<undone, hidden, leaked, saver, faults>>
vars   == <<plan, setting, files, commit, pc, writes, tries, aborted, told>>

Keys == {plan[r].key : r \in Runs}
None    == [layout |-> 0, parts |-> {}]
Missing == [there |-> FALSE, files |-> {}, manifest |-> None]

\* The table's folder, and a run's staging folder and the one beside it.
Dest       == <<"table", 0>>
Staging(r) == <<"staging", r>>
Aside(r)   == <<"old", r>>
Paths      == {Dest} \cup ({"staging", "old"} \X Runs)

Columns(r, parts) == [layout |-> plan[r].layout, parts |-> parts]
Holding(parts, m) == [there |-> TRUE, files |-> parts, manifest |-> m]
At(p, f)          == [folder EXCEPT ![p] = f]
RowsOf(parts)     == SumFunction([p \in parts |-> p.rows])
Asked(r)          == SumFunction([i \in DOMAIN plan[r].inserts |-> plan[r].inserts[i].rows])

Over(r) == pc[r] \in {"refused", "ok", "failed", "dead"}

Goto(r, s) == pc' = [pc EXCEPT ![r] = s]
Fault == faults < MaxFaults /\ faults' = faults + 1

-----------------------------------------------------------------------------
(* The start of a run: what it may write into, and what it creates.        *)

\* read_folder: files with no manifest are someone else's.
Foreign(p) == folder[p].there /\ folder[p].manifest = None /\ folder[p].files # {}
IsTable(p) == folder[p].there /\ folder[p].manifest # None

\* layout_differences: none.
SameLayout(r, m) == m.layout = plan[r].layout

\* check_write: an append must match what the folder holds.
MayWrite(r) ==
  /\ ~Foreign(Dest)
  /\ plan[r].mode = "append" /\ IsTable(Dest) => SameLayout(r, folder[Dest].manifest)

\* Runs overlap, or each starts when the one before it is over.
CheckWrite(r) ==
  /\ pc[r] = "start"
  /\ setting.overlap \/ \A q \in Runs : q < r => Over(q)
  /\ Goto(r, IF MayWrite(r) THEN "prepare" ELSE "refused")
  /\ UNCHANGED <<plan, setting, files, commit, writes, tries, aborted, told>>

\* table_exists.
FindDest(r) ==
  /\ pc[r] = "prepare"
  /\ Goto(r, IF folder[Dest].there THEN "stage" ELSE "create")
  /\ UNCHANGED <<plan, setting, files, commit, writes, tries, aborted, told>>

\* create_table of a destination that was missing: the folder, which another
\* run may have created by now, and then its manifest.  No lock is taken.
MakeDir(r) ==
  /\ pc[r] = "create"
  /\ \/ /\ ~folder[Dest].there
        /\ folder' = At(Dest, Holding({}, None))
        /\ Goto(r, "describe")
     \/ /\ folder[Dest].there
        /\ UNCHANGED folder
        /\ Goto(r, "failed")
  /\ UNCHANGED <<plan, setting, state, commit, writes, tries, aborted, told>>

DescribeDest(r) ==
  /\ pc[r] = "describe"
  /\ folder' = [folder EXCEPT ![Dest].there = TRUE, ![Dest].manifest = Columns(r, {})]
  /\ Goto(r, "stage")
  /\ UNCHANGED <<plan, setting, state, commit, writes, tries, aborted, told>>

\* create_table stops before the manifest is there: the folder is empty, or
\* a temporary file in it makes it someone else's.
Temporary(r) == [run |-> r, n |-> -1, rows |-> 0]

DescribeFails(r) ==
  /\ pc[r] = "describe" /\ Fault
  /\ \E left \in {{}, {Temporary(r)}} : folder' = [folder EXCEPT ![Dest].files = @ \cup left]
  /\ Goto(r, "failed")
  /\ UNCHANGED <<plan, setting, state, commit, writes, tries, aborted, undone, hidden, leaked, saver>>

\* create_table of the staging folder, whose name no run has used.
CreateStaging(r) ==
  /\ pc[r] = "stage"
  /\ folder' = At(Staging(r), Holding({}, Columns(r, {})))
  /\ Goto(r, "read")
  /\ UNCHANGED <<plan, setting, state, commit, writes, tries, aborted, told>>

-----------------------------------------------------------------------------
(* Inserts: blocking tasks, which an aborted run does not stop.            *)

Inserts(r) == DOMAIN plan[r].inserts
Stream(r, i) == plan[r].inserts[i].stream
NoPart == [n |-> -1, rows |-> 0]

\* insert_stream_batches takes the stream's last free part, if it has one.
BeginInsert(r, i) ==
  /\ pc[r] = "read" /\ task[r][i].step = "queued"
  /\ LET free == idle[r][Stream(r, i)]
         part == IF free = <<>> THEN NoPart ELSE free[Len(free)]
     IN /\ task' = [task EXCEPT ![r][i] = [step |-> "writing", part |-> part,
                                           full |-> {}, left |-> plan[r].inserts[i].rows]]
        /\ idle' = [idle EXCEPT ![r][Stream(r, i)] =
                      IF free = <<>> THEN <<>> ELSE SubSeq(free, 1, Len(free) - 1)]
  /\ UNCHANGED <<plan, setting, files, commit, pc, closed, next, dropped, tries, aborted, told>>

Part(r, p) == [run |-> r, n |-> p.n, rows |-> p.rows]

\* Rows go to the file, which is gone with the folder it was in.
Rewritten(r, old, new) ==
  LET f == folder[Staging(r)]
  IN At(Staging(r), [f EXCEPT !.files =
       IF Part(r, old) \in @ THEN (@ \ {Part(r, old)}) \cup {Part(r, new)} ELSE @])

\* A part with room takes what fits.
WritePart(r, i) ==
  LET t == task[r][i]
      n == Min({MaxRows - t.part.rows, t.left})
      p == [t.part EXCEPT !.rows = @ + n]
  IN /\ t.step = "writing" /\ t.left > 0
     /\ t.part # NoPart /\ t.part.rows < MaxRows
     /\ task' = [task EXCEPT ![r][i].part = p, ![r][i].left = @ - n]
     /\ folder' = Rewritten(r, t.part, p)
     /\ UNCHANGED <<plan, setting, state, commit, pc, idle, closed, next, dropped,
                    tries, aborted, told>>

\* A variant that does not ask whether the table was dropped.
MayOpenAlways(r) == folder[Staging(r)].there

\* new_part: not in a table that was dropped.
MayOpen(r) == ~dropped[r] /\ folder[Staging(r)].there

\* new_part: the first part of an insert, or the next one after a full one.
OpenPart(r, i) ==
  LET t == task[r][i]
      p == [n |-> next[r], rows |-> 0]
  IN /\ t.step = "writing" /\ t.left > 0
     /\ t.part = NoPart \/ t.part.rows >= MaxRows
     /\ MayOpen(r)
     /\ task' = [task EXCEPT ![r][i].part = p,
                   ![r][i].full = IF t.part = NoPart THEN @ ELSE @ \cup {Part(r, t.part)}]
     /\ folder' = At(Staging(r), [folder[Staging(r)] EXCEPT !.files = @ \cup {Part(r, p)}])
     /\ next' = [next EXCEPT ![r] = @ + 1]
     /\ UNCHANGED <<plan, setting, state, commit, pc, idle, closed, dropped, tries,
                    aborted, told>>

\* An error of an insert: of a write, or of new_part.
InsertFails(r, i) ==
  /\ task[r][i].step = "writing" /\ task[r][i].left > 0
  /\ \/ Fault
     \/ ~MayOpen(r) /\ UNCHANGED faults
  /\ task' = [task EXCEPT ![r][i].step = "failed"]
  /\ UNCHANGED <<plan, setting, files, commit, pc, idle, closed, next, dropped, tries,
                 aborted, undone, hidden, leaked, saver>>

\* The task ends: its full parts are closed, its open one is free again.
\* Nothing waits for the task of an aborted run.
EndInsert(r, i) ==
  LET t == task[r][i]
  IN /\ t.step = "writing" /\ t.left = 0
     /\ task' = [task EXCEPT ![r][i].step = "done"]
     /\ IF aborted[r]
        THEN UNCHANGED <<idle, closed>>
        ELSE /\ closed' = [closed EXCEPT ![r] = @ \cup t.full]
             /\ idle' = [idle EXCEPT ![r][Stream(r, i)] =
                           IF t.part = NoPart THEN @ ELSE Append(@, t.part)]
     /\ UNCHANGED <<plan, setting, files, commit, pc, next, dropped, tries, aborted, told>>

\* The run's first error: its inserts are aborted, and staging is dropped.
Abort(r) ==
  /\ aborted' = [aborted EXCEPT ![r] = TRUE]
  /\ Goto(r, "drop")

ReadFails(r) ==
  /\ pc[r] = "read"
  /\ \/ \E i \in Inserts(r) : task[r][i].step = "failed" /\ UNCHANGED faults
     \/ Fault
  /\ Abort(r)
  /\ UNCHANGED <<plan, setting, files, commit, writes, tries, undone, hidden, leaked, saver>>

-----------------------------------------------------------------------------
(* The commit.                                                             *)

IdleParts(r) ==
  UNION {{Part(r, idle[r][s][k]) : k \in DOMAIN idle[r][s]} : s \in DOMAIN idle[r]}

\* A variant that lists the parts the inserts closed, and not the open ones.
ClosedOnly(r) == closed[r]

\* finalize: every part that was closed, and the free ones, closed now.
AllParts(r) == closed[r] \cup IdleParts(r)

\* A full refresh of no rows still writes a part with the header.
Parts(r) ==
  IF AllParts(r) = {} /\ plan[r].mode = "full"
  THEN {Part(r, [n |-> next[r], rows |-> 0])} ELSE AllParts(r)

Finalize(r) ==
  /\ pc[r] = "read"
  /\ \A i \in Inserts(r) : task[r][i].step = "done"
  /\ folder' = At(Staging(r),
                  Holding(folder[Staging(r)].files \cup Parts(r), Columns(r, Parts(r))))
  /\ closed' = [closed EXCEPT ![r] = Parts(r)]
  /\ idle' = [idle EXCEPT ![r] = [s \in DOMAIN @ |-> <<>>]]
  /\ Goto(r, "commit")
  /\ UNCHANGED <<plan, setting, state, commit, task, next, dropped, tries, aborted, told>>

\* A variant in which nothing waits for the lock.
FreeForAll(r) == TRUE

\* with_root_lock: a mutex, and a flock that ends with the process.
LockFree(r) == lock = 0

\* insert_select and atomic_swap look at the folder again under the lock:
\* it can have changed while the run read.
MayCommit(r) ==
  /\ ~Foreign(Dest)
  /\ plan[r].mode = "append" =>
       folder[Dest].there /\ (IsTable(Dest) => SameLayout(r, folder[Dest].manifest))

LockTable(r) ==
  /\ pc[r] = "commit" /\ LockFree(r)
  /\ lock' = r
  /\ target' = [target EXCEPT ![r] =
                  IF IsTable(Dest) THEN folder[Dest].manifest ELSE Columns(r, {})]
  /\ MayCommit(r)
  /\ Goto(r, IF plan[r].mode = "full" THEN "swap" ELSE "move")
  /\ UNCHANGED <<plan, setting, files, writes, tries, aborted, told>>

RefuseCommit(r) ==
  /\ pc[r] = "commit" /\ LockFree(r)
  /\ ~MayCommit(r)
  /\ Abort(r)
  /\ UNCHANGED <<plan, setting, files, commit, writes, tries, told>>

Unlock == lock' = 0
Swapped(p, q) == [folder EXCEPT ![p] = folder[q], ![q] = folder[p]]

\* swap_dirs: a plain rename into a place that is empty, or an exchange.
Swap(r) ==
  /\ pc[r] = "swap"
  /\ setting.exchanges \/ ~folder[Dest].there
  /\ folder' = Swapped(Dest, Staging(r))
  /\ Unlock
  /\ Goto(r, "drop")
  /\ UNCHANGED <<plan, setting, state, target, writes, tries, aborted, told>>

\* swap_dirs_by_renames: the table aside, staging into its place, the old
\* one to where staging was.
MoveAside(r) ==
  /\ pc[r] = "swap" /\ ~setting.exchanges /\ folder[Dest].there
  /\ folder' = Swapped(Dest, Aside(r))
  /\ hidden' = r
  /\ Goto(r, "swap in")
  /\ UNCHANGED <<plan, setting, state, commit, writes, tries, aborted, undone, leaked,
                 saver, faults>>

\* A folder can be renamed to a path that is free, or an empty folder.
Free(p) == folder[p].files = {} /\ folder[p].manifest = None

MoveIn(r) ==
  /\ pc[r] = "swap in" /\ Free(Dest)
  /\ folder' = [folder EXCEPT ![Dest] = folder[Staging(r)], ![Staging(r)] = Missing]
  /\ Goto(r, "swap out")
  /\ UNCHANGED <<plan, setting, state, commit, writes, tries, aborted, told>>

\* The second rename fails, and is undone; the undo may fail as well.
MoveInFails(r) ==
  /\ pc[r] = "swap in"
  /\ Fault \/ (~Free(Dest) /\ UNCHANGED faults)
  /\ \/ /\ Free(Dest)
        /\ folder' = [folder EXCEPT ![Dest] = folder[Aside(r)], ![Aside(r)] = Missing]
        /\ UNCHANGED undone
     \/ undone' = TRUE /\ UNCHANGED folder
  /\ Unlock
  /\ Abort(r)
  /\ UNCHANGED <<plan, setting, state, target, writes, tries, hidden, leaked, saver>>

\* The old folder goes where staging was, or is removed where it is; that
\* is best effort.
MoveOut(r) ==
  /\ pc[r] = "swap out"
  /\ \/ folder' = Swapped(Aside(r), Staging(r)) /\ UNCHANGED faults
     \/ Fault /\ folder' \in {At(Aside(r), Missing), folder}
  /\ Unlock
  /\ Goto(r, "drop")
  /\ UNCHANGED <<plan, setting, state, target, writes, tries, aborted, undone, hidden, leaked, saver>>

\* insert_select moves one part after the other ...
Unmoved(r) == closed[r] \ folder[Dest].files

MovePart(r) ==
  /\ pc[r] = "move"
  /\ \E p \in Unmoved(r) :
       /\ \A q \in Unmoved(r) : p.n <= q.n
       /\ folder' = [folder EXCEPT ![Staging(r)].files = @ \ {p}, ![Dest].files = @ \cup {p}]
  /\ UNCHANGED <<plan, setting, state, commit, pc, writes, tries, aborted, told>>

\* ... and then lists them with those it found.
Listed(r) == [target[r] EXCEPT !.parts = @ \cup closed[r]]

ListParts(r) ==
  /\ pc[r] = "move" /\ Unmoved(r) = {}
  /\ folder' = [folder EXCEPT ![Dest].manifest = Listed(r)]
  /\ Unlock
  /\ Goto(r, "drop")
  /\ UNCHANGED <<plan, setting, state, target, writes, tries, aborted, told>>

\* Parts that were moved go back when a later one, or the manifest, fails;
\* a part that cannot go back stays, and nothing says so.
Undo(r) == closed[r] \cap folder[Dest].files

MoveFails(r) ==
  /\ pc[r] = "move" /\ Fault
  /\ \/ /\ folder' = [folder EXCEPT ![Staging(r)].files = @ \cup Undo(r),
                                    ![Dest].files = @ \ Undo(r)]
        /\ UNCHANGED undone
     \/ /\ Undo(r) # {}
        /\ undone' = TRUE /\ UNCHANGED folder
  /\ Unlock
  /\ Abort(r)
  /\ UNCHANGED <<plan, setting, state, target, writes, tries, hidden, leaked, saver>>

-----------------------------------------------------------------------------
(* drop_table, and remove_dir: the folder's entries, then the folder.      *)

Drop(r) ==
  /\ pc[r] = "drop"
  /\ dropped' = [dropped EXCEPT ![r] = TRUE]
  /\ idle' = [idle EXCEPT ![r] = [s \in DOMAIN @ |-> <<>>]]
  /\ Goto(r, "unlink")
  /\ UNCHANGED <<plan, setting, files, commit, task, closed, next, tries, aborted, told>>

Unlink(r) ==
  /\ pc[r] = "unlink"
  /\ folder' = IF folder[Staging(r)].there
               THEN At(Staging(r), Holding({}, None)) ELSE folder
  /\ Goto(r, "rmdir")
  /\ UNCHANGED <<plan, setting, state, commit, writes, tries, aborted, told>>

AfterDrop(r) == IF aborted[r] THEN "failed"
                ELSE IF plan[r].mode = "append" THEN "save" ELSE "ok"

RemoveDir(r) ==
  /\ pc[r] = "rmdir"
  /\ \/ /\ folder[Staging(r)].files = {}
        /\ folder' = At(Staging(r), Missing)
        /\ Goto(r, AfterDrop(r))
        /\ UNCHANGED <<tries, leaked>>
     \/ /\ folder[Staging(r)].files # {}
        /\ UNCHANGED folder
        /\ IF tries[r] < RemoveTries
           THEN /\ tries' = [tries EXCEPT ![r] = @ + 1]
                /\ Goto(r, "unlink")
                /\ UNCHANGED leaked
           ELSE /\ Goto(r, "failed")
                /\ UNCHANGED <<tries, leaked>>
  /\ UNCHANGED <<plan, setting, state, commit, writes, aborted, undone, hidden, saver, faults>>

RemoveFails(r) ==
  /\ pc[r] = "unlink" /\ Fault
  /\ leaked' = leaked \cup {r}
  /\ Goto(r, "failed")
  /\ UNCHANGED <<plan, setting, files, commit, writes, tries, aborted, undone, hidden, saver>>

-----------------------------------------------------------------------------
(* persist_watermark: the whole state file is read and written back.       *)

LockState(r) ==
  /\ pc[r] = "save" /\ LockFree(r)
  /\ lock' = r
  /\ target' = [target EXCEPT ![r] = state]
  /\ Goto(r, "write state")
  /\ UNCHANGED <<plan, setting, files, writes, tries, aborted, told>>

WriteState(r) ==
  /\ pc[r] = "write state"
  /\ state' = [target[r] EXCEPT ![plan[r].key] = r]
  /\ saver' = [saver EXCEPT ![plan[r].key] = r]
  /\ Unlock
  /\ Goto(r, "ok")
  /\ UNCHANGED <<plan, setting, folder, target, writes, tries, aborted, undone, hidden, leaked, faults>>

-----------------------------------------------------------------------------
\* The process of a run dies: its lock is free, its tasks are gone.
Crash(r) ==
  /\ ~Over(r) /\ pc[r] # "start" /\ Fault
  /\ Goto(r, "dead")
  /\ task' = [task EXCEPT ![r] = [i \in DOMAIN @ |-> [@[i] EXCEPT !.step = "done"]]]
  /\ lock' = IF lock = r THEN 0 ELSE lock
  /\ undone' = (undone \/ pc[r] \in {"move", "swap in"})
  /\ UNCHANGED <<plan, setting, files, target, idle, closed, next, dropped, tries, aborted,
                 hidden, leaked, saver>>

OldParts == {[run |-> 0, n |-> 0, rows |-> 1]}

Init ==
  /\ plan \in Plans
  /\ setting \in Settings
  /\ folder = [p \in Paths |->
       IF p = Dest /\ setting.exists THEN Holding(OldParts, [layout |-> 1, parts |-> OldParts])
       ELSE Missing]
  /\ state = [k \in Keys |-> 0]
  /\ lock = 0
  /\ pc = [r \in Runs |-> "start"]
  /\ task = [r \in Runs |-> [i \in Inserts(r) |->
               [step |-> "queued", part |-> NoPart, full |-> {}, left |-> 0]]]
  /\ idle = [r \in Runs |-> [s \in {Stream(r, i) : i \in Inserts(r)} |-> <<>>]]
  /\ closed = [r \in Runs |-> {}]
  /\ next = [r \in Runs |-> 0]
  /\ dropped = [r \in Runs |-> FALSE]
  /\ target = [r \in Runs |-> None]
  /\ tries = [r \in Runs |-> 0]
  /\ aborted = [r \in Runs |-> FALSE]
  /\ undone = FALSE
  /\ hidden = 0
  /\ leaked = {}
  /\ saver = [k \in Keys |-> 0]
  /\ faults = 0

Create(r) == CheckWrite(r) \/ FindDest(r) \/ MakeDir(r) \/ DescribeDest(r)
             \/ DescribeFails(r) \/ CreateStaging(r)
Write(r) ==
  \E i \in Inserts(r) :
    BeginInsert(r, i) \/ WritePart(r, i) \/ OpenPart(r, i) \/ InsertFails(r, i) \/ EndInsert(r, i)
Replace(r) == Swap(r) \/ MoveAside(r) \/ MoveIn(r) \/ MoveInFails(r) \/ MoveOut(r)
Move(r) == MovePart(r) \/ ListParts(r) \/ MoveFails(r)
Clean(r) == Drop(r) \/ Unlink(r) \/ RemoveDir(r) \/ RemoveFails(r)
Save(r) == LockState(r) \/ WriteState(r)

Ended == \A r \in Runs : Over(r)

Next ==
  \/ \E r \in Runs :
       \/ Create(r) \/ Write(r) \/ ReadFails(r) \/ Finalize(r) \/ LockTable(r)
       \/ RefuseCommit(r)
       \/ Replace(r) \/ Move(r) \/ Clean(r) \/ Save(r) \/ Crash(r)
  \/ Ended /\ UNCHANGED vars

Spec == Init /\ [][Next]_vars

-----------------------------------------------------------------------------
TypeOK ==
  /\ plan \in Plans /\ setting \in Settings
  /\ \A p \in Paths : folder[p].there \in BOOLEAN /\ IsFiniteSet(folder[p].files)
  /\ lock \in Runs \cup {0}
  /\ state \in [Keys -> Runs \cup {0}]
  /\ \A r \in Runs : next[r] \in Nat /\ tries[r] \in 0..RemoveTries
  /\ faults \in 0..MaxFaults

\* What a reader finds in the table, or what is to be put back in its place:
\* the runs whose parts are listed, if each is there with every row.
Torn == {-1}
Size(r) == IF r = 0 THEN 1 ELSE Asked(r)
Contents(f) ==
  LET parts == f.manifest.parts
      runs  == {p.run : p \in parts}
  IN IF /\ parts \subseteq f.files
        /\ \A r \in runs : RowsOf({p \in parts : p.run = r}) = Size(r)
        /\ \A r \in runs \ {0} : f.manifest.layout = plan[r].layout
     THEN runs ELSE Torn

Published == Contents(folder[IF folder[Dest].there \/ hidden = 0 THEN Dest ELSE Aside(hidden)])
Shown     == folder[Dest].there

Table == INSTANCE TableContract WITH Writers <- Runs, table <- Published, shown <- Shown

\* A reader of the manifest sees whole runs, all of one layout: a refresh
\* takes the place of what was there, an append adds to it whatever other
\* runs do meanwhile, and while the path is missing the old table is kept.
CommitsWhole == Table!Spec

\* No save of a cursor loses the cursor of another key.
CursorsKept == state = saver

\* The folder holds no part its manifest does not list, but while an append
\* moves its own, and after a crash or a failed undo.  A run that is over
\* leaves no staging folder, though the inserts of a failed one still write,
\* unless its removal failed.
FolderTidy ==
  /\ \/ undone
     \/ \E r \in Runs : pc[r] = "move" /\ lock = r
     \/ Foreign(Dest)
     \/ folder[Dest].files \subseteq folder[Dest].manifest.parts
  /\ \A r \in Runs : pc[r] \in {"ok", "failed"} /\ r \notin leaked => ~folder[Staging(r)].there
=============================================================================
