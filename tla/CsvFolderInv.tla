---------------------------- MODULE CsvFolderInv ----------------------------
(***************************************************************************)
(* Why the promises of CsvFolder hold: the inductive invariant its theorems*)
(* are proved from.                                                        *)
(***************************************************************************)
EXTENDS CsvFolder

\* Runs that overlap find the table there, and a platform that exchanges two
\* folders in one step.  Others meet at create_table, which takes no lock.
Placed == \A s \in Settings : s.overlap => s.exchanges /\ s.exists

OnDisk   == [run : Runs \cup {0}, n : Int, rows : Nat]
Manifest == [layout : Nat, parts : SUBSET OnDisk]
Folder   == [there : BOOLEAN, files : SUBSET OnDisk, manifest : Manifest]
Open     == [n : Int, rows : Nat]
Task     == [step : {"queued", "writing", "failed", "done"}, part : Open,
             full : SUBSET OnDisk, left : Nat]

Early  == {"start", "refused", "prepare", "create", "describe", "stage"}
Locked == {"swap", "swap in", "swap out", "move", "write state"}
\* Before any of a run's rows are in the table.
Before == Early \cup {"read", "commit", "swap", "swap in", "move"}
Steps  == Before \cup Locked
          \cup {"drop", "unlink", "rmdir", "save", "ok", "failed", "dead"}

Staged(r) == folder[Staging(r)]
Table0    == folder[Dest]

TypedPlaces ==
  /\ plan \in Plans /\ setting \in Settings
  /\ folder \in [Paths -> Folder] /\ \A p \in Paths : IsFiniteSet(folder[p].files)
  /\ \A p \in Paths : ~folder[p].there => folder[p] = Missing

TypedSteps ==
  /\ lock \in Runs \cup {0} /\ pc \in [Runs -> Steps]
  /\ state \in [Keys -> Runs \cup {0}]
  /\ tries \in [Runs -> 0..RemoveTries] /\ aborted \in [Runs -> BOOLEAN]
  /\ undone \in BOOLEAN /\ hidden \in Runs \cup {0} /\ leaked \subseteq Runs
  /\ faults \in 0..MaxFaults
  /\ DOMAIN target = Runs

TypedWriters ==
  /\ DOMAIN task = Runs /\ DOMAIN idle = Runs
  /\ \A r \in Runs :
       /\ DOMAIN task[r] = Inserts(r) /\ \A i \in Inserts(r) : task[r][i] \in Task
       /\ DOMAIN idle[r] = {Stream(r, i) : i \in Inserts(r)}
       /\ \A s \in DOMAIN idle[r] : idle[r][s] \in Seq(Open)
  /\ closed \in [Runs -> SUBSET OnDisk]
  /\ next \in [Runs -> Nat] /\ dropped \in [Runs -> BOOLEAN]

Typed == TypedPlaces /\ TypedSteps /\ TypedWriters

\* The lock is held by the run that is in it, and the state file it read is
\* the one it writes back.
LockInv ==
  /\ \A r \in Runs : lock = r <=> pc[r] \in Locked
  /\ \A r \in Runs : pc[r] = "write state" => target[r] = state
  /\ state = saver

\* Runs that do not overlap take turns; those that do find a table.
TurnInv ==
  /\ ~setting.overlap =>
       \A q, r \in Runs : q < r /\ pc[r] # "start" => Over(q)
  /\ setting.overlap => IsTable(Dest)
  /\ \A r \in Runs : pc[r] \in {"create", "describe"} => ~setting.overlap
  /\ \A r \in Runs : pc[r] \in {"swap in", "swap out"} => ~setting.exchanges

\* What a run that has written nothing has.
Fresh(r) ==
  pc[r] \in Early =>
    /\ Staged(r) = Missing
    /\ \A i \in Inserts(r) : task[r][i].step = "queued"
    /\ \A s \in DOMAIN idle[r] : idle[r][s] = <<>>
    /\ closed[r] = {} /\ next[r] = 0 /\ ~dropped[r] /\ ~aborted[r]

\* The parts an insert has: full ones, and the one it writes.
Writing(r, i) == task[r][i].step \in {"writing", "failed"}
Writes1(r, i) == Writing(r, i) /\ task[r][i].part # NoPart
OpenPart1(r, i) == Part(r, task[r][i].part)
FullParts(r) == UNION {task[r][i].full : i \in {j \in Inserts(r) : Writing(r, j)}}
OpenParts(r) == {OpenPart1(r, i) : i \in {j \in Inserts(r) : Writes1(r, j)}}
Remaining(r, i) ==
  CASE task[r][i].step = "queued" -> plan[r].inserts[i].rows
    [] task[r][i].step = "done"   -> 0
    [] OTHER                      -> task[r][i].left

\* What a run that reads has written: each part is in one hand, and its rows
\* and those to come are what was asked for.
Balanced(r) ==
  /\ Staged(r).there /\ ~dropped[r] /\ ~aborted[r]
  /\ Staged(r).files = closed[r] \cup IdleParts(r) \cup FullParts(r) \cup OpenParts(r)
  /\ \A p \in Staged(r).files : p.run = r /\ p.n \in 0..(next[r] - 1)
  /\ \A p, q \in Staged(r).files : p.n = q.n => p = q
  /\ \A i, j \in Inserts(r) :
       Writes1(r, i) /\ Writes1(r, j) /\ OpenPart1(r, i) = OpenPart1(r, j) => i = j
  /\ \A s, t \in DOMAIN idle[r] : \A k \in DOMAIN idle[r][s], l \in DOMAIN idle[r][t] :
       idle[r][s][k] = idle[r][t][l] => s = t /\ k = l
  /\ OpenParts(r) \cap (closed[r] \cup IdleParts(r) \cup FullParts(r)) = {}
  /\ IdleParts(r) \cap (closed[r] \cup FullParts(r)) = {}
  /\ RowsOf(Staged(r).files) + SumFunction([i \in Inserts(r) |-> Remaining(r, i)]) = Asked(r)
Books(r) == pc[r] = "read" => Balanced(r)

\* What a run that is to commit has: all of its rows, closed and listed.
Ready(r) ==
  pc[r] \in {"commit", "swap", "swap in", "move"} =>
    /\ \A i \in Inserts(r) : task[r][i].step = "done"
    /\ ~aborted[r]
    /\ IsFiniteSet(closed[r]) /\ \A p \in closed[r] : p.run = r
    /\ RowsOf(closed[r]) = Asked(r)
    /\ plan[r].mode = "full" => closed[r] # {}
    /\ pc[r] # "move" => Staged(r) = Holding(closed[r], Columns(r, closed[r]))

\* What a run that commits finds at the table's path.
Committing(r) ==
  /\ pc[r] = "describe" => Table0 = Holding({}, None)
  /\ pc[r] = "swap" => ~Foreign(Dest) /\ plan[r].mode = "full"
  /\ pc[r] = "swap in" =>
       /\ ~Table0.there /\ hidden = r /\ folder[Aside(r)].there /\ plan[r].mode = "full"
       /\ undone \/ folder[Aside(r)].files \subseteq folder[Aside(r)].manifest.parts
  /\ pc[r] = "swap out" => Table0.there /\ Staged(r) = Missing /\ ~aborted[r]
  /\ pc[r] = "move" =>
       /\ Table0.there /\ Staged(r).there /\ target[r].layout = plan[r].layout
       /\ target[r] = IF IsTable(Dest) THEN Table0.manifest ELSE Columns(r, {})
       /\ undone \/ Table0.files \subseteq target[r].parts \cup closed[r]
  /\ pc[r] \in Before \ {"swap in"} => folder[Aside(r)] = Missing

\* What a run that cleans up has left.
Cleaned(r) ==
  /\ pc[r] \in {"swap out", "drop", "unlink", "rmdir", "save", "write state", "ok"} /\ ~aborted[r] =>
       \A i \in Inserts(r) : task[r][i].step = "done"
  /\ pc[r] = "dead" => \A i \in Inserts(r) : task[r][i].step = "done"
  /\ pc[r] \in {"unlink", "rmdir"} => dropped[r]
  /\ pc[r] = "rmdir" => Staged(r).files = {}
  /\ pc[r] \in {"save", "write state", "ok"} => ~Staged(r).there /\ ~aborted[r]
  /\ pc[r] = "failed" /\ r \notin leaked => ~Staged(r).there

RunInv(r) == Fresh(r) /\ Books(r) /\ Ready(r) /\ Committing(r) /\ Cleaned(r)

\* A folder with all its manifest lists, and every row of the runs listed.
RowsAsked(plans, r) ==
  IF r = 0 THEN 1
  ELSE SumFunction([i \in DOMAIN plans[r].inserts |-> plans[r].inserts[i].rows])
PartsOf(parts, r) == {p \in parts : p.run = r}
WholeFor(plans, f) ==
  /\ f.manifest.parts \subseteq f.files
  /\ \A r \in {p.run : p \in f.manifest.parts} :
       /\ RowsOf(PartsOf(f.manifest.parts, r)) = RowsAsked(plans, r)
       /\ r # 0 => f.manifest.layout = plans[r].layout

\* The table, and what was moved aside, hold whole runs that have committed.
Committed(f) == \A p \in f.manifest.parts : p.run # 0 => pc[p.run] \notin Before
Whole(f) == WholeFor(plan, f) /\ Committed(f)
TableTidy ==
  \/ undone
  \/ \E r \in Runs : pc[r] = "move" /\ lock = r
  \/ Foreign(Dest)
  \/ Table0.files \subseteq Table0.manifest.parts
TableInv == Whole(Table0) /\ (\A r \in Runs : Whole(folder[Aside(r)])) /\ TableTidy

FInv == Typed /\ LockInv /\ TurnInv /\ TableInv /\ \A r \in Runs : RunInv(r)
=============================================================================
