-------------------------- MODULE CsvFolder_proofs --------------------------
(***************************************************************************)
(* Theorems about CsvFolder: its invariant FInv is inductive where runs    *)
(* are Placed, and its promises follow from it.  First what the proofs     *)
(* share (paths, rows of parts, steps that only concern the run that takes *)
(* them), then an invariance lemma for each action, in the order of        *)
(* CsvFolder, and at the end the theorems, the refinement of TableContract *)
(* last.                                                                   *)
(***************************************************************************)
EXTENDS CsvFolderInv, SumTheorems, FiniteSetTheorems, TLAPS

-----------------------------------------------------------------------------
(* The paths, and whole folders.                                           *)

\* The table's path, and those of the runs, are all different.
LEMMA PathFacts ==
  ASSUME NEW r \in Runs, NEW q \in Runs
  PROVE  /\ Dest \in Paths /\ Staging(r) \in Paths /\ Aside(r) \in Paths
         /\ Dest # Staging(r) /\ Dest # Aside(r) /\ Staging(r) # Aside(q)
         /\ r # q => Staging(r) # Staging(q) /\ Aside(r) # Aside(q)
         /\ r \in Nat \ {0}
BY CsvConstants DEF Dest, Staging, Aside, Paths

\* What a plan and a setting are.
LEMMA PlanFacts ==
  ASSUME TypedPlaces, NEW r \in Runs
  PROVE  /\ plan[r].mode \in {"full", "append"} /\ plan[r].layout \in Nat \ {0}
         /\ IsFiniteSet(Inserts(r))
         /\ \A i \in Inserts(r) : plan[r].inserts[i].rows \in Nat
         /\ setting.exchanges \in BOOLEAN /\ setting.overlap \in BOOLEAN
         /\ setting.exists \in BOOLEAN
BY CsvConstants DEF TypedPlaces, Inserts

\* The contents of a folder are the runs it lists, if it is whole.
LEMMA ContentsWhole ==
  ASSUME NEW f
  PROVE  Contents(f) = IF WholeFor(plan, f) THEN {p.run : p \in f.manifest.parts} ELSE Torn
<1>1. \A r : Size(r) = RowsAsked(plan, r)
  BY DEF Size, RowsAsked, Asked
<1> DEFINE parts == f.manifest.parts
           runs  == {p.run : p \in parts}
<1>2. (\A r \in runs \ {0} : f.manifest.layout = plan[r].layout)
      <=> (\A r \in runs : r # 0 => f.manifest.layout = plan[r].layout)
  OBVIOUS
<1>3. (\A r \in runs : RowsOf({p \in parts : p.run = r}) = Size(r))
      <=> (\A r \in runs : RowsOf(PartsOf(parts, r)) = RowsAsked(plan, r))
  BY <1>1 DEF PartsOf
<1> QED BY <1>2, <1>3 DEF Contents, WholeFor

\* A folder that lists nothing is whole, and holds no run.
LEMMA NothingListed ==
  ASSUME NEW f, NEW plans, f.manifest.parts = {}
  PROVE  WholeFor(plans, f)
BY DEF WholeFor

\* More files, or fewer that are not listed, leave a folder whole.
LEMMA UnlistedFiles ==
  ASSUME NEW f, NEW g, NEW plans, WholeFor(plans, f), g.manifest = f.manifest,
         g.manifest.parts \subseteq g.files
  PROVE  WholeFor(plans, g)
BY DEF WholeFor

-----------------------------------------------------------------------------
(* Steps of a run that leave the table and the lock alone.                 *)

\* What a run has, and its folders.
Mine(q) ==
  <<pc[q], task[q], idle[q], closed[q], next[q], dropped[q], aborted[q], target[q],
    q \in leaked, folder[Staging(q)], folder[Aside(q)]>>
OthersKept(r) == plan' = plan /\ setting' = setting /\ \A q \in Runs \ {r} : UNCHANGED Mine(q)

\* Where a run looks at the table's folder.
Sensitive == {"describe", "swap", "swap in", "swap out", "move"}

\* A run keeps its invariant while others move, if what they change is not
\* what it is looking at.
LEMMA Frame ==
  ASSUME NEW q \in Runs, RunInv(q), plan' = plan, UNCHANGED Mine(q), undone => undone',
         (folder'[Dest] = folder[Dest] /\ hidden' = hidden) \/ pc[q] \notin Sensitive
  PROVE  RunInv(q)'
<1>0. /\ pc'[q] = pc[q] /\ task'[q] = task[q] /\ idle'[q] = idle[q] /\ closed'[q] = closed[q]
      /\ next'[q] = next[q] /\ dropped'[q] = dropped[q] /\ aborted'[q] = aborted[q]
      /\ target'[q] = target[q] /\ (q \in leaked' <=> q \in leaked)
      /\ folder'[Staging(q)] = folder[Staging(q)] /\ folder'[Aside(q)] = folder[Aside(q)]
  BY DEF Mine
<1>1. Staged(q)' = Staged(q) /\ Inserts(q)' = Inserts(q)
  BY <1>0 DEF Staged, Inserts, Staging
<1>2. Fresh(q)'
  BY <1>0, <1>1 DEF RunInv, Fresh
<1>3. Books(q)'
  <2>1. IdleParts(q)' = IdleParts(q)
    BY <1>0 DEF IdleParts, Part
  <2>2. \A i \in Inserts(q) : (Writing(q, i)' <=> Writing(q, i)) /\ (Writes1(q, i)' <=> Writes1(q, i))
                              /\ OpenPart1(q, i)' = OpenPart1(q, i)
    BY <1>0 DEF Writing, Writes1, OpenPart1, Part
  <2>3. FullParts(q)' = FullParts(q)
    BY <1>0, <1>1, <2>2 DEF FullParts
  <2>4. OpenParts(q)' = OpenParts(q)
    BY <1>0, <1>1, <2>2 DEF OpenParts
  <2>5. \A i \in Inserts(q) : Remaining(q, i)' = Remaining(q, i)
    BY <1>0 DEF Remaining
  <2>6. [i \in Inserts(q) |-> Remaining(q, i)]' = [i \in Inserts(q) |-> Remaining(q, i)]
    BY <1>1, <2>5
  <2>7. Asked(q)' = Asked(q)
    BY DEF Asked
  <2>8. SumFunction([i \in Inserts(q) |-> Remaining(q, i)])' = SumFunction([i \in Inserts(q) |-> Remaining(q, i)])
    BY <2>6
  <2>9. RowsOf(Staged(q).files)' = RowsOf(Staged(q).files)
    BY <1>1
  <2> QED BY <1>0, <1>1, <2>1, <2>2, <2>3, <2>4, <2>7, <2>8, <2>9 DEF RunInv, Books, Balanced
<1>4. Ready(q)'
  BY <1>0, <1>1 DEF RunInv, Ready, Asked, Columns
<1>5. Committing(q)'
  BY <1>0, <1>1 DEF RunInv, Committing, Sensitive, Table0, IsTable, Foreign, Columns, Aside
<1>6. Cleaned(q)'
  BY <1>0, <1>1 DEF RunInv, Cleaned
<1> QED BY <1>2, <1>3, <1>4, <1>5, <1>6 DEF RunInv

\* Where a run may go when it leaves the table and the lock alone.
Onward(r) ==
  /\ pc[r] \notin Locked /\ pc'[r] \notin Locked
  /\ pc[r] \notin Before => pc'[r] \notin Before
  /\ pc'[r] = pc[r] \/ (~Over(r) /\ pc'[r] # "start")
  /\ pc[r] = "start" /\ pc'[r] # "start" /\ ~setting.overlap => \A q \in Runs : q < r => Over(q)
  /\ pc'[r] \in {"create", "describe"} => ~setting.overlap
  /\ pc'[r] \notin {"swap in", "swap out"}

TableKept ==
  /\ UNCHANGED <<lock, state, saver, undone, hidden>>
  /\ folder'[Dest] = folder[Dest] /\ \A r \in Runs : folder'[Aside(r)] = folder[Aside(r)]
Own(r) == OthersKept(r) /\ TableKept /\ Onward(r)

\* Runs still take turns.
LEMMA TurnsKept ==
  ASSUME FInv, NEW r \in Runs, plan' = plan, setting' = setting, Onward(r),
         \A q \in Runs \ {r} : pc'[q] = pc[q], folder'[Dest] = folder[Dest]
  PROVE  TurnInv'
<1>1. \A q \in Runs : Over(q) => Over(q)'
  BY DEF Over, Onward
<1>2. ASSUME ~setting.overlap, NEW p \in Runs, NEW q \in Runs, p < q, pc'[q] # "start"
      PROVE  Over(p)'
  BY <1>1, <1>2 DEF FInv, TurnInv, Onward
<1>3. ASSUME setting.overlap PROVE IsTable(Dest)'
  BY <1>3 DEF FInv, TurnInv, IsTable, Dest
<1>4. \A q \in Runs : pc'[q] \in {"create", "describe"} => ~setting.overlap
  BY DEF FInv, TurnInv, Onward
<1>5. \A q \in Runs : pc'[q] \in {"swap in", "swap out"} => ~setting.exchanges
  BY DEF FInv, TurnInv, Onward
<1> QED BY <1>2, <1>3, <1>4, <1>5 DEF TurnInv

\* Whole folders stay whole when no run goes back to before its commit.
LEMMA CommittedKept ==
  ASSUME NEW f, Committed(f), \A q \in Runs : pc[q] \notin Before => pc'[q] \notin Before,
         f.manifest.parts \subseteq OnDisk
  PROVE  \A p \in f.manifest.parts : p.run # 0 => pc'[p.run] \notin Before
BY DEF Committed, OnDisk

\* What is at a path is a folder of typed parts.
LEMMA FolderParts ==
  ASSUME TypedPlaces, NEW p \in Paths
  PROVE  /\ folder[p].manifest.parts \subseteq OnDisk /\ folder[p].files \subseteq OnDisk
         /\ IsFiniteSet(folder[p].files) /\ folder[p].manifest.layout \in Nat
         /\ folder[p].there \in BOOLEAN /\ folder[p] \in Folder
BY DEF TypedPlaces, Folder, Manifest

\* The folders that hold what was committed stay whole while they stay.
LEMMA TableKeptWhole ==
  ASSUME FInv, plan' = plan, TableKept, \A q \in Runs : pc[q] \notin Before => pc'[q] \notin Before,
         \A q \in Runs : pc[q] = "move" /\ lock = q => pc'[q] = "move"
  PROVE  TableInv'
<1>1. Whole(Table0) /\ \A r \in Runs : Whole(folder[Aside(r)])
  BY DEF FInv, TableInv
<1>2. TypedPlaces /\ Dest \in Paths /\ \A r \in Runs : Aside(r) \in Paths
  BY PathFacts DEF FInv, Typed, Dest, Paths
<1>3. Whole(Table0)'
  <2>1. \A p \in Table0.manifest.parts : p.run # 0 => pc'[p.run] \notin Before
    BY <1>1, <1>2, FolderParts, CommittedKept DEF Whole, Table0
  <2> QED BY <1>1, <2>1 DEF Whole, Committed, Table0, TableKept, Dest
<1>4. ASSUME NEW r \in Runs PROVE Whole(folder[Aside(r)])'
  <2>1. \A p \in folder[Aside(r)].manifest.parts : p.run # 0 => pc'[p.run] \notin Before
    BY <1>1, <1>2, FolderParts, CommittedKept DEF Whole
  <2> QED BY <1>1, <2>1 DEF Whole, Committed, TableKept, Aside
<1>5. TableTidy
  BY DEF FInv, TableInv
<1>6. TableTidy'
  BY <1>5 DEF TableKept, TableTidy, Foreign, Table0, Dest
<1> QED BY <1>3, <1>4, <1>6 DEF TableInv

\* A step that leaves the table alone keeps the invariant, if the run that
\* takes it keeps its own.
LEMMA OwnKeeps ==
  ASSUME FInv, Typed', NEW r \in Runs, Own(r), target' = target, RunInv(r)'
  PROVE  FInv'
<1>1. /\ plan' = plan /\ setting' = setting /\ TableKept /\ Onward(r)
      /\ \A q \in Runs \ {r} : UNCHANGED Mine(q)
  BY DEF Own, OthersKept
<1>2. \A q \in Runs \ {r} : pc'[q] = pc[q]
  BY <1>1 DEF Mine
<1>3. LockInv'
  <2>1. LockInv
    BY DEF FInv
  <2>2. \A q \in Runs : pc'[q] \in Locked <=> pc[q] \in Locked
    BY <1>1, <1>2 DEF Onward
  <2>3. \A q \in Runs : pc'[q] = "write state" => pc[q] = "write state"
    BY <1>1, <1>2 DEF Onward, Locked
  <2> QED BY <1>1, <2>1, <2>2, <2>3 DEF LockInv, TableKept
<1>4. TurnInv'
  BY <1>1, <1>2, TurnsKept DEF TableKept
<1>5. TableInv'
  <2>1. \A q \in Runs : pc[q] \notin Before => pc'[q] \notin Before
    BY <1>1, <1>2 DEF Onward
  <2>2. \A q \in Runs : pc[q] = "move" /\ lock = q => pc'[q] = "move"
    BY <1>1, <1>2 DEF Onward, Locked
  <2> QED BY <1>1, <2>1, <2>2, TableKeptWhole
<1>6. ASSUME NEW q \in Runs PROVE RunInv(q)'
  <2>1. CASE q = r
    BY <2>1
  <2>2. CASE q # r
    BY <1>1, <2>2, Frame DEF FInv, TableKept
  <2> QED BY <2>1, <2>2
<1> QED BY <1>3, <1>4, <1>5, <1>6 DEF FInv

-----------------------------------------------------------------------------
(* Types, by what changes.                                                 *)

\* A step that leaves the inserts alone keeps their types,
LEMMA WritersKept ==
  ASSUME TypedWriters, UNCHANGED <<plan, task, idle, closed, next, dropped>>
  PROVE  TypedWriters'
BY DEF TypedWriters, Inserts, Stream

\* and one that leaves the folders alone keeps theirs.
LEMMA PlacesKept ==
  ASSUME TypedPlaces, UNCHANGED <<plan, setting, folder>>
  PROVE  TypedPlaces'
BY DEF TypedPlaces

\* A folder that may be at a path.
Real(f) == f \in Folder /\ IsFiniteSet(f.files) /\ (~f.there => f = Missing)

\* One folder changes.
LEMMA PlacesPut ==
  ASSUME TypedPlaces, plan' = plan, setting' = setting, NEW p \in Paths, NEW f, Real(f),
         folder' = [folder EXCEPT ![p] = f]
  PROVE  TypedPlaces' /\ folder'[p] = f /\ \A q \in Paths \ {p} : folder'[q] = folder[q]
BY DEF TypedPlaces, Real

\* What is at each path may be there.
LEMMA RealFolders ==
  ASSUME TypedPlaces
  PROVE  Real(Missing) /\ \A p \in Paths : Real(folder[p])
<1>1. Real(Missing)
  BY FS_EmptySet DEF Real, Missing, None, Folder, Manifest
<1> QED BY <1>1 DEF TypedPlaces, Real

\* The state keys are those of the plan.
LEMMA KeysKept ==
  ASSUME plan' = plan
  PROVE  Keys' = Keys
BY DEF Keys

\* A run goes to another step, and nothing else of its course changes.
LEMMA StepsGo ==
  ASSUME TypedSteps, NEW r \in Runs, NEW s \in Steps, pc' = [pc EXCEPT ![r] = s],
         UNCHANGED <<plan, lock, state, tries, undone, hidden, target>>,
         aborted' \in [Runs -> BOOLEAN], leaked' \subseteq Runs, faults' \in 0..MaxFaults
  PROVE  TypedSteps' /\ pc'[r] = s /\ \A q \in Runs \ {r} : pc'[q] = pc[q]
<1>1. pc' \in [Runs -> Steps] /\ pc'[r] = s /\ \A q \in Runs \ {r} : pc'[q] = pc[q]
  BY DEF TypedSteps
<1> QED BY <1>1, KeysKept DEF TypedSteps

\* Faults stay within their bound.
LEMMA FaultTyped ==
  ASSUME FInv, Fault
  PROVE  faults' \in 0..MaxFaults
BY CsvConstants DEF FInv, Typed, TypedSteps, Fault

\* A run that has written nothing goes on, or gives up before it begins.
LEMMA EarlyGoes ==
  ASSUME FInv, NEW r \in Runs, pc[r] \in Early,
         pc'[r] \in {"refused", "prepare", "create", "stage"}, plan' = plan,
         UNCHANGED <<task[r], idle[r], closed[r], next[r], dropped[r], aborted[r],
                     folder[Staging(r)], folder[Aside(r)]>>
  PROVE  RunInv(r)'
<1>1. Staged(r)' = Staged(r) /\ Inserts(r)' = Inserts(r)
  BY DEF Staged, Inserts, Staging
<1>2. Fresh(r)'
  BY <1>1 DEF FInv, RunInv, Fresh
<1>3. Books(r)' /\ Ready(r)'
  BY DEF Books, Ready
<1>4. Committing(r)'
  BY DEF FInv, RunInv, Committing, Before, Early, Aside
<1>5. Cleaned(r)'
  BY DEF Cleaned
<1> QED BY <1>2, <1>3, <1>4, <1>5 DEF RunInv

-----------------------------------------------------------------------------
(* The start of a run.                                                     *)

\* check_write: the run goes on, or is refused.
LEMMA CheckWriteKeeps ==
  ASSUME FInv, NEW r \in Runs, CheckWrite(r)
  PROVE  FInv'
<1>1. PICK s \in {"prepare", "refused"} : pc' = [pc EXCEPT ![r] = s]
  BY DEF CheckWrite, Goto
<1>2. /\ pc[r] = "start" /\ (setting.overlap \/ \A q \in Runs : q < r => Over(q))
      /\ UNCHANGED <<plan, setting, folder, state, lock, target, task, idle, closed, next, dropped,
                     tries, aborted, undone, hidden, leaked, saver, faults>>
  BY DEF CheckWrite, files, commit, writes, told
<1>3. s \in Steps /\ TypedSteps
  BY DEF Steps, Before, Early, FInv, Typed
<1>4. TypedSteps' /\ pc'[r] = s /\ \A q \in Runs \ {r} : pc'[q] = pc[q]
  BY <1>1, <1>2, <1>3, StepsGo DEF TypedSteps
<1>5. Typed'
  BY <1>2, <1>4, PlacesKept, WritersKept DEF FInv, Typed
<1>6. Own(r)
  <2>1. OthersKept(r) /\ TableKept
    BY <1>2, <1>4 DEF OthersKept, Mine, TableKept
  <2>2. ~Over(r)
    BY <1>2 DEF Over
  <2>3. Onward(r)
    BY <1>2, <1>4, <2>2 DEF Onward, Locked, Before, Early
  <2> QED BY <2>1, <2>3 DEF Own
<1>7. RunInv(r)'
  BY <1>2, <1>4, EarlyGoes DEF Early
<1> QED BY <1>2, <1>5, <1>6, <1>7, OwnKeeps

\* table_exists: the run creates the table, or finds it.
LEMMA FindDestKeeps ==
  ASSUME FInv, NEW r \in Runs, FindDest(r)
  PROVE  FInv'
<1>1. PICK s \in {"stage", "create"} :
        pc' = [pc EXCEPT ![r] = s] /\ (s = "create" => ~folder[Dest].there)
  BY DEF FindDest, Goto
<1>2. /\ pc[r] = "prepare"
      /\ UNCHANGED <<plan, setting, folder, state, lock, target, task, idle, closed, next, dropped,
                     tries, aborted, undone, hidden, leaked, saver, faults>>
  BY DEF FindDest, files, commit, writes, told
<1>3. s \in Steps /\ TypedSteps
  BY DEF Steps, Before, Early, FInv, Typed
<1>4. TypedSteps' /\ pc'[r] = s /\ \A q \in Runs \ {r} : pc'[q] = pc[q]
  BY <1>1, <1>2, <1>3, StepsGo DEF TypedSteps
<1>5. Typed'
  BY <1>2, <1>4, PlacesKept, WritersKept DEF FInv, Typed
<1>6. Own(r)
  <2>1. OthersKept(r) /\ TableKept
    BY <1>2, <1>4 DEF OthersKept, Mine, TableKept
  <2>2. s = "create" => ~setting.overlap
    BY <1>1 DEF FInv, TurnInv, IsTable
  <2>3. Onward(r)
    BY <1>2, <1>4, <2>2 DEF Onward, Locked, Before, Early, Over
  <2> QED BY <2>1, <2>3 DEF Own
<1>7. RunInv(r)'
  BY <1>2, <1>4, EarlyGoes DEF Early
<1> QED BY <1>2, <1>5, <1>6, <1>7, OwnKeeps

\* The staging folder is made, and the run begins to read.
LEMMA CreateStagingKeeps ==
  ASSUME FInv, NEW r \in Runs, CreateStaging(r)
  PROVE  FInv'
<1> DEFINE f == Holding({}, Columns(r, {}))
<1>1. /\ pc[r] = "stage" /\ pc' = [pc EXCEPT ![r] = "read"]
      /\ folder' = [folder EXCEPT ![Staging(r)] = f]
      /\ UNCHANGED <<plan, setting, state, lock, target, task, idle, closed, next, dropped,
                     tries, aborted, undone, hidden, leaked, saver, faults>>
  BY DEF CreateStaging, Goto, commit, writes, told, At
<1>2. "read" \in Steps /\ TypedSteps /\ TypedPlaces /\ TypedWriters
  BY DEF Steps, Before, FInv, Typed
<1>3. TypedSteps' /\ pc'[r] = "read" /\ \A q \in Runs \ {r} : pc'[q] = pc[q]
  BY <1>1, <1>2, StepsGo DEF TypedSteps
<1>4. Real(f) /\ f.there /\ f.files = {}
  BY <1>2, PlanFacts, FS_EmptySet DEF Real, Holding, Columns, Folder, Manifest
<1> HIDE DEF f
<1>5. TypedPlaces' /\ folder'[Staging(r)] = f /\ \A p \in Paths \ {Staging(r)} : folder'[p] = folder[p]
  BY <1>1, <1>2, <1>4, PathFacts, PlacesPut
<1>6. Typed'
  BY <1>1, <1>2, <1>3, <1>5, WritersKept DEF Typed
<1>7. /\ folder'[Dest] = folder[Dest] /\ \A q \in Runs : folder'[Aside(q)] = folder[Aside(q)]
      /\ \A q \in Runs \ {r} : folder'[Staging(q)] = folder[Staging(q)]
  BY <1>5, PathFacts
<1>8. Own(r)
  <2>1. OthersKept(r) /\ TableKept
    BY <1>1, <1>3, <1>7 DEF OthersKept, Mine, TableKept, Staging, Aside, Dest
  <2>2. Onward(r)
    BY <1>1, <1>3 DEF Onward, Locked, Before, Early, Over
  <2> QED BY <2>1, <2>2 DEF Own
<1>9. RunInv(r)'
  <2>1. Staged(r)' = f /\ Inserts(r)' = Inserts(r)
    BY <1>1, <1>5 DEF Staged, Inserts, Staging
  <2>2. /\ \A i \in Inserts(r) : task[r][i].step = "queued"
        /\ \A s \in DOMAIN idle[r] : idle[r][s] = <<>>
        /\ closed[r] = {} /\ next[r] = 0 /\ ~dropped[r] /\ ~aborted[r]
        /\ folder[Aside(r)] = Missing
    BY <1>1 DEF FInv, RunInv, Fresh, Committing, Early, Before
  <2>3. IdleParts(r)' = {} /\ FullParts(r)' = {} /\ OpenParts(r)' = {}
    BY <1>1, <2>1, <2>2 DEF IdleParts, FullParts, OpenParts, Writes1, Writing
  <2>4. \A i \in Inserts(r) : ~Writes1(r, i)'
    BY <1>1, <2>2 DEF Writes1, Writing
  <2>5. (SumFunction([i \in Inserts(r) |-> Remaining(r, i)]) = Asked(r))'
    <3>1. \A i \in Inserts(r) : Remaining(r, i)' = plan[r].inserts[i].rows
      BY <1>1, <2>2 DEF Remaining
    <3>2. [i \in Inserts(r) |-> Remaining(r, i)]' = [i \in Inserts(r) |-> plan[r].inserts[i].rows]
      BY <2>1, <3>1
    <3> QED BY <1>1, <3>2 DEF Asked, Inserts
  <2>6. RowsOf({}) = 0
    BY SumEmpty DEF RowsOf
  <2>7. Asked(r)' \in Nat
    <3>1. [i \in Inserts(r) |-> plan[r].inserts[i].rows] \in [Inserts(r) -> Nat] /\ IsFiniteSet(Inserts(r))
      BY <1>2, PlanFacts
    <3>2. SumFunction([i \in Inserts(r) |-> plan[r].inserts[i].rows]) \in Nat
      BY <3>1, SumType
    <3> QED BY <1>1, <3>2 DEF Asked, Inserts
  <2>8. Books(r)'
    <3>1. Staged(r)'.there /\ ~dropped'[r] /\ ~aborted'[r]
      BY <1>1, <1>4, <2>1, <2>2
    <3>2. Staged(r)'.files = {} /\ closed'[r] = {}
      BY <1>1, <1>4, <2>1, <2>2
    <3>3. (\A s, t \in DOMAIN idle[r] : \A k \in DOMAIN idle[r][s], l \in DOMAIN idle[r][t] :
             idle[r][s][k] = idle[r][t][l] => s = t /\ k = l)'
      BY <1>1, <2>2
    <3>4. (RowsOf(Staged(r).files) + SumFunction([i \in Inserts(r) |-> Remaining(r, i)]) = Asked(r))'
      BY <2>5, <2>6, <2>7, <3>2
    <3>5. (\A i, j \in Inserts(r) :
         Writes1(r, i) /\ Writes1(r, j) /\ OpenPart1(r, i) = OpenPart1(r, j) => i = j)'
      BY <2>1, <2>4
    <3> QED BY <3>1, <3>2, <3>3, <3>4, <3>5, <2>3 DEF Books, Balanced
  <2>9. Committing(r)'
    BY <1>1, <1>3, <1>7, <2>2 DEF Committing, Aside
  <2> QED BY <1>3, <2>8, <2>9 DEF RunInv, Fresh, Ready, Cleaned, Early
<1> QED BY <1>1, <1>6, <1>8, <1>9, OwnKeeps

-----------------------------------------------------------------------------
(* Rows of parts.                                                          *)

\* The rows of a finite set of parts are a number;
LEMMA RowsType ==
  ASSUME NEW S, IsFiniteSet(S), S \subseteq OnDisk
  PROVE  [p \in S |-> p.rows] \in [S -> Int] /\ RowsOf(S) \in Nat
<1>1. [p \in S |-> p.rows] \in [S -> Int] /\ [p \in S |-> p.rows] \in [S -> Nat]
  BY DEF OnDisk
<1> QED BY <1>1, SumType DEF RowsOf

\* each part gives its own to it,
LEMMA RowsStep ==
  ASSUME NEW S, IsFiniteSet(S), S \subseteq OnDisk, NEW x \in S
  PROVE  RowsOf(S) = x.rows + RowsOf(S \ {x})
<1> DEFINE f == [p \in S |-> p.rows]
<1>1. f \in [S -> Int] /\ f[x] = x.rows
  BY RowsType
<1>2. [p \in S \ {x} |-> f[p]] = [p \in S \ {x} |-> p.rows]
  OBVIOUS
<1> HIDE DEF f
<1>3. SumFunction(f) = f[x] + SumFunction([p \in S \ {x} |-> f[p]])
  BY <1>1, SumStep
<1> QED BY <1>1, <1>2, <1>3 DEF RowsOf, f

\* a new part adds its own,
LEMMA RowsAdd ==
  ASSUME NEW S, IsFiniteSet(S), S \subseteq OnDisk, NEW x \in OnDisk, x \notin S
  PROVE  IsFiniteSet(S \cup {x}) /\ RowsOf(S \cup {x}) = RowsOf(S) + x.rows
<1>1. IsFiniteSet(S \cup {x}) /\ S \cup {x} \subseteq OnDisk /\ (S \cup {x}) \ {x} = S
  BY FS_AddElement
<1>2. RowsOf(S \cup {x}) = x.rows + RowsOf(S)
  BY <1>1, RowsStep
<1>3. x.rows \in Nat /\ RowsOf(S) \in Nat
  BY RowsType DEF OnDisk
<1> QED BY <1>1, <1>2, <1>3

\* and one that takes another's place adds the difference.
LEMMA RowsReplace ==
  ASSUME NEW S, IsFiniteSet(S), S \subseteq OnDisk, NEW x \in S, NEW y \in OnDisk, y \notin S \ {x}
  PROVE  /\ IsFiniteSet((S \ {x}) \cup {y})
         /\ RowsOf((S \ {x}) \cup {y}) = RowsOf(S) - x.rows + y.rows
<1>1. IsFiniteSet(S \ {x}) /\ S \ {x} \subseteq OnDisk
  BY FS_RemoveElement
<1>2. RowsOf((S \ {x}) \cup {y}) = RowsOf(S \ {x}) + y.rows /\ IsFiniteSet((S \ {x}) \cup {y})
  BY <1>1, RowsAdd
<1>3. RowsOf(S) = x.rows + RowsOf(S \ {x})
  BY RowsStep
<1>4. RowsOf(S \ {x}) \in Nat /\ RowsOf(S) \in Nat /\ x.rows \in Nat /\ y.rows \in Nat
  BY <1>1, RowsType DEF OnDisk
<1> QED BY <1>2, <1>3, <1>4

\* No parts have no rows.
LEMMA RowsNone == RowsOf({}) = 0
BY SumEmpty DEF RowsOf

\* One part has its own.
LEMMA RowsOne ==
  ASSUME NEW x \in OnDisk
  PROVE  RowsOf({x}) = x.rows
<1>1. RowsOf({} \cup {x}) = RowsOf({}) + x.rows
  BY FS_EmptySet, RowsAdd
<1>2. {} \cup {x} = {x} /\ x.rows \in Nat
  BY DEF OnDisk
<1> QED BY <1>1, <1>2, RowsNone

\* The rows an insert has left.
LEMMA RemainingType ==
  ASSUME TypedPlaces, TypedWriters, NEW r \in Runs
  PROVE  /\ [i \in Inserts(r) |-> Remaining(r, i)] \in [Inserts(r) -> Nat]
         /\ IsFiniteSet(Inserts(r))
         /\ SumFunction([i \in Inserts(r) |-> Remaining(r, i)]) \in Nat
<1>1. \A i \in Inserts(r) : Remaining(r, i) \in Nat
  BY PlanFacts DEF TypedWriters, Task, Remaining
<1>2. [i \in Inserts(r) |-> Remaining(r, i)] \in [Inserts(r) -> Nat]
  BY <1>1
<1>3. IsFiniteSet(Inserts(r))
  BY PlanFacts
<1>4. \A f \in [Inserts(r) -> Nat] : f \in [Inserts(r) -> Int]
  OBVIOUS
<1> QED BY <1>2, <1>3, <1>4, SumType

-----------------------------------------------------------------------------
(* Inserts.                                                                *)

\* An insert that still writes belongs to a run that reads or has failed.
LEMMA WhoWrites ==
  ASSUME FInv, NEW r \in Runs, NEW i \in Inserts(r), task[r][i].step = "writing"
  PROVE  /\ pc[r] \in {"read", "drop", "unlink", "rmdir", "failed"}
         /\ pc[r] # "read" /\ pc[r] # "failed" => aborted[r]
<1>1. pc[r] \in Steps /\ Fresh(r) /\ Ready(r) /\ Cleaned(r) /\ Committing(r)
  BY DEF FInv, Typed, TypedSteps, RunInv
<1>2. pc[r] \notin Early
  BY <1>1 DEF Fresh
<1>3. pc[r] \notin {"commit", "swap", "swap in", "move"}
  BY <1>1 DEF Ready
<1>4. pc[r] # "swap out"
  BY <1>1 DEF Cleaned, Committing
<1>5. pc[r] # "dead"
  BY <1>1 DEF Cleaned
<1>6. pc[r] \in {"drop", "unlink", "rmdir", "save", "write state", "ok"} => aborted[r]
  BY <1>1 DEF Cleaned
<1>7. pc[r] \notin {"save", "write state", "ok"}
  BY <1>1, <1>6 DEF Cleaned
<1> QED BY <1>1, <1>2, <1>3, <1>4, <1>5, <1>6, <1>7 DEF Steps, Before, Locked

\* One insert goes on, and its run stays where it is.
Inserting(r, i) ==
  /\ UNCHANGED <<plan, setting, state, lock, target, pc, dropped, tries, aborted, undone, hidden,
                 leaked, saver>>
  /\ \A q \in Runs \ {r} : UNCHANGED <<task[q], idle[q], closed[q], next[q]>>
  /\ \A j \in Inserts(r) \ {i} : task'[r][j] = task[r][j]
  /\ \A p \in Paths \ {Staging(r)} : folder'[p] = folder[p]

\* It is a step of its run alone, wherever that is.
LEMMA InsertingOwn ==
  ASSUME FInv, NEW r \in Runs, NEW i \in Inserts(r), Inserting(r, i),
         pc[r] = "read" \/ task[r][i].step = "writing"
  PROVE  Own(r)
<1>1. /\ folder'[Dest] = folder[Dest] /\ \A q \in Runs : folder'[Aside(q)] = folder[Aside(q)]
      /\ \A q \in Runs \ {r} : folder'[Staging(q)] = folder[Staging(q)]
  BY PathFacts DEF Inserting
<1>2. OthersKept(r) /\ TableKept
  BY <1>1 DEF OthersKept, Mine, TableKept, Staging, Aside, Dest, Inserting
<1>3. pc[r] \in {"read", "drop", "unlink", "rmdir", "failed"}
  BY WhoWrites
<1>4. Onward(r)
  BY <1>3 DEF Onward, Locked, Before, Early, Over, Inserting
<1> QED BY <1>2, <1>4 DEF Own

\* What the inserts of a failed run still write changes nothing it says.
LEMMA LateInsert ==
  ASSUME FInv, NEW r \in Runs, NEW i \in Inserts(r), Inserting(r, i),
         task[r][i].step = "writing", pc[r] # "read",
         folder'[Staging(r)].there = Staged(r).there,
         Staged(r).files = {} /\ dropped[r] => folder'[Staging(r)].files = {}
  PROVE  RunInv(r)'
<1>1. /\ pc[r] \in {"drop", "unlink", "rmdir", "failed"} /\ (pc[r] # "failed" => aborted[r])
      /\ pc'[r] = pc[r] /\ aborted'[r] = aborted[r] /\ dropped'[r] = dropped[r] /\ leaked' = leaked
  BY WhoWrites DEF Inserting
<1>2. Fresh(r)' /\ Books(r)' /\ Ready(r)'
  BY <1>1 DEF Fresh, Books, Ready, Early
<1>3. Committing(r)'
  BY <1>1 DEF Committing, Before, Early
<1>4. Cleaned(r)'
  <2>1. Cleaned(r)
    BY DEF FInv, RunInv
  <2>2. Staged(r)' = folder'[Staging(r)]
    BY DEF Staged, Staging
  <2> QED BY <1>1, <2>1, <2>2 DEF Cleaned
<1> QED BY <1>2, <1>3, <1>4 DEF RunInv

\* A run that reads keeps its invariant if it keeps its books.
LEMMA ReadingKeeps ==
  ASSUME FInv, NEW r \in Runs, pc[r] = "read", pc' = pc, Books(r)', plan' = plan,
         folder'[Aside(r)] = folder[Aside(r)]
  PROVE  RunInv(r)'
<1>1. pc'[r] = "read"
  OBVIOUS
<1>2. folder[Aside(r)] = Missing
  BY DEF FInv, RunInv, Committing, Before
<1>3. Committing(r)'
  BY <1>1, <1>2 DEF Committing, Aside
<1> QED BY <1>1, <1>3 DEF RunInv, Fresh, Ready, Cleaned, Early

\* What the invariant says of a run that reads.
LEMMA BooksAre ==
  ASSUME FInv, NEW r \in Runs, pc[r] = "read"
  PROVE  Balanced(r) /\ TypedPlaces /\ TypedWriters /\ TypedSteps
BY DEF FInv, RunInv, Books, Typed

\* The parts of a run's hands are files.
LEMMA PartsTyped ==
  ASSUME FInv, NEW r \in Runs, pc[r] = "read"
  PROVE  /\ Staged(r).files \subseteq OnDisk /\ IsFiniteSet(Staged(r).files)
         /\ closed[r] \subseteq Staged(r).files /\ IdleParts(r) \subseteq Staged(r).files
         /\ FullParts(r) \subseteq Staged(r).files /\ OpenParts(r) \subseteq Staged(r).files
         /\ Staging(r) \in Paths /\ Staged(r) \in Folder
<1>1. TypedPlaces /\ Staging(r) \in Paths
  BY PathFacts DEF FInv, Typed
<1>2. Staged(r).files \subseteq OnDisk /\ IsFiniteSet(Staged(r).files) /\ Staged(r) \in Folder
  BY <1>1, FolderParts DEF Staged
<1>3. Staged(r).files = closed[r] \cup IdleParts(r) \cup FullParts(r) \cup OpenParts(r)
  BY DEF FInv, RunInv, Books, Balanced
<1> QED BY <1>1, <1>2, <1>3

\* An error leaves the insert's parts where they are.
LEMMA InsertFailsKeeps ==
  ASSUME FInv, NEW r \in Runs, NEW i \in Inserts(r), InsertFails(r, i)
  PROVE  FInv'
<1>1. /\ task[r][i].step = "writing" /\ task' = [task EXCEPT ![r][i].step = "failed"]
      /\ UNCHANGED <<plan, setting, folder, state, lock, target, pc, idle, closed, next, dropped,
                     tries, aborted, undone, hidden, leaked, saver>>
  BY DEF InsertFails, files, commit
<1>2. TypedPlaces /\ TypedSteps /\ TypedWriters
  BY DEF FInv, Typed
<1>3. faults' \in 0..MaxFaults
  BY <1>2, FaultTyped DEF InsertFails, TypedSteps
<1>4. /\ DOMAIN task' = Runs /\ (\A q \in Runs \ {r} : task'[q] = task[q])
      /\ DOMAIN task'[r] = Inserts(r)
      /\ (\A j \in Inserts(r) \ {i} : task'[r][j] = task[r][j])
      /\ task'[r][i] = [task[r][i] EXCEPT !.step = "failed"]
  BY <1>1, <1>2 DEF TypedWriters
<1>5. Typed'
  <2>1. task[r][i] \in Task
    BY <1>2 DEF TypedWriters
  <2>2. task'[r][i] \in Task
    BY <1>4, <2>1 DEF Task
  <2>3. TypedWriters'
    BY <1>1, <1>2, <1>4, <2>2 DEF TypedWriters, Inserts, Stream
  <2>4. TypedSteps'
    BY <1>1, <1>2, <1>3, KeysKept DEF TypedSteps
  <2> QED BY <1>1, <1>2, <2>3, <2>4, PlacesKept DEF Typed
<1>6. Inserting(r, i)
  BY <1>1, <1>4 DEF Inserting
<1>7. RunInv(r)'
  <2>1. CASE pc[r] # "read"
    BY <1>1, <1>6, <2>1, LateInsert DEF Staged
  <2>2. CASE pc[r] = "read"
    <3>1. Staged(r)' = Staged(r) /\ Inserts(r)' = Inserts(r) /\ IdleParts(r)' = IdleParts(r)
      BY <1>1 DEF Staged, Staging, Inserts, IdleParts, Part
    <3>2. task[r][i] \in Task
      BY <1>2 DEF TypedWriters
    <3>3. \A j \in Inserts(r) :
            /\ Writing(r, j)' <=> Writing(r, j)
            /\ Writes1(r, j)' <=> Writes1(r, j)
            /\ OpenPart1(r, j)' = OpenPart1(r, j)
            /\ task'[r][j].full = task[r][j].full
            /\ Remaining(r, j)' = Remaining(r, j)
      <4>1. CASE task[r][i].step = "writing"
        BY <1>1, <1>4, <3>2 DEF Writing, Writes1, OpenPart1, Part, Remaining, Task
      <4> QED BY <1>1, <4>1
    <3>4. FullParts(r)' = FullParts(r) /\ OpenParts(r)' = OpenParts(r)
      BY <3>1, <3>3 DEF FullParts, OpenParts
    <3>5. [j \in Inserts(r) |-> Remaining(r, j)]' = [j \in Inserts(r) |-> Remaining(r, j)]
      BY <3>1, <3>3
    <3>6. Asked(r)' = Asked(r)
      BY <1>1 DEF Asked
    <3>7. Balanced(r)
      BY <2>2, BooksAre
    <3>8. Books(r)'
      BY <1>1, <2>2, <3>1, <3>3, <3>4, <3>5, <3>6, <3>7 DEF Books, Balanced
    <3> QED BY <1>1, <2>2, <3>8, ReadingKeeps
  <2> QED BY <2>1, <2>2
<1> QED BY <1>1, <1>5, <1>6, <1>7, InsertingOwn, OwnKeeps

\* A step that changes only an insert keeps the types.
LEMMA TaskTyped ==
  ASSUME TypedWriters, UNCHANGED <<plan, idle, closed, next, dropped>>, DOMAIN task' = Runs,
         \A q \in Runs : DOMAIN task'[q] = Inserts(q) /\ \A j \in Inserts(q) : task'[q][j] \in Task
  PROVE  TypedWriters'
<1>1. \A q \in Runs : Inserts(q)' = Inserts(q) /\ \A i \in Inserts(q) : Stream(q, i)' = Stream(q, i)
  BY DEF Inserts, Stream
<1> QED BY <1>1 DEF TypedWriters

\* One insert has fewer rows left than before.
LEMMA RemainingChanges ==
  ASSUME TypedPlaces, TypedWriters, plan' = plan, NEW r \in Runs, NEW i \in Inserts(r), NEW v \in Nat,
         Remaining(r, i)' = v, \A j \in Inserts(r) \ {i} : Remaining(r, j)' = Remaining(r, j)
  PROVE  SumFunction([j \in Inserts(r) |-> Remaining(r, j)])'
         = SumFunction([j \in Inserts(r) |-> Remaining(r, j)]) - Remaining(r, i) + v
<1> DEFINE f == [j \in Inserts(r) |-> Remaining(r, j)]
           h == [f EXCEPT ![i] = v]
<1>1. f \in [Inserts(r) -> Nat] /\ IsFiniteSet(Inserts(r)) /\ f[i] = Remaining(r, i)
  BY RemainingType
<1>2. Inserts(r)' = Inserts(r)
  BY DEF Inserts
<1>3. f' = [j \in Inserts(r) |-> Remaining(r, j)']
  BY <1>2
<1>4. f' = h
  BY <1>1, <1>3
<1>5. (SumFunction(f))' = SumFunction(h)
  BY <1>4
<1> HIDE DEF f
<1>6. f \in [Inserts(r) -> Int] /\ v \in Int
  BY <1>1
<1>7. SumFunction(h) = SumFunction(f) - f[i] + v
  BY <1>1, <1>6, SumExcept
<1> QED BY <1>1, <1>5, <1>7 DEF f

\* The minimum of two numbers is one of them, and above neither.
LEMMA MinOfTwo ==
  ASSUME NEW a \in Int, NEW b \in Int
  PROVE  Min({a, b}) \in {a, b} /\ Min({a, b}) <= a /\ Min({a, b}) <= b
<1>1. \E x \in {a, b} : \A y \in {a, b} : x <= y
  OBVIOUS
<1> QED BY <1>1 DEF Min

\* An insert adds rows to its open part.
LEMMA WritePartKeeps ==
  ASSUME FInv, NEW r \in Runs, NEW i \in Inserts(r), WritePart(r, i)
  PROVE  FInv'
<1> DEFINE t == task[r][i]
           n == Min({MaxRows - t.part.rows, t.left})
           p == [t.part EXCEPT !.rows = @ + n]
           old == Part(r, t.part)
           new == Part(r, p)
           S == Staged(r)
           g == [S EXCEPT !.files = IF old \in @ THEN (@ \ {old}) \cup {new} ELSE @]
<1>1. /\ t.step = "writing" /\ t.left > 0 /\ t.part # NoPart /\ t.part.rows < MaxRows
      /\ task' = [task EXCEPT ![r][i].part = p, ![r][i].left = @ - n]
      /\ folder' = [folder EXCEPT ![Staging(r)] = g]
      /\ UNCHANGED <<plan, setting, state, lock, target, pc, idle, closed, next, dropped,
                     tries, aborted, undone, hidden, leaked, saver, faults>>
  BY DEF WritePart, commit, told, Rewritten, At, Staged
<1>2. TypedPlaces /\ TypedSteps /\ TypedWriters
  BY DEF FInv, Typed
<1>3. t \in Task /\ t.part \in Open /\ t.left \in Nat /\ t.part.rows \in Nat /\ t.part.n \in Int
  BY <1>2 DEF TypedWriters, Task, Open
<1>4. n \in Nat /\ n > 0 /\ n <= t.left /\ t.left - n \in Nat
  <2>1. MaxRows - t.part.rows \in Int /\ MaxRows - t.part.rows > 0
    BY <1>1, <1>3, CsvConstants
  <2>2. n \in {MaxRows - t.part.rows, t.left} /\ n <= t.left
    <3> DEFINE a == MaxRows - t.part.rows
               b == t.left
    <3>1. n = Min({a, b}) /\ a \in Int /\ b \in Int
      BY <1>3, <2>1
    <3> HIDE DEF a, b
    <3>2. Min({a, b}) \in {a, b} /\ Min({a, b}) <= b
      BY <3>1, MinOfTwo
    <3> QED BY <3>1, <3>2 DEF a, b
  <2> HIDE DEF n
  <2> QED BY <1>1, <1>3, <2>1, <2>2
<1>5. p = [n |-> t.part.n, rows |-> t.part.rows + n] /\ p \in Open /\ p # NoPart
  BY <1>3, <1>4 DEF Open, NoPart
<1>6. /\ old = [run |-> r, n |-> t.part.n, rows |-> t.part.rows]
      /\ new = [run |-> r, n |-> t.part.n, rows |-> t.part.rows + n]
      /\ old \in OnDisk /\ new \in OnDisk
  BY <1>3, <1>4, <1>5 DEF Part, OnDisk
<1>7. S \in Folder /\ IsFiniteSet(S.files) /\ S.files \subseteq OnDisk /\ (~S.there => S = Missing)
  BY <1>2, PathFacts DEF TypedPlaces, Staged, Folder
<1> HIDE DEF n, p, old, new, S
<1>8. /\ g \in Folder /\ g.there = S.there
      /\ g.files = IF old \in S.files THEN (S.files \ {old}) \cup {new} ELSE S.files
  BY <1>6, <1>7 DEF Folder
<1>9. Real(g)
  <2>1. IsFiniteSet(g.files)
    <3>1. IsFiniteSet((S.files \ {old}) \cup {new})
      BY <1>7, FS_RemoveElement, FS_AddElement
    <3> QED BY <1>7, <1>8, <3>1
  <2>2. ~g.there => g = Missing
    <3>1. CASE ~S.there
      <4>1. S = Missing /\ old \notin S.files
        BY <1>7, <3>1 DEF Missing
      <4> QED BY <4>1, <1>7 DEF Folder
    <3>2. CASE S.there
      BY <1>8, <3>2
    <3> QED BY <3>1, <3>2
  <2> QED BY <1>8, <2>1, <2>2 DEF Real
<1> HIDE DEF g
<1>10. /\ DOMAIN task' = Runs /\ (\A q \in Runs \ {r} : task'[q] = task[q])
       /\ DOMAIN task'[r] = Inserts(r)
       /\ (\A j \in Inserts(r) \ {i} : task'[r][j] = task[r][j])
       /\ task'[r][i] = [t EXCEPT !.part = p, !.left = t.left - n]
  BY <1>1, <1>2 DEF TypedWriters
<1>11. /\ task'[r][i] \in Task /\ task'[r][i].step = "writing" /\ task'[r][i].part = p
       /\ task'[r][i].left = t.left - n /\ task'[r][i].full = t.full
  BY <1>1, <1>3, <1>4, <1>5, <1>10 DEF Task
<1>12. /\ TypedPlaces' /\ folder'[Staging(r)] = g
       /\ \A q \in Paths \ {Staging(r)} : folder'[q] = folder[q]
  BY <1>1, <1>2, <1>9, PathFacts, PlacesPut
<1>13. Typed'
  <2>1. TypedWriters'
    <3>1. \A q \in Runs : /\ DOMAIN task'[q] = Inserts(q)
                         /\ \A j \in Inserts(q) : task'[q][j] \in Task
      BY <1>2, <1>10, <1>11 DEF TypedWriters
    <3> QED BY <1>1, <1>2, <1>10, <3>1, TaskTyped
  <2>2. TypedSteps'
    BY <1>1, <1>2, KeysKept DEF TypedSteps
  <2> QED BY <1>12, <2>1, <2>2 DEF Typed
<1>14. Inserting(r, i)
  BY <1>1, <1>10, <1>12 DEF Inserting
<1>15. RunInv(r)'
  <2>1. CASE pc[r] # "read"
    <3>1. S.files = {} => g.files = {}
      BY <1>8
    <3> QED BY <1>1, <1>8, <1>12, <1>14, <2>1, <3>1, LateInsert DEF S
  <2>2. CASE pc[r] = "read"
    <3>1. /\ Balanced(r) /\ closed[r] \subseteq S.files /\ IdleParts(r) \subseteq S.files
          /\ FullParts(r) \subseteq S.files /\ OpenParts(r) \subseteq S.files
      BY <2>2, BooksAre, PartsTyped DEF S
    <3>2. Writes1(r, i) /\ OpenPart1(r, i) = old /\ old \in OpenParts(r) /\ old \in S.files
      <4>1. Writes1(r, i) /\ OpenPart1(r, i) = old
        BY <1>1 DEF Writes1, Writing, OpenPart1, old
      <4>2. old \in OpenParts(r)
        BY <4>1 DEF OpenParts
      <4> QED BY <3>1, <4>1, <4>2
    <3>3. /\ \A f \in S.files : f.run = r /\ f.n \in 0..(next[r] - 1)
          /\ \A f, h \in S.files : f.n = h.n => f = h
      BY <3>1 DEF Balanced, S
    <3>4. g.files = (S.files \ {old}) \cup {new} /\ new \notin S.files \ {old}
      BY <1>6, <1>8, <3>2, <3>3
    <3>5. Staged(r)' = g /\ Inserts(r)' = Inserts(r) /\ IdleParts(r)' = IdleParts(r)
      BY <1>1, <1>12 DEF Staged, Staging, Inserts, IdleParts, Part
    <3>6. \A j \in Inserts(r) :
            /\ Writing(r, j)' <=> Writing(r, j)
            /\ Writes1(r, j)' <=> Writes1(r, j)
            /\ task'[r][j].full = task[r][j].full
            /\ j # i => OpenPart1(r, j)' = OpenPart1(r, j) /\ Remaining(r, j)' = Remaining(r, j)
      BY <1>1, <1>5, <1>10, <1>11 DEF Writing, Writes1, OpenPart1, Part, Remaining
    <3>7. OpenPart1(r, i)' = new /\ Remaining(r, i)' = t.left - n /\ Remaining(r, i) = t.left
      BY <1>1, <1>11 DEF OpenPart1, Part, Remaining, new
    <3>8. FullParts(r)' = FullParts(r)
      BY <3>5, <3>6 DEF FullParts
    <3>9. \A j \in Inserts(r) \ {i} : Writes1(r, j) => OpenPart1(r, j) # old /\ OpenPart1(r, j) \in S.files
      BY <3>1, <3>2 DEF Balanced, OpenParts
    <3>10. OpenParts(r)' = (OpenParts(r) \ {old}) \cup {new}
      BY <3>2, <3>5, <3>6, <3>7, <3>9 DEF OpenParts
    <3>11. old \notin closed[r] \cup IdleParts(r) \cup FullParts(r)
      BY <3>1, <3>2 DEF Balanced
    <3>12. Staged(r)'.files = closed'[r] \cup IdleParts(r)' \cup FullParts(r)' \cup OpenParts(r)'
      <4>1. S.files = closed[r] \cup IdleParts(r) \cup FullParts(r) \cup OpenParts(r)
        BY <3>1 DEF Balanced, S
      <4> QED BY <1>1, <3>4, <3>5, <3>8, <3>10, <3>11, <4>1
    <3>13. \A f \in g.files : f.run = r /\ f.n \in 0..(next'[r] - 1)
      <4>1. next'[r] = next[r]
        BY <1>1
      <4>2. new.run = r /\ new.n = old.n
        BY <1>6
      <4>3. new.n \in 0..(next[r] - 1)
        BY <3>2, <3>3, <4>2
      <4> QED BY <3>3, <3>4, <4>1, <4>2, <4>3
    <3>14. \A f, h \in g.files : f.n = h.n => f = h
      BY <1>6, <3>2, <3>3, <3>4
    <3>15. (\A j, k \in Inserts(r) :
              Writes1(r, j) /\ Writes1(r, k) /\ OpenPart1(r, j) = OpenPart1(r, k) => j = k)'
      <4>1. \A j \in Inserts(r) \ {i} : Writes1(r, j)' => OpenPart1(r, j)' # new
        BY <3>4, <3>6, <3>9
      <4>2. \A j, k \in Inserts(r) :
              Writes1(r, j) /\ Writes1(r, k) /\ OpenPart1(r, j) = OpenPart1(r, k) => j = k
        BY <3>1 DEF Balanced
      <4> QED BY <3>5, <3>6, <3>7, <4>1, <4>2
    <3>16. OpenParts(r)' \cap (closed[r] \cup IdleParts(r) \cup FullParts(r)) = {}
      <4>1. OpenParts(r) \cap (closed[r] \cup IdleParts(r) \cup FullParts(r)) = {}
        BY <3>1 DEF Balanced
      <4> QED BY <3>1, <3>4, <3>10, <3>11, <4>1
    <3>17. RowsOf(g.files) = RowsOf(S.files) - old.rows + new.rows
      <4> DEFINE F == S.files
      <4>1. IsFiniteSet(F) /\ F \subseteq OnDisk /\ old \in F
        BY <1>7, <3>2
      <4>2. new \in OnDisk /\ new \notin F \ {old}
        BY <1>6, <3>4
      <4> HIDE DEF F
      <4>3. RowsOf((F \ {old}) \cup {new}) = RowsOf(F) - old.rows + new.rows
        BY <4>1, <4>2, RowsReplace
      <4> QED BY <3>4, <4>3 DEF F
    <3>18. (SumFunction([j \in Inserts(r) |-> Remaining(r, j)]))'
           = SumFunction([j \in Inserts(r) |-> Remaining(r, j)]) - t.left + (t.left - n)
      <4>1. t.left - n \in Nat
        BY <1>4
      <4> QED BY <1>1, <1>2, <3>6, <3>7, <4>1, RemainingChanges
    <3>19. RowsOf(S.files) \in Nat /\ SumFunction([j \in Inserts(r) |-> Remaining(r, j)]) \in Nat
      BY <1>2, <1>7, RowsType, RemainingType
    <3>20. Asked(r)' = Asked(r)
      BY <1>1 DEF Asked
    <3>21. RowsOf(S.files) + SumFunction([j \in Inserts(r) |-> Remaining(r, j)]) = Asked(r)
      BY <3>1 DEF Balanced, S
    <3>22. (RowsOf(Staged(r).files) + SumFunction([j \in Inserts(r) |-> Remaining(r, j)]) = Asked(r))'
      <4>1. RowsOf(Staged(r).files)' = RowsOf(S.files) + n
        BY <1>3, <1>4, <1>6, <3>5, <3>17, <3>19
      <4> QED BY <1>3, <1>4, <3>18, <3>19, <3>20, <3>21, <4>1
    <3>23. Books(r)'
      <4>1. Staged(r)'.there /\ ~dropped'[r] /\ ~aborted'[r]
        BY <1>1, <1>8, <3>1, <3>5 DEF Balanced, S
      <4>2. (\A s, u \in DOMAIN idle[r] : \A k \in DOMAIN idle[r][s], l \in DOMAIN idle[r][u] :
               idle[r][s][k] = idle[r][u][l] => s = u /\ k = l)'
        BY <1>1, <3>1 DEF Balanced
      <4>3. (IdleParts(r) \cap (closed[r] \cup FullParts(r)) = {})'
        BY <1>1, <3>1, <3>5, <3>8 DEF Balanced
      <4>4. (OpenParts(r) \cap (closed[r] \cup IdleParts(r) \cup FullParts(r)) = {})'
        BY <1>1, <3>5, <3>8, <3>16
      <4> QED BY <3>5, <3>12, <3>13, <3>14, <3>15, <3>22, <4>1, <4>2, <4>3, <4>4 DEF Books, Balanced
    <3> QED BY <1>1, <1>14, <2>2, <3>23, ReadingKeeps, PathFacts DEF Inserting
  <2> QED BY <2>1, <2>2
<1> QED BY <1>1, <1>13, <1>14, <1>15, InsertingOwn, OwnKeeps

\* A step that changes inserts, free parts and closed ones keeps the types.
LEMMA WritersChange ==
  ASSUME TypedWriters, plan' = plan, DOMAIN task' = Runs, DOMAIN idle' = Runs,
         \A q \in Runs : DOMAIN task'[q] = Inserts(q) /\ \A j \in Inserts(q) : task'[q][j] \in Task,
         \A q \in Runs : DOMAIN idle'[q] = DOMAIN idle[q] /\ \A s \in DOMAIN idle[q] : idle'[q][s] \in Seq(Open),
         closed' \in [Runs -> SUBSET OnDisk], next' \in [Runs -> Nat], dropped' \in [Runs -> BOOLEAN]
  PROVE  TypedWriters'
<1>1. \A q \in Runs : Inserts(q)' = Inserts(q) /\ \A i \in Inserts(q) : Stream(q, i)' = Stream(q, i)
  BY DEF Inserts, Stream
<1> QED BY <1>1 DEF TypedWriters

\* An insert opens its first part, or the next one after a full one.
LEMMA OpenPartKeeps ==
  ASSUME FInv, NEW r \in Runs, NEW i \in Inserts(r), OpenPart(r, i)
  PROVE  FInv'
<1> DEFINE t == task[r][i]
           p == [n |-> next[r], rows |-> 0]
           old == Part(r, t.part)
           new == Part(r, p)
           S == Staged(r)
           g == [S EXCEPT !.files = @ \cup {new}]
           full == IF t.part = NoPart THEN t.full ELSE t.full \cup {old}
<1>1. /\ t.step = "writing" /\ t.left > 0 /\ ~dropped[r] /\ S.there
      /\ task' = [task EXCEPT ![r][i].part = p, ![r][i].full = full]
      /\ folder' = [folder EXCEPT ![Staging(r)] = g]
      /\ next' = [next EXCEPT ![r] = next[r] + 1]
      /\ UNCHANGED <<plan, setting, state, lock, target, pc, idle, closed, dropped,
                     tries, aborted, undone, hidden, leaked, saver, faults>>
  <2>1. /\ t.step = "writing" /\ t.left > 0 /\ ~dropped[r] /\ S.there
        /\ folder' = [folder EXCEPT ![Staging(r)] = g]
        /\ next' = [next EXCEPT ![r] = next[r] + 1]
        /\ UNCHANGED <<plan, setting, state, lock, target, pc, idle, closed, dropped,
                       tries, aborted, undone, hidden, leaked, saver, faults>>
    BY DEF OpenPart, commit, told, MayOpen, At, Staged
  <2>2. task' = [task EXCEPT ![r][i].part = p, ![r][i].full = full]
    BY DEF OpenPart
  <2> QED BY <2>1, <2>2
<1>2. TypedPlaces /\ TypedSteps /\ TypedWriters
  BY DEF FInv, Typed
<1>3. /\ t \in Task /\ t.part \in Open /\ t.left \in Nat /\ t.part.rows \in Nat /\ t.part.n \in Int
      /\ next[r] \in Nat /\ t.full \subseteq OnDisk
  BY <1>2 DEF TypedWriters, Task, Open
<1>4. p \in Open /\ p # NoPart
  BY <1>3 DEF Open, NoPart
<1>5. /\ old = [run |-> r, n |-> t.part.n, rows |-> t.part.rows]
      /\ new = [run |-> r, n |-> next[r], rows |-> 0]
      /\ old \in OnDisk /\ new \in OnDisk /\ full \subseteq OnDisk
  BY <1>3 DEF Part, OnDisk
<1>6. S \in Folder /\ IsFiniteSet(S.files) /\ S.files \subseteq OnDisk
  BY <1>2, PathFacts DEF TypedPlaces, Staged, Folder
<1> HIDE DEF p, old, new, S
<1>7. g \in Folder /\ g.there = S.there /\ g.files = S.files \cup {new}
  BY <1>5, <1>6 DEF Folder
<1>8. Real(g)
  BY <1>1, <1>6, <1>7, FS_AddElement DEF Real
<1> HIDE DEF g
<1>9. /\ DOMAIN task' = Runs /\ (\A q \in Runs \ {r} : task'[q] = task[q])
      /\ DOMAIN task'[r] = Inserts(r)
      /\ (\A j \in Inserts(r) \ {i} : task'[r][j] = task[r][j])
      /\ task'[r][i] = [t EXCEPT !.part = p, !.full = full]
  BY <1>1, <1>2 DEF TypedWriters
<1> HIDE DEF full
<1>10. /\ task'[r][i] \in Task /\ task'[r][i].step = "writing" /\ task'[r][i].part = p
       /\ task'[r][i].left = t.left /\ task'[r][i].full = full
  BY <1>1, <1>3, <1>4, <1>5, <1>9 DEF Task
<1>11. /\ TypedPlaces' /\ folder'[Staging(r)] = g
       /\ \A q \in Paths \ {Staging(r)} : folder'[q] = folder[q]
  BY <1>1, <1>2, <1>8, PathFacts, PlacesPut
<1>12. Typed'
  <2>1. \A q \in Runs : DOMAIN task'[q] = Inserts(q) /\ \A j \in Inserts(q) : task'[q][j] \in Task
    BY <1>2, <1>9, <1>10 DEF TypedWriters
  <2>2. next' \in [Runs -> Nat]
    BY <1>1, <1>2, <1>3 DEF TypedWriters
  <2>3. TypedWriters'
    BY <1>1, <1>2, <1>9, <2>1, <2>2, WritersChange DEF TypedWriters
  <2>4. TypedSteps'
    BY <1>1, <1>2, KeysKept DEF TypedSteps
  <2> QED BY <1>11, <2>3, <2>4 DEF Typed
<1>13. Inserting(r, i)
  BY <1>1, <1>2, <1>9, <1>11 DEF Inserting, TypedWriters
<1>14. RunInv(r)'
  <2>1. CASE pc[r] # "read"
    BY <1>1, <1>7, <1>11, <1>13, <2>1, LateInsert DEF S
  <2>2. CASE pc[r] = "read"
    <3>1. /\ Balanced(r) /\ closed[r] \subseteq S.files /\ IdleParts(r) \subseteq S.files
          /\ FullParts(r) \subseteq S.files /\ OpenParts(r) \subseteq S.files
      BY <2>2, BooksAre, PartsTyped DEF S
    <3>2. Writing(r, i) /\ (Writes1(r, i) <=> t.part # NoPart) /\ OpenPart1(r, i) = old
      BY <1>1 DEF Writes1, Writing, OpenPart1, old
    <3>3. /\ \A f \in S.files : f.run = r /\ f.n \in 0..(next[r] - 1)
          /\ \A f, h \in S.files : f.n = h.n => f = h
      BY <3>1 DEF Balanced, S
    <3>4. next'[r] = next[r] + 1
      BY <1>1, <1>2 DEF TypedWriters
    <3>5. new \notin S.files
      BY <1>3, <1>5, <3>3
    <3>6. Staged(r)' = g /\ Inserts(r)' = Inserts(r) /\ IdleParts(r)' = IdleParts(r)
      BY <1>1, <1>11 DEF Staged, Staging, Inserts, IdleParts, Part
    <3>7. \A j \in Inserts(r) :
            /\ Writing(r, j)' <=> Writing(r, j)
            /\ j # i => /\ Writes1(r, j)' <=> Writes1(r, j)
                        /\ task'[r][j].full = task[r][j].full
                        /\ OpenPart1(r, j)' = OpenPart1(r, j)
            /\ Remaining(r, j)' = Remaining(r, j)
      BY <1>1, <1>9, <1>10 DEF Writing, Writes1, OpenPart1, Part, Remaining
    <3>8. Writes1(r, i)' /\ OpenPart1(r, i)' = new
      BY <1>4, <1>10 DEF OpenPart1, Writes1, Writing, Part, new
    <3>9. FullParts(r)' = FullParts(r) \cup (IF t.part = NoPart THEN {} ELSE {old})
      <4>1. FullParts(r)' = UNION {task'[r][j].full : j \in {k \in Inserts(r) : Writing(r, k)}}
        BY <3>6, <3>7 DEF FullParts
      <4>2. FullParts(r) = UNION {task[r][j].full : j \in {k \in Inserts(r) : Writing(r, k)}}
        BY DEF FullParts
      <4>3. \A j \in Inserts(r) \ {i} : task'[r][j].full = task[r][j].full
        BY <3>7
      <4> QED BY <1>10, <3>2, <4>1, <4>2, <4>3 DEF full
    <3>10. \A j, k \in Inserts(r) :
              Writes1(r, j) /\ Writes1(r, k) /\ OpenPart1(r, j) = OpenPart1(r, k) => j = k
      BY <3>1 DEF Balanced
    <3>11. \A j \in Inserts(r) : Writes1(r, j) => OpenPart1(r, j) \in OpenParts(r)
      BY DEF OpenParts
    <3>12. OpenParts(r)' = (IF t.part = NoPart THEN OpenParts(r) ELSE OpenParts(r) \ {old}) \cup {new}
      <4>1. OpenParts(r)' = {OpenPart1(r, j)' : j \in {k \in Inserts(r) : Writes1(r, k)'}}
        BY <3>6 DEF OpenParts
      <4>2. OpenParts(r) = {OpenPart1(r, j) : j \in {k \in Inserts(r) : Writes1(r, k)}}
        BY DEF OpenParts
      <4>3. CASE t.part = NoPart
        BY <3>2, <3>7, <3>8, <4>1, <4>2, <4>3
      <4>4. CASE t.part # NoPart
        <5>1. \A j \in Inserts(r) \ {i} : Writes1(r, j) => OpenPart1(r, j) # old
          BY <3>2, <3>10, <4>4
        <5> QED BY <3>2, <3>7, <3>8, <4>1, <4>2, <4>4, <5>1
      <4> QED BY <4>3, <4>4
    <3>13. /\ OpenParts(r) \cap (closed[r] \cup IdleParts(r) \cup FullParts(r)) = {}
           /\ IdleParts(r) \cap (closed[r] \cup FullParts(r)) = {}
           /\ S.files = closed[r] \cup IdleParts(r) \cup FullParts(r) \cup OpenParts(r)
           /\ t.part # NoPart => old \in OpenParts(r)
      BY <3>1, <3>2, <3>11 DEF Balanced, S
    <3>14. (Staged(r).files = closed[r] \cup IdleParts(r) \cup FullParts(r) \cup OpenParts(r))'
      BY <1>1, <1>7, <3>6, <3>9, <3>12, <3>13
    <3>15. \A f \in g.files : f.run = r /\ f.n \in 0..(next'[r] - 1)
      BY <1>3, <1>5, <1>7, <3>3, <3>4
    <3>16. \A f, h \in g.files : f.n = h.n => f = h
      BY <1>3, <1>5, <1>7, <3>3
    <3>17. (\A j, k \in Inserts(r) :
              Writes1(r, j) /\ Writes1(r, k) /\ OpenPart1(r, j) = OpenPart1(r, k) => j = k)'
      <4>1. \A j \in Inserts(r) \ {i} : Writes1(r, j)' => OpenPart1(r, j)' # new
        BY <3>1, <3>5, <3>7, <3>11
      <4> QED BY <3>6, <3>7, <3>8, <3>10, <4>1
    <3>18. (OpenParts(r) \cap (closed[r] \cup IdleParts(r) \cup FullParts(r)) = {})'
      BY <1>1, <3>1, <3>5, <3>6, <3>9, <3>12, <3>13
    <3>19. (IdleParts(r) \cap (closed[r] \cup FullParts(r)) = {})'
      BY <1>1, <3>6, <3>9, <3>13
    <3>20. (RowsOf(Staged(r).files) + SumFunction([j \in Inserts(r) |-> Remaining(r, j)]) = Asked(r))'
      <4>1. RowsOf(g.files) = RowsOf(S.files)
        <5>1. RowsOf(g.files) = RowsOf(S.files) + new.rows /\ RowsOf(S.files) \in Nat
          BY <1>5, <1>6, <1>7, <3>5, RowsAdd, RowsType
        <5> QED BY <1>5, <5>1
      <4>2. [j \in Inserts(r) |-> Remaining(r, j)]' = [j \in Inserts(r) |-> Remaining(r, j)]
        BY <3>6, <3>7
      <4>3. Asked(r)' = Asked(r)
        BY <1>1 DEF Asked
      <4>4. RowsOf(S.files) + SumFunction([j \in Inserts(r) |-> Remaining(r, j)]) = Asked(r)
        BY <3>1 DEF Balanced, S
      <4> QED BY <3>6, <4>1, <4>2, <4>3, <4>4
    <3>21. Books(r)'
      <4>1. Staged(r)'.there /\ ~dropped'[r] /\ ~aborted'[r]
        BY <1>1, <1>7, <3>1, <3>6 DEF Balanced, S
      <4>2. (\A s, u \in DOMAIN idle[r] : \A k \in DOMAIN idle[r][s], l \in DOMAIN idle[r][u] :
               idle[r][s][k] = idle[r][u][l] => s = u /\ k = l)'
        BY <1>1, <3>1 DEF Balanced
      <4> QED BY <3>6, <3>14, <3>15, <3>16, <3>17, <3>18, <3>19, <3>20, <4>1, <4>2 DEF Books, Balanced
    <3> QED BY <1>1, <1>13, <2>2, <3>21, ReadingKeeps, PathFacts DEF Inserting
  <2> QED BY <2>1, <2>2
<1> QED BY <1>1, <1>12, <1>13, <1>14, InsertingOwn, OwnKeeps

\* An insert begins, with the last free part of its stream if there is one.
LEMMA BeginInsertKeeps ==
  ASSUME FInv, NEW r \in Runs, NEW i \in Inserts(r), BeginInsert(r, i)
  PROVE  FInv'
<1> DEFINE s == Stream(r, i)
           free == idle[r][s]
           part == IF free = <<>> THEN NoPart ELSE free[Len(free)]
           rest == IF free = <<>> THEN <<>> ELSE SubSeq(free, 1, Len(free) - 1)
           rows == plan[r].inserts[i].rows
           old == Part(r, part)
<1>1. /\ pc[r] = "read" /\ task[r][i].step = "queued"
      /\ task' = [task EXCEPT ![r][i] = [step |-> "writing", part |-> part, full |-> {}, left |-> rows]]
      /\ idle' = [idle EXCEPT ![r][s] = rest]
      /\ UNCHANGED <<plan, setting, folder, state, lock, target, pc, closed, next, dropped,
                     tries, aborted, undone, hidden, leaked, saver, faults>>
  BY DEF BeginInsert, files, commit, told
<1>2. TypedPlaces /\ TypedSteps /\ TypedWriters
  BY DEF FInv, Typed
<1>3. s \in DOMAIN idle[r] /\ free \in Seq(Open) /\ rows \in Nat
  BY <1>2, PlanFacts DEF TypedWriters
<1>4. /\ part \in Open /\ rest \in Seq(Open) /\ DOMAIN rest \subseteq DOMAIN free
      /\ \A k \in DOMAIN rest : rest[k] = free[k]
      /\ \A k \in DOMAIN free : k \in DOMAIN rest \/ (free # <<>> /\ k = Len(free) /\ free[k] = part)
      /\ free # <<>> => Len(free) \in DOMAIN free /\ Len(free) \notin DOMAIN rest
  <2>1. CASE free = <<>>
    BY <1>3, <2>1 DEF Open, NoPart
  <2>2. CASE free # <<>>
    <3>1. Len(free) \in Nat /\ Len(free) > 0 /\ DOMAIN free = 1..Len(free)
      BY <1>3, <2>2
    <3>2. rest \in Seq(Open) /\ Len(rest) = Len(free) - 1 /\ \A k \in 1..Len(free) - 1 : rest[k] = free[k]
      BY <1>3, <2>2, <3>1
    <3>3. part \in Open /\ part = free[Len(free)]
      BY <1>3, <2>2, <3>1
    <3>4. DOMAIN rest = 1..Len(free) - 1
      BY <3>2
    <3> HIDE DEF part, rest, free
    <3> QED BY <2>2, <3>1, <3>2, <3>3, <3>4
  <2> QED BY <2>1, <2>2
<1>5. /\ DOMAIN task' = Runs /\ (\A q \in Runs \ {r} : task'[q] = task[q])
      /\ DOMAIN task'[r] = Inserts(r)
      /\ (\A j \in Inserts(r) \ {i} : task'[r][j] = task[r][j])
      /\ task'[r][i] = [step |-> "writing", part |-> part, full |-> {}, left |-> rows]
  BY <1>1, <1>2 DEF TypedWriters
<1>6. /\ DOMAIN idle' = Runs /\ (\A q \in Runs \ {r} : idle'[q] = idle[q])
      /\ DOMAIN idle'[r] = DOMAIN idle[r]
      /\ (\A u \in DOMAIN idle[r] \ {s} : idle'[r][u] = idle[r][u]) /\ idle'[r][s] = rest
  BY <1>1, <1>2, <1>3 DEF TypedWriters
<1> HIDE DEF part, rest, free, s, rows
<1>7. task'[r][i] \in Task
  BY <1>3, <1>4, <1>5 DEF Task
<1>8. Typed'
  <2>1. \A q \in Runs : DOMAIN task'[q] = Inserts(q) /\ \A j \in Inserts(q) : task'[q][j] \in Task
    BY <1>2, <1>5, <1>7 DEF TypedWriters
  <2>2. \A q \in Runs : DOMAIN idle'[q] = DOMAIN idle[q] /\ \A u \in DOMAIN idle[q] : idle'[q][u] \in Seq(Open)
    BY <1>2, <1>4, <1>6 DEF TypedWriters
  <2>3. TypedWriters'
    BY <1>1, <1>2, <1>5, <1>6, <2>1, <2>2, WritersChange DEF TypedWriters
  <2>4. TypedSteps'
    BY <1>1, <1>2, KeysKept DEF TypedSteps
  <2> QED BY <1>1, <1>2, <2>3, <2>4, PlacesKept DEF Typed
<1>9. Inserting(r, i)
  BY <1>1, <1>5, <1>6 DEF Inserting
<1>10. Books(r)'
  <2>1. Balanced(r)
    BY <1>1, BooksAre
  <2>2. Staged(r)' = Staged(r) /\ Inserts(r)' = Inserts(r)
    BY <1>1 DEF Staged, Staging, Inserts
  <2>3. \A j \in Inserts(r) \ {i} :
          /\ Writing(r, j)' <=> Writing(r, j)
          /\ Writes1(r, j)' <=> Writes1(r, j)
          /\ task'[r][j].full = task[r][j].full
          /\ OpenPart1(r, j)' = OpenPart1(r, j)
    BY <1>1, <1>5 DEF Writing, Writes1, OpenPart1, Part
  <2>4. /\ ~Writing(r, i) /\ Writing(r, i)' /\ ~Writes1(r, i) /\ (Writes1(r, i)' <=> part # NoPart)
        /\ OpenPart1(r, i)' = old /\ task'[r][i].full = {}
    BY <1>1, <1>5 DEF Writing, Writes1, OpenPart1, Part
  <2>5. FullParts(r)' = FullParts(r)
    <3>1. FullParts(r)' = UNION {task'[r][j].full : j \in {k \in Inserts(r) : Writing(r, k)'}}
      BY <2>2 DEF FullParts
    <3>2. FullParts(r) = UNION {task[r][j].full : j \in {k \in Inserts(r) : Writing(r, k)}}
      BY DEF FullParts
    <3> QED BY <2>3, <2>4, <3>1, <3>2
  <2>6. OpenParts(r)' = OpenParts(r) \cup (IF part = NoPart THEN {} ELSE {old})
    <3>1. OpenParts(r)' = {OpenPart1(r, j)' : j \in {k \in Inserts(r) : Writes1(r, k)'}}
      BY <2>2 DEF OpenParts
    <3>2. OpenParts(r) = {OpenPart1(r, j) : j \in {k \in Inserts(r) : Writes1(r, k)}}
      BY DEF OpenParts
    <3> QED BY <2>3, <2>4, <3>1, <3>2
  <2>7. \A u, v \in DOMAIN idle[r] : \A k \in DOMAIN idle[r][u], l \in DOMAIN idle[r][v] :
          idle[r][u][k] = idle[r][v][l] => u = v /\ k = l
    BY <2>1 DEF Balanced
  <2>8. \A p, q : Part(r, p) = Part(r, q) /\ p \in Open /\ q \in Open => p = q
    BY DEF Part, Open
  <2>9. \A u \in DOMAIN idle[r] : \A k \in DOMAIN idle'[r][u] :
          k \in DOMAIN idle[r][u] /\ idle'[r][u][k] = idle[r][u][k]
    BY <1>4, <1>6 DEF free
  <2>10. /\ \A f \in IdleParts(r) : \E u \in DOMAIN idle[r] : \E k \in DOMAIN idle[r][u] :
                                      f = Part(r, idle[r][u][k])
         /\ \A u \in DOMAIN idle[r] : \A k \in DOMAIN idle[r][u] : Part(r, idle[r][u][k]) \in IdleParts(r)
         /\ \A f \in IdleParts(r)' : \E u \in DOMAIN idle[r] : \E k \in DOMAIN idle'[r][u] :
                                      f = Part(r, idle'[r][u][k])
         /\ \A u \in DOMAIN idle[r] : \A k \in DOMAIN idle'[r][u] : Part(r, idle'[r][u][k]) \in IdleParts(r)'
    BY <1>6 DEF IdleParts, Part
  <2>11. \A u \in DOMAIN idle[r] : \A k \in DOMAIN idle[r][u] : idle[r][u][k] \in Open
    BY <1>2 DEF TypedWriters
  <2>12. free # <<>> => old \in IdleParts(r) /\ part = idle[r][s][Len(free)]
    BY <1>3, <1>4, <2>10 DEF free
  <2>13. free # <<>> => old \notin IdleParts(r)'
    <3> SUFFICES ASSUME free # <<>>, old \in IdleParts(r)' PROVE FALSE
      OBVIOUS
    <3>1. PICK u \in DOMAIN idle[r] : \E k \in DOMAIN idle'[r][u] : old = Part(r, idle'[r][u][k])
      BY <2>10
    <3>2. PICK k \in DOMAIN idle'[r][u] : old = Part(r, idle'[r][u][k])
      BY <3>1
    <3>3. k \in DOMAIN idle[r][u] /\ idle'[r][u][k] = idle[r][u][k]
      BY <2>9, <3>1, <3>2
    <3>4. idle[r][u][k] = part
      BY <1>4, <2>8, <2>11, <3>2, <3>3
    <3>5. Len(free) \in DOMAIN idle[r][s] /\ idle[r][s][Len(free)] = part
      BY <1>4, <2>12 DEF free
    <3>6. u = s /\ k = Len(free)
      BY <1>3, <2>7, <3>3, <3>4, <3>5
    <3> QED BY <1>4, <1>6, <3>2, <3>6
  <2>14. IdleParts(r)' \subseteq IdleParts(r)
    BY <2>9, <2>10
  <2>15. IdleParts(r) \subseteq IdleParts(r)' \cup (IF free = <<>> THEN {} ELSE {old})
    <3> SUFFICES ASSUME NEW f \in IdleParts(r) PROVE f \in IdleParts(r)' \/ (free # <<>> /\ f = old)
      OBVIOUS
    <3>1. PICK u \in DOMAIN idle[r] : \E k \in DOMAIN idle[r][u] : f = Part(r, idle[r][u][k])
      BY <2>10
    <3>2. PICK k \in DOMAIN idle[r][u] : f = Part(r, idle[r][u][k])
      BY <3>1
    <3>3. CASE k \in DOMAIN idle'[r][u]
      BY <2>9, <2>10, <3>2, <3>3
    <3>4. CASE k \notin DOMAIN idle'[r][u]
      <4>1. u = s
        BY <1>6, <3>2, <3>4
      <4>2. k \in DOMAIN free /\ k \notin DOMAIN rest
        BY <1>6, <3>2, <3>4, <4>1 DEF free
      <4> QED BY <1>4, <3>2, <4>1, <4>2 DEF free
    <3> QED BY <3>3, <3>4
  <2>16. part # NoPart <=> free # <<>>
    <3>1. IdleParts(r) \subseteq Staged(r).files /\ \A f \in Staged(r).files : f.n \in 0..(next[r] - 1)
      BY <2>1 DEF Balanced
    <3>2. free # <<>> => part.n >= 0
      BY <1>2, <1>4, <2>12, <3>1 DEF Part, TypedWriters, Open
    <3> QED BY <3>2 DEF NoPart, part
  <2>17. /\ OpenParts(r) \cap (closed[r] \cup IdleParts(r) \cup FullParts(r)) = {}
         /\ IdleParts(r) \cap (closed[r] \cup FullParts(r)) = {}
         /\ Staged(r).files = closed[r] \cup IdleParts(r) \cup FullParts(r) \cup OpenParts(r)
    BY <2>1 DEF Balanced
  <2>18. (Staged(r).files = closed[r] \cup IdleParts(r) \cup FullParts(r) \cup OpenParts(r))'
    BY <1>1, <2>2, <2>5, <2>6, <2>12, <2>14, <2>15, <2>16, <2>17
  <2>19. (OpenParts(r) \cap (closed[r] \cup IdleParts(r) \cup FullParts(r)) = {})'
    BY <1>1, <2>5, <2>6, <2>12, <2>13, <2>14, <2>16, <2>17
  <2>20. (IdleParts(r) \cap (closed[r] \cup FullParts(r)) = {})'
    BY <1>1, <2>5, <2>14, <2>17
  <2>21. (\A j, k \in Inserts(r) :
            Writes1(r, j) /\ Writes1(r, k) /\ OpenPart1(r, j) = OpenPart1(r, k) => j = k)'
    <3>1. \A j \in Inserts(r) : Writes1(r, j) => OpenPart1(r, j) \in OpenParts(r)
      BY DEF OpenParts
    <3>2. \A j, k \in Inserts(r) :
            Writes1(r, j) /\ Writes1(r, k) /\ OpenPart1(r, j) = OpenPart1(r, k) => j = k
      BY <2>1 DEF Balanced
    <3>3. \A j \in Inserts(r) \ {i} : Writes1(r, i)' /\ Writes1(r, j)' => OpenPart1(r, j)' # old
      BY <2>3, <2>4, <2>12, <2>16, <2>17, <3>1
    <3> QED BY <2>2, <2>3, <2>4, <3>2, <3>3
  <2>22. (\A u, v \in DOMAIN idle[r] : \A k \in DOMAIN idle[r][u], l \in DOMAIN idle[r][v] :
            idle[r][u][k] = idle[r][v][l] => u = v /\ k = l)'
    BY <1>6, <2>7, <2>9
  <2>23. (RowsOf(Staged(r).files) + SumFunction([j \in Inserts(r) |-> Remaining(r, j)]) = Asked(r))'
    <3>1. \A j \in Inserts(r) : Remaining(r, j)' = Remaining(r, j)
      BY <1>1, <1>5 DEF Remaining, rows
    <3>2. [j \in Inserts(r) |-> Remaining(r, j)]' = [j \in Inserts(r) |-> Remaining(r, j)]
      BY <2>2, <3>1
    <3>3. Asked(r)' = Asked(r)
      BY <1>1 DEF Asked
    <3> QED BY <2>1, <2>2, <3>2, <3>3 DEF Balanced
  <2>24. (/\ Staged(r).there /\ ~dropped[r] /\ ~aborted[r]
          /\ \A f \in Staged(r).files : f.run = r /\ f.n \in 0..(next[r] - 1)
          /\ \A f, h \in Staged(r).files : f.n = h.n => f = h)'
    BY <1>1, <2>1, <2>2 DEF Balanced
  <2> QED BY <2>18, <2>19, <2>20, <2>21, <2>22, <2>23, <2>24 DEF Books, Balanced
<1> QED BY <1>1, <1>8, <1>9, <1>10, InsertingOwn, OwnKeeps, ReadingKeeps

\* An insert ends: its parts are closed, or free for the next one.
LEMMA EndInsertKeeps ==
  ASSUME FInv, NEW r \in Runs, NEW i \in Inserts(r), EndInsert(r, i)
  PROVE  FInv'
<1> DEFINE t == task[r][i]
           s == Stream(r, i)
           old == Part(r, t.part)
           more == IF t.part = NoPart THEN idle[r][s] ELSE Append(idle[r][s], t.part)
<1>1. /\ t.step = "writing" /\ t.left = 0
      /\ task' = [task EXCEPT ![r][i].step = "done"]
      /\ UNCHANGED <<plan, setting, folder, state, lock, target, pc, next, dropped,
                     tries, aborted, undone, hidden, leaked, saver, faults>>
      /\ aborted[r] => UNCHANGED <<idle, closed>>
  BY DEF EndInsert, files, commit, told
<1>2. ~aborted[r] => /\ closed' = [closed EXCEPT ![r] = closed[r] \cup t.full]
                     /\ idle' = [idle EXCEPT ![r][s] = more]
  BY DEF EndInsert
<1>3. TypedPlaces /\ TypedSteps /\ TypedWriters
  BY DEF FInv, Typed
<1>4. /\ t \in Task /\ t.part \in Open /\ t.full \subseteq OnDisk
      /\ s \in DOMAIN idle[r] /\ idle[r][s] \in Seq(Open)
  BY <1>3 DEF TypedWriters, Task
<1>5. /\ more \in Seq(Open)
      /\ DOMAIN idle[r][s] \subseteq DOMAIN more /\ \A k \in DOMAIN idle[r][s] : more[k] = idle[r][s][k]
      /\ t.part = NoPart => DOMAIN more = DOMAIN idle[r][s]
      /\ t.part # NoPart =>
           /\ Len(idle[r][s]) + 1 \in DOMAIN more /\ more[Len(idle[r][s]) + 1] = t.part
           /\ \A k \in DOMAIN more : k \in DOMAIN idle[r][s] \/ k = Len(idle[r][s]) + 1
           /\ Len(idle[r][s]) + 1 \notin DOMAIN idle[r][s]
  <2> DEFINE free == idle[r][s]
             part == t.part
  <2>1. free \in Seq(Open) /\ part \in Open
    BY <1>4
  <2>2. more = IF part = NoPart THEN free ELSE Append(free, part)
    OBVIOUS
  <2> HIDE DEF free, part, more
  <2>3. CASE part = NoPart
    BY <2>1, <2>2, <2>3 DEF free, part
  <2>4. CASE part # NoPart
    <3>1. /\ more \in Seq(Open) /\ Len(more) = Len(free) + 1 /\ Len(free) \in Nat
          /\ DOMAIN free = 1..Len(free) /\ DOMAIN more = 1..Len(free) + 1
          /\ \A k \in 1..Len(free) : more[k] = free[k]
          /\ more[Len(free) + 1] = part
      BY <2>1, <2>2, <2>4
    <3> QED BY <2>4, <3>1 DEF free, part
  <2> QED BY <2>3, <2>4
<1>6. /\ DOMAIN task' = Runs /\ (\A q \in Runs \ {r} : task'[q] = task[q])
      /\ DOMAIN task'[r] = Inserts(r)
      /\ (\A j \in Inserts(r) \ {i} : task'[r][j] = task[r][j])
      /\ task'[r][i] = [t EXCEPT !.step = "done"]
  BY <1>1, <1>3 DEF TypedWriters
<1>7. /\ task'[r][i] \in Task /\ task'[r][i].step = "done"
  BY <1>4, <1>6 DEF Task
<1>8. /\ DOMAIN idle' = Runs /\ (\A q \in Runs \ {r} : idle'[q] = idle[q])
      /\ DOMAIN idle'[r] = DOMAIN idle[r] /\ (\A u \in DOMAIN idle[r] \ {s} : idle'[r][u] = idle[r][u])
      /\ idle'[r][s] \in Seq(Open) /\ (~aborted[r] => idle'[r][s] = more)
      /\ closed' \in [Runs -> SUBSET OnDisk] /\ (\A q \in Runs \ {r} : closed'[q] = closed[q])
      /\ (~aborted[r] => closed'[r] = closed[r] \cup t.full)
  <2>1. CASE aborted[r]
    BY <1>1, <1>3, <1>4, <2>1 DEF TypedWriters
  <2>2. CASE ~aborted[r]
    <3>1. closed[r] \cup t.full \in SUBSET OnDisk
      BY <1>3, <1>4 DEF TypedWriters
    <3> HIDE DEF more, t, s
    <3>2. closed' \in [Runs -> SUBSET OnDisk] /\ (\A q \in Runs \ {r} : closed'[q] = closed[q])
          /\ closed'[r] = closed[r] \cup t.full
      BY <1>2, <1>3, <2>2, <3>1 DEF TypedWriters
    <3>3. /\ DOMAIN idle' = Runs /\ (\A q \in Runs \ {r} : idle'[q] = idle[q])
          /\ DOMAIN idle'[r] = DOMAIN idle[r]
          /\ (\A u \in DOMAIN idle[r] \ {s} : idle'[r][u] = idle[r][u]) /\ idle'[r][s] = more
      BY <1>2, <1>3, <1>4, <2>2 DEF TypedWriters
    <3> QED BY <1>5, <3>2, <3>3
  <2> QED BY <2>1, <2>2
<1> HIDE DEF more, old, s
<1>9. Typed'
  <2>1. \A q \in Runs : DOMAIN task'[q] = Inserts(q) /\ \A j \in Inserts(q) : task'[q][j] \in Task
    BY <1>3, <1>6, <1>7 DEF TypedWriters
  <2>2. \A q \in Runs : DOMAIN idle'[q] = DOMAIN idle[q] /\ \A u \in DOMAIN idle[q] : idle'[q][u] \in Seq(Open)
    BY <1>3, <1>8 DEF TypedWriters
  <2>3. TypedWriters'
    BY <1>1, <1>3, <1>6, <1>8, <2>1, <2>2, WritersChange DEF TypedWriters
  <2>4. TypedSteps'
    BY <1>1, <1>3, KeysKept DEF TypedSteps
  <2> QED BY <1>1, <1>3, <2>3, <2>4, PlacesKept DEF Typed
<1>10. Inserting(r, i)
  BY <1>1, <1>6, <1>8 DEF Inserting
<1>11. ASSUME pc[r] = "read" PROVE Books(r)'
  <2>1. Balanced(r) /\ ~aborted[r]
    BY <1>11, BooksAre DEF Balanced
  <2>2. Staged(r)' = Staged(r) /\ Inserts(r)' = Inserts(r)
    BY <1>1 DEF Staged, Staging, Inserts
  <2>3. \A j \in Inserts(r) \ {i} :
          /\ Writing(r, j)' <=> Writing(r, j)
          /\ Writes1(r, j)' <=> Writes1(r, j)
          /\ task'[r][j].full = task[r][j].full
          /\ OpenPart1(r, j)' = OpenPart1(r, j)
          /\ Remaining(r, j)' = Remaining(r, j)
    BY <1>1, <1>6 DEF Writing, Writes1, OpenPart1, Part, Remaining
  <2>4. /\ Writing(r, i) /\ ~Writing(r, i)' /\ ~Writes1(r, i)' /\ (Writes1(r, i) <=> t.part # NoPart)
        /\ OpenPart1(r, i) = old
    BY <1>1, <1>7 DEF Writing, Writes1, OpenPart1, old
  <2>5. FullParts(r)' \subseteq FullParts(r) /\ FullParts(r) \subseteq FullParts(r)' \cup t.full
        /\ t.full \subseteq FullParts(r)
    <3>1. FullParts(r)' = UNION {task'[r][j].full : j \in {k \in Inserts(r) : Writing(r, k)'}}
      BY <2>2 DEF FullParts
    <3>2. FullParts(r) = UNION {task[r][j].full : j \in {k \in Inserts(r) : Writing(r, k)}}
      BY DEF FullParts
    <3> QED BY <2>3, <2>4, <3>1, <3>2
  <2>6. closed'[r] \cup FullParts(r)' = closed[r] \cup FullParts(r)
    BY <1>8, <2>1, <2>5
  <2>7. \A j, k \in Inserts(r) :
          Writes1(r, j) /\ Writes1(r, k) /\ OpenPart1(r, j) = OpenPart1(r, k) => j = k
    BY <2>1 DEF Balanced
  <2>8. OpenParts(r)' = IF t.part = NoPart THEN OpenParts(r) ELSE OpenParts(r) \ {old}
    <3>1. OpenParts(r)' = {OpenPart1(r, j)' : j \in {k \in Inserts(r) : Writes1(r, k)'}}
      BY <2>2 DEF OpenParts
    <3>2. OpenParts(r) = {OpenPart1(r, j) : j \in {k \in Inserts(r) : Writes1(r, k)}}
      BY DEF OpenParts
    <3> QED BY <2>3, <2>4, <2>7, <3>1, <3>2
  <2>9. t.part # NoPart => old \in OpenParts(r)
    BY <2>4 DEF OpenParts
  <2>10. /\ \A f \in IdleParts(r) : \E u \in DOMAIN idle[r] : \E k \in DOMAIN idle[r][u] :
                                      f = Part(r, idle[r][u][k])
         /\ \A u \in DOMAIN idle[r] : \A k \in DOMAIN idle[r][u] : Part(r, idle[r][u][k]) \in IdleParts(r)
         /\ \A f \in IdleParts(r)' : \E u \in DOMAIN idle[r] : \E k \in DOMAIN idle'[r][u] :
                                      f = Part(r, idle'[r][u][k])
         /\ \A u \in DOMAIN idle[r] : \A k \in DOMAIN idle'[r][u] : Part(r, idle'[r][u][k]) \in IdleParts(r)'
    BY <1>8 DEF IdleParts, Part
  <2>11. /\ \A u \in DOMAIN idle[r] : \A k \in DOMAIN idle[r][u] :
              k \in DOMAIN idle'[r][u] /\ idle'[r][u][k] = idle[r][u][k]
         /\ \A u \in DOMAIN idle[r] : \A k \in DOMAIN idle'[r][u] :
              \/ k \in DOMAIN idle[r][u]
              \/ t.part # NoPart /\ u = s /\ k = Len(idle[r][s]) + 1 /\ idle'[r][u][k] = t.part
         /\ t.part # NoPart => /\ Len(idle[r][s]) + 1 \in DOMAIN idle'[r][s]
                               /\ idle'[r][s][Len(idle[r][s]) + 1] = t.part
    BY <1>5, <1>8, <2>1
  <2>12. IdleParts(r)' = IdleParts(r) \cup (IF t.part = NoPart THEN {} ELSE {old})
    <3>1. IdleParts(r) \subseteq IdleParts(r)'
      BY <2>10, <2>11
    <3>2. t.part # NoPart => old \in IdleParts(r)'
      BY <1>4, <2>10, <2>11 DEF old
    <3>3. ASSUME NEW f \in IdleParts(r)' PROVE f \in IdleParts(r) \/ (t.part # NoPart /\ f = old)
      <4>1. PICK u \in DOMAIN idle[r] : \E k \in DOMAIN idle'[r][u] : f = Part(r, idle'[r][u][k])
        BY <2>10, <3>3
      <4>2. PICK k \in DOMAIN idle'[r][u] : f = Part(r, idle'[r][u][k])
        BY <4>1
      <4> QED BY <2>10, <2>11, <4>2 DEF old
    <3> QED BY <3>1, <3>2, <3>3
  <2>13. /\ OpenParts(r) \cap (closed[r] \cup IdleParts(r) \cup FullParts(r)) = {}
         /\ IdleParts(r) \cap (closed[r] \cup FullParts(r)) = {}
         /\ Staged(r).files = closed[r] \cup IdleParts(r) \cup FullParts(r) \cup OpenParts(r)
    BY <2>1 DEF Balanced
  <2>14. (Staged(r).files = closed[r] \cup IdleParts(r) \cup FullParts(r) \cup OpenParts(r))'
    BY <2>2, <2>6, <2>8, <2>9, <2>12, <2>13
  <2>15. (OpenParts(r) \cap (closed[r] \cup IdleParts(r) \cup FullParts(r)) = {})'
    BY <2>6, <2>8, <2>9, <2>12, <2>13
  <2>16. (IdleParts(r) \cap (closed[r] \cup FullParts(r)) = {})'
    BY <2>6, <2>9, <2>12, <2>13
  <2>17. (\A j, k \in Inserts(r) :
            Writes1(r, j) /\ Writes1(r, k) /\ OpenPart1(r, j) = OpenPart1(r, k) => j = k)'
    BY <2>2, <2>3, <2>4, <2>7
  <2>18. (\A u, v \in DOMAIN idle[r] : \A k \in DOMAIN idle[r][u], l \in DOMAIN idle[r][v] :
            idle[r][u][k] = idle[r][v][l] => u = v /\ k = l)'
    <3>1. \A u, v \in DOMAIN idle[r] : \A k \in DOMAIN idle[r][u], l \in DOMAIN idle[r][v] :
            idle[r][u][k] = idle[r][v][l] => u = v /\ k = l
      BY <2>1 DEF Balanced
    <3>2. t.part # NoPart =>
            \A u \in DOMAIN idle[r] : \A k \in DOMAIN idle[r][u] : idle[r][u][k] # t.part
      BY <2>9, <2>10, <2>13 DEF old
    <3>3. ASSUME NEW u \in DOMAIN idle[r], NEW v \in DOMAIN idle[r],
                 NEW k \in DOMAIN idle'[r][u], NEW l \in DOMAIN idle'[r][v],
                 idle'[r][u][k] = idle'[r][v][l]
          PROVE  u = v /\ k = l
      <4>1. CASE k \in DOMAIN idle[r][u] /\ l \in DOMAIN idle[r][v]
        BY <2>11, <3>1, <3>3, <4>1
      <4>2. CASE k \in DOMAIN idle[r][u] /\ l \notin DOMAIN idle[r][v]
        BY <2>11, <3>2, <3>3, <4>2
      <4>3. CASE k \notin DOMAIN idle[r][u] /\ l \in DOMAIN idle[r][v]
        BY <2>11, <3>2, <3>3, <4>3
      <4>4. CASE k \notin DOMAIN idle[r][u] /\ l \notin DOMAIN idle[r][v]
        BY <2>11, <4>4
      <4> QED BY <4>1, <4>2, <4>3, <4>4
    <3> QED BY <1>8, <3>3
  <2>19. (RowsOf(Staged(r).files) + SumFunction([j \in Inserts(r) |-> Remaining(r, j)]) = Asked(r))'
    <3>1. \A j \in Inserts(r) : Remaining(r, j)' = Remaining(r, j)
      BY <1>1, <1>7, <2>3 DEF Remaining
    <3>2. [j \in Inserts(r) |-> Remaining(r, j)]' = [j \in Inserts(r) |-> Remaining(r, j)]
      BY <2>2, <3>1
    <3>3. Asked(r)' = Asked(r)
      BY <1>1 DEF Asked
    <3> QED BY <2>1, <2>2, <3>2, <3>3 DEF Balanced
  <2>20. (/\ Staged(r).there /\ ~dropped[r] /\ ~aborted[r]
          /\ \A f \in Staged(r).files : f.run = r /\ f.n \in 0..(next[r] - 1)
          /\ \A f, h \in Staged(r).files : f.n = h.n => f = h)'
    BY <1>1, <2>1, <2>2 DEF Balanced
  <2> QED BY <2>14, <2>15, <2>16, <2>17, <2>18, <2>19, <2>20 DEF Books, Balanced
<1>12. RunInv(r)'
  <2>1. CASE pc[r] # "read"
    BY <1>1, <1>10, <2>1, LateInsert DEF Staged
  <2>2. CASE pc[r] = "read"
    BY <1>1, <1>11, <2>2, ReadingKeeps
  <2> QED BY <2>1, <2>2
<1> QED BY <1>1, <1>9, <1>10, <1>12, InsertingOwn, OwnKeeps

-----------------------------------------------------------------------------
(* The end of the read, and cleaning up.                                   *)

\* A run that fails goes to drop what it staged.
LEMMA AbortKeeps ==
  ASSUME FInv, NEW r \in Runs, pc[r] \in {"read", "commit"}, Abort(r), faults' \in 0..MaxFaults,
         UNCHANGED <<plan, setting, folder, state, lock, target, task, idle, closed, next, dropped,
                     tries, undone, hidden, leaked, saver>>
  PROVE  FInv'
<1>1. pc' = [pc EXCEPT ![r] = "drop"] /\ aborted' = [aborted EXCEPT ![r] = TRUE]
  BY DEF Abort, Goto
<1>2. TypedPlaces /\ TypedSteps /\ TypedWriters
  BY DEF FInv, Typed
<1>3. "drop" \in Steps
  BY DEF Steps
<1>4. aborted' \in [Runs -> BOOLEAN] /\ aborted'[r] = TRUE /\ \A q \in Runs \ {r} : aborted'[q] = aborted[q]
  BY <1>1, <1>2 DEF TypedSteps
<1>5. TypedSteps' /\ pc'[r] = "drop" /\ \A q \in Runs \ {r} : pc'[q] = pc[q]
  BY <1>1, <1>2, <1>3, <1>4, StepsGo DEF TypedSteps
<1>6. Typed'
  BY <1>2, <1>5, PlacesKept, WritersKept DEF Typed
<1>7. Own(r)
  <2>1. OthersKept(r) /\ TableKept
    BY <1>4, <1>5 DEF OthersKept, Mine, TableKept
  <2>2. Onward(r)
    BY <1>5 DEF Onward, Locked, Before, Early, Over
  <2> QED BY <2>1, <2>2 DEF Own
<1>8. RunInv(r)'
  BY <1>4, <1>5 DEF RunInv, Fresh, Books, Ready, Committing, Cleaned, Early, Before
<1> QED BY <1>6, <1>7, <1>8, OwnKeeps

\* The read fails, of itself or of an insert.
LEMMA ReadFailsKeeps ==
  ASSUME FInv, NEW r \in Runs, ReadFails(r)
  PROVE  FInv'
<1>1. faults' \in 0..MaxFaults
  <2>1. Fault \/ UNCHANGED faults
    BY DEF ReadFails
  <2> QED BY <2>1, FaultTyped DEF FInv, Typed, TypedSteps
<1> QED BY <1>1, AbortKeeps DEF ReadFails, files, commit, writes

\* The commit is refused under the lock: the folder is not what it was.
LEMMA RefuseCommitKeeps ==
  ASSUME FInv, NEW r \in Runs, RefuseCommit(r)
  PROVE  FInv'
<1>1. faults' \in 0..MaxFaults
  BY DEF RefuseCommit, told, FInv, Typed, TypedSteps
<1> QED BY <1>1, AbortKeeps DEF RefuseCommit, files, commit, writes, told

\* The free parts go.
Emptied(r) == idle' = [idle EXCEPT ![r] = [s \in DOMAIN @ |-> <<>>]]

\* The types hold when a run's free parts are let go.
LEMMA EmptiedTyped ==
  ASSUME TypedWriters, NEW r \in Runs, Emptied(r)
  PROVE  /\ DOMAIN idle' = Runs /\ \A q \in Runs \ {r} : idle'[q] = idle[q]
         /\ \A q \in Runs : DOMAIN idle'[q] = DOMAIN idle[q]
                            /\ \A s \in DOMAIN idle[q] : idle'[q][s] \in Seq(Open)
<1>1. /\ DOMAIN idle' = Runs /\ \A q \in Runs \ {r} : idle'[q] = idle[q]
      /\ idle'[r] = [s \in DOMAIN idle[r] |-> <<>>]
  BY DEF TypedWriters, Emptied
<1>2. <<>> \in Seq(Open)
  OBVIOUS
<1> QED BY <1>1, <1>2 DEF TypedWriters

\* finalize: the parts of the run are in its staging folder, and all listed.
LEMMA FinalizeKeeps ==
  ASSUME FInv, NEW r \in Runs, Finalize(r)
  PROVE  FInv'
<1> DEFINE S == Staged(r)
           P == Parts(r)
           g == Holding(S.files \cup P, Columns(r, P))
           header == Part(r, [n |-> next[r], rows |-> 0])
<1>1. /\ pc[r] = "read" /\ \A i \in Inserts(r) : task[r][i].step = "done"
      /\ folder' = [folder EXCEPT ![Staging(r)] = g]
      /\ closed' = [closed EXCEPT ![r] = P] /\ Emptied(r)
      /\ pc' = [pc EXCEPT ![r] = "commit"]
      /\ UNCHANGED <<plan, setting, state, lock, target, task, next, dropped,
                     tries, aborted, undone, hidden, leaked, saver, faults>>
  BY DEF Finalize, commit, told, At, Goto, Staged, Emptied
<1>2. TypedPlaces /\ TypedSteps /\ TypedWriters /\ Balanced(r)
  BY <1>1, BooksAre
<1>3. S.files = AllParts(r) /\ IsFiniteSet(S.files) /\ S.files \subseteq OnDisk
  <2>1. FullParts(r) = {} /\ OpenParts(r) = {}
    BY <1>1 DEF FullParts, OpenParts, Writing, Writes1
  <2> QED BY <1>1, <1>2, <2>1, PartsTyped DEF Balanced, AllParts
<1>4. \A f \in S.files : f.run = r
  BY <1>2 DEF Balanced
<1>5. RowsOf(S.files) = Asked(r)
  <2>1. \A i \in Inserts(r) : Remaining(r, i) = 0
    BY <1>1 DEF Remaining
  <2>2. SumFunction([i \in Inserts(r) |-> Remaining(r, i)]) = 0
    <3> DEFINE f == [i \in Inserts(r) |-> Remaining(r, i)]
    <3>1. IsFiniteSet(Inserts(r))
      BY <1>2, PlanFacts
    <3>2. f = [i \in Inserts(r) |-> 0]
      BY <2>1
    <3> HIDE DEF f
    <3> QED BY <3>1, <3>2, SumZeros DEF f
  <2>3. RowsOf(S.files) + SumFunction([i \in Inserts(r) |-> Remaining(r, i)]) = Asked(r)
    BY <1>2 DEF Balanced
  <2>4. RowsOf(S.files) \in Nat
    BY <1>3, RowsType
  <2> QED BY <2>2, <2>3, <2>4
<1>6. header \in OnDisk /\ header.rows = 0 /\ header.run = r
  BY <1>2 DEF Part, OnDisk, TypedWriters
<1>7. /\ S.files \subseteq P /\ P \subseteq OnDisk /\ IsFiniteSet(P) /\ (\A f \in P : f.run = r)
      /\ RowsOf(P) = Asked(r) /\ (plan[r].mode = "full" => P # {})
  <2>1. CASE AllParts(r) = {} /\ plan[r].mode = "full"
    <3>1. P = {header} /\ S.files = {}
      BY <1>3, <2>1 DEF Parts
    <3>2. IsFiniteSet({header}) /\ RowsOf({header}) = 0
      BY <1>6, FS_Singleton, RowsOne
    <3> QED BY <1>5, <1>6, <3>1, <3>2, RowsNone
  <2>2. CASE ~(AllParts(r) = {} /\ plan[r].mode = "full")
    BY <1>3, <1>4, <1>5, <2>2 DEF Parts
  <2> QED BY <2>1, <2>2
<1> HIDE DEF P, S
<1>8. g = Holding(P, Columns(r, P)) /\ Real(g)
  <2>1. S.files \cup P = P
    BY <1>7
  <2> QED BY <1>2, <1>7, <2>1, PlanFacts DEF Real, Holding, Columns, Folder, Manifest
<1> HIDE DEF g
<1>9. TypedPlaces' /\ folder'[Staging(r)] = g /\ \A p \in Paths \ {Staging(r)} : folder'[p] = folder[p]
  BY <1>1, <1>2, <1>8, PathFacts, PlacesPut
<1>10. "commit" \in Steps
  BY DEF Steps, Before
<1>11. TypedSteps' /\ pc'[r] = "commit" /\ \A q \in Runs \ {r} : pc'[q] = pc[q]
  BY <1>1, <1>2, <1>10, StepsGo DEF TypedSteps
<1>12. /\ DOMAIN idle' = Runs /\ \A q \in Runs \ {r} : idle'[q] = idle[q]
       /\ \A q \in Runs : DOMAIN idle'[q] = DOMAIN idle[q]
                            /\ \A s \in DOMAIN idle[q] : idle'[q][s] \in Seq(Open)
  BY <1>1, <1>2, EmptiedTyped
<1>13. closed' \in [Runs -> SUBSET OnDisk] /\ closed'[r] = P /\ \A q \in Runs \ {r} : closed'[q] = closed[q]
  BY <1>1, <1>2, <1>7 DEF TypedWriters
<1>14. Typed'
  BY <1>1, <1>2, <1>9, <1>11, <1>12, <1>13, WritersChange DEF Typed, TypedWriters
<1>15. /\ folder'[Dest] = folder[Dest] /\ \A q \in Runs : folder'[Aside(q)] = folder[Aside(q)]
       /\ \A q \in Runs \ {r} : folder'[Staging(q)] = folder[Staging(q)]
  BY <1>9, PathFacts
<1>16. Own(r)
  <2>1. OthersKept(r) /\ TableKept
    BY <1>1, <1>11, <1>12, <1>13, <1>15 DEF OthersKept, Mine, TableKept, Staging, Aside, Dest
  <2>2. Onward(r)
    BY <1>1, <1>11 DEF Onward, Locked, Before, Early, Over
  <2> QED BY <2>1, <2>2 DEF Own
<1>17. RunInv(r)'
  <2>1. Staged(r)' = Holding(P, Columns(r, P)) /\ Inserts(r)' = Inserts(r) /\ Asked(r)' = Asked(r)
    BY <1>1, <1>8, <1>9 DEF Staged, Staging, Inserts, Asked
  <2>2. ~aborted'[r]
    BY <1>1, <1>2 DEF Balanced
  <2>4. Ready(r)'
    <3>1. Columns(r, closed[r])' = Columns(r, P)
      BY <1>1, <1>13 DEF Columns
    <3> QED BY <1>1, <1>7, <1>11, <1>13, <2>1, <2>2, <3>1 DEF Ready, Holding
  <2>5. folder'[Aside(r)] = Missing
    BY <1>1, <1>15 DEF FInv, RunInv, Committing, Before
  <2> QED BY <1>11, <2>4, <2>5 DEF RunInv, Fresh, Books, Committing, Cleaned, Early, Aside
<1> QED BY <1>1, <1>14, <1>16, <1>17, OwnKeeps

\* drop_table: nothing more may be opened.
LEMMA DropKeeps ==
  ASSUME FInv, NEW r \in Runs, Drop(r)
  PROVE  FInv'
<1>1. /\ pc[r] = "drop" /\ pc' = [pc EXCEPT ![r] = "unlink"]
      /\ dropped' = [dropped EXCEPT ![r] = TRUE] /\ Emptied(r)
      /\ UNCHANGED <<plan, setting, folder, state, lock, target, task, closed, next,
                     tries, aborted, undone, hidden, leaked, saver, faults>>
  BY DEF Drop, Goto, Emptied, files, commit, told
<1>2. TypedPlaces /\ TypedSteps /\ TypedWriters
  BY DEF FInv, Typed
<1>3. "unlink" \in Steps
  BY DEF Steps
<1>4. TypedSteps' /\ pc'[r] = "unlink" /\ \A q \in Runs \ {r} : pc'[q] = pc[q]
  BY <1>1, <1>2, <1>3, StepsGo DEF TypedSteps
<1>5. /\ DOMAIN idle' = Runs /\ \A q \in Runs \ {r} : idle'[q] = idle[q]
      /\ \A q \in Runs : DOMAIN idle'[q] = DOMAIN idle[q]
                            /\ \A s \in DOMAIN idle[q] : idle'[q][s] \in Seq(Open)
  BY <1>1, <1>2, EmptiedTyped
<1>6. dropped' \in [Runs -> BOOLEAN] /\ dropped'[r] /\ \A q \in Runs \ {r} : dropped'[q] = dropped[q]
  BY <1>1, <1>2 DEF TypedWriters
<1>7. Typed'
  BY <1>1, <1>2, <1>4, <1>5, <1>6, PlacesKept, WritersChange DEF Typed, TypedWriters
<1>8. Own(r)
  <2>1. OthersKept(r) /\ TableKept
    BY <1>1, <1>4, <1>5, <1>6 DEF OthersKept, Mine, TableKept
  <2>2. Onward(r)
    BY <1>1, <1>4 DEF Onward, Locked, Before, Early, Over
  <2> QED BY <2>1, <2>2 DEF Own
<1>9. RunInv(r)'
  <2>1. Cleaned(r)'
    BY <1>1, <1>4, <1>6 DEF FInv, RunInv, Cleaned, Inserts
  <2> QED BY <1>4, <2>1 DEF RunInv, Fresh, Books, Ready, Committing, Early, Before
<1> QED BY <1>1, <1>7, <1>8, <1>9, OwnKeeps

\* Where a run that cleans up, or has done so, keeps its invariant.
LEMMA CleanGoes ==
  ASSUME FInv, NEW r \in Runs, pc[r] \in {"unlink", "rmdir"},
         pc'[r] \in {"unlink", "rmdir", "save", "ok", "failed"},
         UNCHANGED <<plan, task, dropped, aborted>>,
         pc'[r] = "rmdir" => folder'[Staging(r)].files = {},
         pc'[r] \in {"save", "ok"} => ~folder'[Staging(r)].there /\ ~aborted[r],
         pc'[r] = "failed" /\ r \notin leaked' => ~folder'[Staging(r)].there
  PROVE  RunInv(r)'
<1>1. Staged(r)' = folder'[Staging(r)] /\ Inserts(r)' = Inserts(r)
  BY DEF Staged, Staging, Inserts
<1>2. dropped[r] /\ (~aborted[r] => \A i \in Inserts(r) : task[r][i].step = "done")
  BY DEF FInv, RunInv, Cleaned
<1>3. Cleaned(r)'
  BY <1>1, <1>2 DEF Cleaned
<1> QED BY <1>3 DEF RunInv, Fresh, Books, Ready, Committing, Early, Before

\* remove_dir removes the folder's entries.
LEMMA UnlinkKeeps ==
  ASSUME FInv, NEW r \in Runs, Unlink(r)
  PROVE  FInv'
<1> DEFINE g == IF Staged(r).there THEN Holding({}, None) ELSE Staged(r)
<1>1. /\ pc[r] = "unlink" /\ pc' = [pc EXCEPT ![r] = "rmdir"]
      /\ UNCHANGED <<plan, setting, state, lock, target, task, idle, closed, next, dropped,
                     tries, aborted, undone, hidden, leaked, saver, faults>>
  BY DEF Unlink, Goto, commit, writes, told
<1>2. TypedPlaces /\ TypedSteps /\ TypedWriters /\ Staging(r) \in Paths
  BY PathFacts DEF FInv, Typed
<1>3. folder' = [folder EXCEPT ![Staging(r)] = g]
  BY <1>2 DEF Unlink, At, Staged, TypedPlaces
<1>4. Real(g) /\ g.files = {}
  <2>1. CASE Staged(r).there
    <3>1. g = Holding({}, None)
      BY <2>1
    <3> QED BY <3>1, FS_EmptySet DEF Real, Holding, None, Folder, Manifest
  <2>2. CASE ~Staged(r).there
    <3>1. g = Missing
      BY <1>2, <2>2 DEF Staged, TypedPlaces
    <3> QED BY <1>2, <3>1, RealFolders DEF Missing
  <2> QED BY <2>1, <2>2
<1> HIDE DEF g
<1>5. TypedPlaces' /\ folder'[Staging(r)] = g /\ \A p \in Paths \ {Staging(r)} : folder'[p] = folder[p]
  BY <1>1, <1>2, <1>3, <1>4, PlacesPut
<1>6. "rmdir" \in Steps
  BY DEF Steps
<1>7. TypedSteps' /\ pc'[r] = "rmdir" /\ \A q \in Runs \ {r} : pc'[q] = pc[q]
  BY <1>1, <1>2, <1>6, StepsGo DEF TypedSteps
<1>8. Typed'
  BY <1>1, <1>2, <1>5, <1>7, WritersKept DEF Typed
<1>9. /\ folder'[Dest] = folder[Dest] /\ \A q \in Runs : folder'[Aside(q)] = folder[Aside(q)]
      /\ \A q \in Runs \ {r} : folder'[Staging(q)] = folder[Staging(q)]
  BY <1>5, PathFacts
<1>10. Own(r)
  <2>1. OthersKept(r) /\ TableKept
    BY <1>1, <1>7, <1>9 DEF OthersKept, Mine, TableKept, Staging, Aside, Dest
  <2>2. Onward(r)
    BY <1>1, <1>7 DEF Onward, Locked, Before, Early, Over
  <2> QED BY <2>1, <2>2 DEF Own
<1>11. RunInv(r)'
  BY <1>1, <1>4, <1>5, <1>7, CleanGoes
<1> QED BY <1>1, <1>8, <1>10, <1>11, OwnKeeps

\* ... and then the folder, or tries again.
LEMMA RemoveDirKeeps ==
  ASSUME FInv, NEW r \in Runs, RemoveDir(r)
  PROVE  FInv'
<1>1. /\ pc[r] = "rmdir"
      /\ UNCHANGED <<plan, setting, state, lock, target, task, idle, closed, next, dropped,
                     aborted, undone, hidden, leaked, saver, faults>>
  BY DEF RemoveDir, commit, writes
<1>2. TypedPlaces /\ TypedSteps /\ TypedWriters /\ Staging(r) \in Paths
  BY PathFacts DEF FInv, Typed
<1>3. Staged(r).files = {}
  BY <1>1 DEF FInv, RunInv, Cleaned
<1>4. /\ folder' = [folder EXCEPT ![Staging(r)] = Missing] /\ pc' = [pc EXCEPT ![r] = AfterDrop(r)]
      /\ tries' = tries
  BY <1>3 DEF RemoveDir, Goto, At, Staged
<1>5. AfterDrop(r) \in {"failed", "save", "ok"} /\ (AfterDrop(r) # "failed" => ~aborted[r])
  BY DEF AfterDrop
<1>6. TypedPlaces' /\ folder'[Staging(r)] = Missing /\ \A p \in Paths \ {Staging(r)} : folder'[p] = folder[p]
  BY <1>1, <1>2, <1>4, RealFolders, PlacesPut
<1>7. AfterDrop(r) \in Steps
  BY <1>5 DEF Steps
<1>8. TypedSteps' /\ pc'[r] = AfterDrop(r) /\ \A q \in Runs \ {r} : pc'[q] = pc[q]
  BY <1>1, <1>2, <1>4, <1>7, StepsGo DEF TypedSteps
<1>9. Typed'
  BY <1>1, <1>2, <1>6, <1>8, WritersKept DEF Typed
<1>10. /\ folder'[Dest] = folder[Dest] /\ \A q \in Runs : folder'[Aside(q)] = folder[Aside(q)]
      /\ \A q \in Runs \ {r} : folder'[Staging(q)] = folder[Staging(q)]
  BY <1>6, PathFacts
<1>11. Own(r)
  <2>1. OthersKept(r) /\ TableKept
    BY <1>1, <1>8, <1>10 DEF OthersKept, Mine, TableKept, Staging, Aside, Dest
  <2>2. Onward(r)
    BY <1>1, <1>5, <1>8 DEF Onward, Locked, Before, Early, Over
  <2> QED BY <2>1, <2>2 DEF Own
<1>12. RunInv(r)'
  <2>1. ~Missing.there
    BY DEF Missing
  <2> QED BY <1>1, <1>5, <1>6, <1>8, <2>1, CleanGoes
<1> QED BY <1>1, <1>9, <1>11, <1>12, OwnKeeps

\* The removal of staging fails, and the run with it.
LEMMA RemoveFailsKeeps ==
  ASSUME FInv, NEW r \in Runs, RemoveFails(r)
  PROVE  FInv'
<1>1. /\ pc[r] = "unlink" /\ pc' = [pc EXCEPT ![r] = "failed"] /\ leaked' = leaked \cup {r} /\ Fault
      /\ UNCHANGED <<plan, setting, folder, state, lock, target, task, idle, closed, next, dropped,
                     tries, aborted, undone, hidden, saver>>
  BY DEF RemoveFails, Goto, files, commit, writes
<1>2. TypedPlaces /\ TypedSteps /\ TypedWriters
  BY DEF FInv, Typed
<1>3. "failed" \in Steps /\ leaked' \subseteq Runs /\ faults' \in 0..MaxFaults
  BY <1>1, <1>2, FaultTyped DEF Steps, TypedSteps
<1>4. TypedSteps' /\ pc'[r] = "failed" /\ \A q \in Runs \ {r} : pc'[q] = pc[q]
  BY <1>1, <1>2, <1>3, StepsGo DEF TypedSteps
<1>5. Typed'
  BY <1>1, <1>2, <1>4, PlacesKept, WritersKept DEF Typed
<1>6. Own(r)
  <2>1. OthersKept(r) /\ TableKept
    BY <1>1, <1>4 DEF OthersKept, Mine, TableKept
  <2>2. Onward(r)
    BY <1>1, <1>4 DEF Onward, Locked, Before, Early, Over
  <2> QED BY <2>1, <2>2 DEF Own
<1>7. RunInv(r)'
  BY <1>1, <1>4, CleanGoes
<1> QED BY <1>1, <1>5, <1>6, <1>7, OwnKeeps

-----------------------------------------------------------------------------
(* Steps of a run that no other run of the table can see in the middle of. *)

Busy == Locked \cup {"create", "describe"}

\* One run at a time creates the table or holds the lock.
LEMMA Alone ==
  ASSUME FInv, NEW r \in Runs, pc[r] \in Busy, NEW q \in Runs \ {r}
  PROVE  pc[q] \notin Sensitive /\ pc[q] \notin Locked /\ pc[q] # "describe"
<1>1. ASSUME pc[r] \in {"create", "describe"} \/ pc[q] \in {"create", "describe"}
      PROVE  pc[q] = "start" \/ Over(q) \/ Over(r)
  <2>1. ~setting.overlap
    BY <1>1 DEF FInv, TurnInv
  <2>2. r < q \/ q < r
    BY PathFacts
  <2>3. pc[r] # "start"
    BY DEF Busy, Locked
  <2> QED BY <2>1, <2>2, <2>3 DEF FInv, TurnInv
<1>2. ~Over(r)
  BY DEF Over, Busy, Locked
<1>3. CASE pc[r] \in {"create", "describe"} \/ pc[q] \in {"create", "describe"}
  BY <1>1, <1>2, <1>3 DEF Over, Sensitive, Locked
<1>4. CASE pc[r] \in Locked /\ pc[q] \notin {"create", "describe"}
  <2>1. lock = r
    BY <1>4 DEF FInv, LockInv
  <2>2. pc[q] \notin Locked
    BY <2>1 DEF FInv, LockInv
  <2> QED BY <1>4, <2>2 DEF Sensitive, Locked
<1> QED BY <1>3, <1>4 DEF Busy

\* What is left to show of such a step.
LEMMA BusyKeeps ==
  ASSUME FInv, Typed', NEW r \in Runs, pc[r] \in Busy, OthersKept(r), undone => undone',
         LockInv', TurnInv', TableInv', RunInv(r)'
  PROVE  FInv'
<1>1. ASSUME NEW q \in Runs PROVE RunInv(q)'
  <2>1. CASE q = r
    BY <2>1
  <2>2. CASE q # r
    <3>1. pc[q] \notin Sensitive
      BY <2>2, Alone
    <3>2. RunInv(q) /\ plan' = plan /\ UNCHANGED Mine(q)
      BY <2>2 DEF FInv, OthersKept
    <3> QED BY <3>1, <3>2, Frame
  <2> QED BY <2>1, <2>2
<1> QED BY <1>1 DEF FInv

\* Where the other runs are, and what they read under the lock, stays.
LEMMA OthersPc ==
  ASSUME NEW r \in Runs, OthersKept(r)
  PROVE  /\ plan' = plan /\ setting' = setting
         /\ \A q \in Runs \ {r} : pc'[q] = pc[q] /\ target'[q] = target[q]
BY DEF OthersKept, Mine

\* The lock is kept, or given back.
LEMMA LockKept ==
  ASSUME FInv, NEW r \in Runs, OthersKept(r), pc[r] \in Busy, state' = saver',
         state' = state \/ pc[r] = "write state", pc'[r] # "write state",
         IF pc'[r] \in Locked THEN lock' = r /\ pc[r] \in Locked
         ELSE lock' = IF pc[r] \in Locked THEN 0 ELSE lock
  PROVE  LockInv'
<1>1. \A q \in Runs \ {r} : pc'[q] = pc[q] /\ pc[q] \notin Locked
  BY Alone, OthersPc
<1>2. \A q \in Runs \ {r} : pc'[q] # "write state"
  BY <1>1 DEF Locked
<1>3. /\ \A q \in Runs : q # 0
      /\ \A q \in Runs : lock = q <=> pc[q] \in Locked
  BY PathFacts DEF FInv, LockInv
<1>4. \A q \in Runs : lock' = q <=> pc'[q] \in Locked
  BY <1>1, <1>3
<1> QED BY <1>2, <1>4 DEF LockInv

\* A run that creates the table or holds the lock has begun and is not over.
LEMMA BusyRuns ==
  ASSUME NEW r \in Runs, pc[r] \in Busy
  PROVE  pc[r] # "start" /\ ~Over(r)
BY DEF Busy, Locked, Over

\* Runs take turns.
LEMMA BusyTurns ==
  ASSUME FInv, NEW r \in Runs, pc[r] # "start", ~Over(r), OthersKept(r),
         pc'[r] \notin {"start", "create"}, pc'[r] = "describe" => pc[r] = "create",
         pc'[r] \in {"swap in", "swap out"} => ~setting.exchanges,
         setting.overlap => IsTable(Dest)'
  PROVE  TurnInv'
<1>1. setting' = setting /\ \A q \in Runs \ {r} : pc'[q] = pc[q]
  BY OthersPc
<1>2. pc[r] # "start" /\ ~Over(r)
  OBVIOUS
<1>3. \A q \in Runs : Over(q) => Over(q)'
  BY <1>1, <1>2 DEF Over
<1>4. ~setting.overlap =>
        \A q, s \in Runs : q < s /\ pc'[s] # "start" => Over(q)'
  BY <1>1, <1>2, <1>3 DEF FInv, TurnInv
<1>5. \A q \in Runs : pc'[q] \in {"create", "describe"} => ~setting.overlap
  BY <1>1 DEF FInv, TurnInv
<1>6. \A q \in Runs : pc'[q] \in {"swap in", "swap out"} => ~setting.exchanges
  BY <1>1 DEF FInv, TurnInv
<1> QED BY <1>1, <1>4, <1>5, <1>6 DEF TurnInv

\* A folder that is whole after a step.
WholeNext(f) ==
  WholeFor(plan, f) /\ \A p \in f.manifest.parts : p.run # 0 => pc'[p.run] \notin Before

\* A whole folder stays whole when only unlisted files of it change.
LEMMA WholeStays ==
  ASSUME FInv, NEW r \in Runs, OthersKept(r), pc[r] \in Before \/ pc'[r] \notin Before,
         NEW p \in Paths, Whole(folder[p]), NEW g, g.manifest = folder[p].manifest,
         g.manifest.parts \subseteq g.files
  PROVE  WholeNext(g)
<1>1. folder[p].manifest.parts \subseteq OnDisk
  BY FolderParts DEF FInv, Typed
<1>2. \A q \in Runs : pc[q] \notin Before => pc'[q] \notin Before
  BY OthersPc
<1> QED BY <1>1, <1>2, UnlistedFiles, CommittedKept DEF Whole, WholeNext

\* A path with nothing at it is whole.
LEMMA MissingWhole == WholeNext(Missing)
BY NothingListed DEF WholeNext, Missing, None

\* The table's folder and those aside are whole.
LEMMA WholeFolders ==
  ASSUME FInv
  PROVE  /\ Whole(folder[Dest]) /\ \A q \in Runs : Whole(folder[Aside(q)])
         /\ Whole(folder[Dest]) => folder[Dest].manifest.parts \subseteq folder[Dest].files
         /\ \A q \in Runs : folder[Aside(q)].manifest.parts \subseteq folder[Aside(q)].files
BY DEF FInv, TableInv, Table0, Whole, WholeFor

\* What is to be shown of the folders after a step.
LEMMA TableNext ==
  ASSUME plan' = plan, WholeNext(folder'[Dest]), \A q \in Runs : WholeNext(folder'[Aside(q)]), TableTidy'
  PROVE  TableInv'
<1>1. Whole(Table0)'
  BY DEF Whole, Committed, WholeNext, Table0, Dest
<1>2. \A q \in Runs : Whole(folder[Aside(q)])'
  BY DEF Whole, Committed, WholeNext, Aside
<1> QED BY <1>1, <1>2 DEF TableInv

\* Those aside stay whole where they stay.
LEMMA AsideStays ==
  ASSUME FInv, NEW r \in Runs, OthersKept(r), pc[r] \in Before \/ pc'[r] \notin Before,
         NEW q \in Runs, folder'[Aside(q)] = folder[Aside(q)]
  PROVE  WholeNext(folder'[Aside(q)])
BY WholeStays, WholeFolders, PathFacts

\* Typing of a step that changes one folder or two.
LEMMA StepsGoBusy ==
  ASSUME FInv, NEW r \in Runs, NEW s \in Steps, pc' = [pc EXCEPT ![r] = s], plan' = plan,
         UNCHANGED <<state, tries>>, lock' \in Runs \cup {0}, hidden' \in Runs \cup {0},
         undone' \in BOOLEAN, aborted' \in [Runs -> BOOLEAN], leaked' = leaked,
         faults' \in 0..MaxFaults, DOMAIN target' = Runs
  PROVE  TypedSteps' /\ pc'[r] = s /\ \A q \in Runs \ {r} : pc'[q] = pc[q]
<1>1. pc' \in [Runs -> Steps] /\ pc'[r] = s /\ \A q \in Runs \ {r} : pc'[q] = pc[q]
  BY DEF TypedSteps, FInv, Typed
<1> QED BY <1>1, KeysKept DEF TypedSteps, FInv, Typed

\* Two folders change.
LEMMA PlacesSwap ==
  ASSUME TypedPlaces, plan' = plan, setting' = setting, NEW p \in Paths, NEW q \in Paths, p # q,
         NEW f, NEW g, Real(f), Real(g), folder' = [folder EXCEPT ![p] = f, ![q] = g]
  PROVE  /\ TypedPlaces' /\ folder'[p] = f /\ folder'[q] = g
         /\ \A o \in Paths \ {p, q} : folder'[o] = folder[o]
BY DEF TypedPlaces, Real

\* The three fields of a folder.
LEMMA HoldingParts ==
  ASSUME NEW F, NEW m
  PROVE  Holding(F, m).there /\ Holding(F, m).files = F /\ Holding(F, m).manifest = m
BY DEF Holding

\* Folders with the same three parts are the same.
LEMMA SameFolder ==
  ASSUME NEW f \in Folder, NEW g \in Folder, f.there = g.there, f.files = g.files, f.manifest = g.manifest
  PROVE  f = g
BY DEF Folder

\* A folder with another manifest, and with other files.
LEMMA WithManifest ==
  ASSUME NEW f \in Folder, NEW m \in Manifest
  PROVE  [f EXCEPT !.there = TRUE, !.manifest = m] = Holding(f.files, m)
<1> DEFINE g == [f EXCEPT !.there = TRUE, !.manifest = m]
           h == Holding(f.files, m)
<1>1. g \in Folder /\ h \in Folder
  BY DEF Folder, Holding
<1>2. g.files = h.files /\ g.manifest = h.manifest
  BY DEF Folder, Holding
<1>3. g.there /\ h.there
  BY DEF Folder, Holding
<1>4. g.there = TRUE /\ h.there = TRUE
  BY <1>1, <1>3 DEF Folder
<1> HIDE DEF g, h
<1>5. g = h
  BY <1>1, <1>2, <1>4, SameFolder
<1> QED BY <1>5 DEF g, h

\* A folder with other files.
LEMMA WithFiles ==
  ASSUME NEW f \in Folder, NEW F \in SUBSET OnDisk, f.there
  PROVE  [f EXCEPT !.files = F] = Holding(F, f.manifest)
<1> DEFINE g == [f EXCEPT !.files = F]
           h == Holding(F, f.manifest)
<1>1. g \in Folder /\ h \in Folder
  BY DEF Folder, Holding
<1>2. g.files = h.files /\ g.manifest = h.manifest
  BY DEF Folder, Holding
<1>3. g.there /\ h.there
  BY DEF Folder, Holding
<1>4. g.there = TRUE /\ h.there = TRUE
  BY <1>1, <1>3 DEF Folder
<1> HIDE DEF g, h
<1>5. g = h
  BY <1>1, <1>2, <1>4, SameFolder
<1> QED BY <1>5 DEF g, h

\* The table's folder is made, where there is none.
LEMMA MakeDirKeeps ==
  ASSUME FInv, NEW r \in Runs, MakeDir(r)
  PROVE  FInv'
<1>1. /\ pc[r] = "create"
      /\ UNCHANGED <<plan, setting, state, lock, target, task, idle, closed, next, dropped,
                     tries, aborted, undone, hidden, leaked, saver, faults>>
  BY DEF MakeDir, commit, writes, told
<1>2. TypedPlaces /\ TypedSteps /\ TypedWriters /\ Dest \in Paths
  BY PathFacts DEF FInv, Typed
<1>3. Fresh(r) /\ folder[Aside(r)] = Missing
  BY <1>1 DEF FInv, RunInv, Committing, Before, Early
<1>4. CASE folder[Dest].there
  <2>1. UNCHANGED folder /\ pc' = [pc EXCEPT ![r] = "failed"]
    BY <1>4 DEF MakeDir, Goto
  <2>2. "failed" \in Steps
    BY DEF Steps
  <2>3. TypedSteps' /\ pc'[r] = "failed" /\ \A q \in Runs \ {r} : pc'[q] = pc[q]
    BY <1>1, <1>2, <2>1, <2>2, StepsGo DEF TypedSteps
  <2>4. Typed'
    BY <1>1, <1>2, <2>1, <2>3, PlacesKept, WritersKept DEF Typed
  <2>5. Own(r)
    <3>1. OthersKept(r) /\ TableKept
      BY <1>1, <2>1, <2>3 DEF OthersKept, Mine, TableKept
    <3>2. Onward(r)
      BY <1>1, <2>3 DEF Onward, Locked, Before, Early, Over
    <3> QED BY <3>1, <3>2 DEF Own
  <2>6. RunInv(r)'
    <3>1. Staged(r)' = Missing
      BY <1>1, <1>3, <2>1 DEF Staged, Staging, Fresh, Early
    <3>2. Cleaned(r)'
      BY <2>3, <3>1 DEF Cleaned, Missing
    <3> QED BY <2>3, <3>2 DEF RunInv, Fresh, Books, Ready, Committing, Before, Early
  <2> QED BY <1>1, <2>4, <2>5, <2>6, OwnKeeps
<1>5. CASE ~folder[Dest].there
  <2> DEFINE g == Holding({}, None)
  <2>1. folder' = [folder EXCEPT ![Dest] = g] /\ pc' = [pc EXCEPT ![r] = "describe"]
    BY <1>5 DEF MakeDir, Goto, At
  <2>2. "describe" \in Steps
    BY DEF Steps, Before, Early
  <2>3. TypedSteps' /\ pc'[r] = "describe" /\ \A q \in Runs \ {r} : pc'[q] = pc[q]
    BY <1>1, <1>2, <2>1, <2>2, StepsGo DEF TypedSteps
  <2>4. Real(g) /\ g.files = {} /\ g.manifest.parts = {}
    BY FS_EmptySet DEF Real, Holding, None, Folder, Manifest
  <2> HIDE DEF g
  <2>5. TypedPlaces' /\ folder'[Dest] = g /\ \A p \in Paths \ {Dest} : folder'[p] = folder[p]
    BY <1>1, <1>2, <2>1, <2>4, PlacesPut
  <2>6. Typed'
    BY <1>1, <1>2, <2>3, <2>5, WritersKept DEF Typed
  <2>7. \A q \in Runs : folder'[Aside(q)] = folder[Aside(q)] /\ folder'[Staging(q)] = folder[Staging(q)]
    BY <2>5, PathFacts
  <2>8. OthersKept(r)
    BY <1>1, <2>3, <2>7 DEF OthersKept, Mine, Staging, Aside
  <2>9. pc[r] \in Busy /\ pc[r] \in Before /\ pc[r] \notin Locked /\ pc'[r] \notin Locked
    BY <1>1, <2>3 DEF Busy, Before, Early, Locked
  <2>10. LockInv'
    BY <1>1, <2>3, <2>8, <2>9, LockKept DEF FInv, LockInv
  <2>11. TurnInv'
    <3>1. ~setting.overlap
      BY <1>1 DEF FInv, TurnInv
    <3> QED BY <1>1, <2>3, <2>8, <2>9, <3>1, BusyTurns, BusyRuns
  <2>12. TableInv'
    <3>1. WholeNext(g)
      BY <2>4, NothingListed DEF WholeNext
    <3>2. \A q \in Runs : WholeNext(folder'[Aside(q)])
      BY <2>7, <2>8, <2>9, AsideStays
    <3>3. TableTidy'
      BY <2>4, <2>5 DEF TableTidy, Table0, Dest
    <3> QED BY <1>1, <2>5, <3>1, <3>2, <3>3, TableNext
  <2>13. RunInv(r)'
    <3>1. Staged(r)' = Staged(r) /\ Inserts(r)' = Inserts(r)
      BY <1>1, <2>7 DEF Staged, Staging, Inserts
    <3>2. Fresh(r)'
      BY <1>1, <1>3, <2>3, <3>1 DEF Fresh, Early
    <3>3. Committing(r)'
      BY <1>3, <2>3, <2>5, <2>7 DEF Committing, Table0, Dest, Aside, g, Holding, None
    <3> QED BY <2>3, <3>2, <3>3 DEF RunInv, Books, Ready, Cleaned
  <2> QED BY <1>1, <2>6, <2>8, <2>9, <2>10, <2>11, <2>12, <2>13, BusyKeeps
<1> QED BY <1>4, <1>5

\* The table is described, by a run that found none.
LEMMA DescribeDestKeeps ==
  ASSUME FInv, NEW r \in Runs, DescribeDest(r)
  PROVE  FInv'
<1> DEFINE g == Holding({}, Columns(r, {}))
<1>1. /\ pc[r] = "describe" /\ pc' = [pc EXCEPT ![r] = "stage"]
      /\ folder' = [folder EXCEPT ![Dest].there = TRUE, ![Dest].manifest = Columns(r, {})]
      /\ UNCHANGED <<plan, setting, state, lock, target, task, idle, closed, next, dropped,
                     tries, aborted, undone, hidden, leaked, saver, faults>>
  BY DEF DescribeDest, Goto, commit, writes, told
<1>2. TypedPlaces /\ TypedSteps /\ TypedWriters /\ Dest \in Paths
  BY PathFacts DEF FInv, Typed
<1>3. Fresh(r) /\ folder[Aside(r)] = Missing /\ folder[Dest] = Holding({}, None) /\ ~setting.overlap
  BY <1>1 DEF FInv, RunInv, Committing, Before, Early, Table0, TurnInv
<1>4. folder' = [folder EXCEPT ![Dest] = g]
  <2>1. folder \in [Paths -> Folder]
    BY <1>2 DEF TypedPlaces
  <2>2. folder' = [folder EXCEPT ![Dest] = [folder[Dest] EXCEPT !.there = TRUE, !.manifest = Columns(r, {})]]
    BY <1>1, <1>2, <2>1
  <2>3. [folder[Dest] EXCEPT !.there = TRUE, !.manifest = Columns(r, {})] = g
    <3>1. folder[Dest] \in Folder /\ folder[Dest].files = {}
      BY <1>2, <1>3, <2>1, HoldingParts
    <3>2. Columns(r, {}) \in Manifest
      BY <1>2, PlanFacts DEF Columns, Manifest
    <3> QED BY <3>1, <3>2, WithManifest
  <2> QED BY <2>2, <2>3
<1>5. "stage" \in Steps
  BY DEF Steps, Before, Early
<1>6. TypedSteps' /\ pc'[r] = "stage" /\ \A q \in Runs \ {r} : pc'[q] = pc[q]
  BY <1>1, <1>2, <1>5, StepsGo DEF TypedSteps
<1>7. Real(g) /\ g.files = {} /\ g.manifest.parts = {}
  BY <1>2, PlanFacts, FS_EmptySet DEF Real, Holding, Columns, Folder, Manifest
<1> HIDE DEF g
<1>8. TypedPlaces' /\ folder'[Dest] = g /\ \A p \in Paths \ {Dest} : folder'[p] = folder[p]
  BY <1>1, <1>2, <1>4, <1>7, PlacesPut
<1>9. Typed'
  BY <1>1, <1>2, <1>6, <1>8, WritersKept DEF Typed
<1>10. \A q \in Runs : folder'[Aside(q)] = folder[Aside(q)] /\ folder'[Staging(q)] = folder[Staging(q)]
  BY <1>8, PathFacts
<1>11. OthersKept(r)
  BY <1>1, <1>6, <1>10 DEF OthersKept, Mine, Staging, Aside
<1>12. pc[r] \in Busy /\ pc[r] \in Before /\ pc[r] \notin Locked /\ pc'[r] \notin Locked
  BY <1>1, <1>6 DEF Busy, Before, Early, Locked
<1>13. LockInv'
  BY <1>1, <1>6, <1>11, <1>12, LockKept DEF FInv, LockInv
<1>14. TurnInv'
  BY <1>3, <1>6, <1>11, <1>12, BusyTurns, BusyRuns
<1>15. TableInv'
  <2>1. WholeNext(g)
    BY <1>7, NothingListed DEF WholeNext
  <2>2. \A q \in Runs : WholeNext(folder'[Aside(q)])
    BY <1>10, <1>11, <1>12, AsideStays
  <2>3. TableTidy'
    BY <1>7, <1>8 DEF TableTidy, Table0, Dest
  <2> QED BY <1>1, <1>8, <2>1, <2>2, <2>3, TableNext
<1>16. RunInv(r)'
  BY <1>1, <1>3, <1>6, <1>10, EarlyGoes DEF Early
<1> QED BY <1>1, <1>9, <1>11, <1>12, <1>13, <1>14, <1>15, <1>16, BusyKeeps

\* The table is left without a manifest, and perhaps with a temporary file.
LEMMA DescribeFailsKeeps ==
  ASSUME FInv, NEW r \in Runs, DescribeFails(r)
  PROVE  FInv'
<1>1. /\ pc[r] = "describe" /\ pc' = [pc EXCEPT ![r] = "failed"] /\ Fault
      /\ UNCHANGED <<plan, setting, state, lock, target, task, idle, closed, next, dropped,
                     tries, aborted, undone, hidden, leaked, saver>>
  BY DEF DescribeFails, Goto, commit, writes
<1>2. PICK left \in {{}, {Temporary(r)}} : folder' = [folder EXCEPT ![Dest].files = @ \cup left]
  BY DEF DescribeFails
<1> DEFINE g == Holding(left, None)
<1>3. TypedPlaces /\ TypedSteps /\ TypedWriters /\ Dest \in Paths /\ faults' \in 0..MaxFaults
  BY <1>1, PathFacts, FaultTyped DEF FInv, Typed
<1>4. Fresh(r) /\ folder[Dest] = Holding({}, None) /\ ~setting.overlap
  BY <1>1 DEF FInv, RunInv, Committing, Table0, TurnInv
<1>5. folder' = [folder EXCEPT ![Dest] = g]
  <2>1. folder \in [Paths -> Folder]
    BY <1>3 DEF TypedPlaces
  <2>2. folder' = [folder EXCEPT ![Dest] = [folder[Dest] EXCEPT !.files = @ \cup left]]
    BY <1>2, <1>3, <2>1
  <2>3. left \subseteq OnDisk
    BY DEF Temporary, OnDisk
  <2>4. /\ folder[Dest] \in Folder /\ folder[Dest].files \cup left = left /\ folder[Dest].there
        /\ folder[Dest].manifest = None
    BY <1>3, <1>4, <2>1, HoldingParts
  <2>5. [folder[Dest] EXCEPT !.files = folder[Dest].files \cup left] = g
    BY <2>3, <2>4, WithFiles
  <2> QED BY <2>2, <2>5
<1>6. "failed" \in Steps
  BY DEF Steps
<1>7. TypedSteps' /\ pc'[r] = "failed" /\ \A q \in Runs \ {r} : pc'[q] = pc[q]
  BY <1>1, <1>3, <1>6, StepsGo DEF TypedSteps
<1>8. Real(g) /\ g.there /\ g.files = left /\ g.manifest = None /\ g.manifest.parts = {}
  <2>1. Temporary(r) \in OnDisk
    BY DEF Temporary, OnDisk
  <2>2. left \subseteq OnDisk /\ IsFiniteSet(left)
    <3>1. IsFiniteSet({}) /\ IsFiniteSet({Temporary(r)})
      BY FS_EmptySet, FS_Singleton
    <3> QED BY <1>2, <2>1, <3>1
  <2> QED BY <2>2 DEF Real, Holding, None, Folder, Manifest
<1> HIDE DEF g
<1>9. TypedPlaces' /\ folder'[Dest] = g /\ \A p \in Paths \ {Dest} : folder'[p] = folder[p]
  BY <1>1, <1>3, <1>5, <1>8, PlacesPut
<1>10. Typed'
  BY <1>1, <1>3, <1>7, <1>9, WritersKept DEF Typed
<1>11. \A q \in Runs : folder'[Aside(q)] = folder[Aside(q)] /\ folder'[Staging(q)] = folder[Staging(q)]
  BY <1>9, PathFacts
<1>12. OthersKept(r)
  BY <1>1, <1>7, <1>11 DEF OthersKept, Mine, Staging, Aside
<1>13. pc[r] \in Busy /\ pc[r] \in Before /\ pc[r] \notin Locked /\ pc'[r] \notin Locked
  BY <1>1, <1>7 DEF Busy, Before, Early, Locked
<1>14. LockInv'
  BY <1>1, <1>7, <1>12, <1>13, LockKept DEF FInv, LockInv
<1>15. TurnInv'
  BY <1>4, <1>7, <1>12, <1>13, BusyTurns, BusyRuns
<1>16. TableInv'
  <2>1. WholeNext(g)
    BY <1>8, NothingListed DEF WholeNext
  <2>2. \A q \in Runs : WholeNext(folder'[Aside(q)])
    BY <1>11, <1>12, <1>13, AsideStays
  <2>3. TableTidy'
    BY <1>8, <1>9 DEF TableTidy, Table0, Dest, Foreign
  <2> QED BY <1>1, <1>9, <2>1, <2>2, <2>3, TableNext
<1>17. RunInv(r)'
  <2>1. Staged(r)' = Missing
    BY <1>1, <1>4, <1>11 DEF Staged, Staging, Fresh, Early
  <2>2. Cleaned(r)'
    BY <1>7, <2>1 DEF Cleaned, Missing
  <2> QED BY <1>7, <2>2 DEF RunInv, Fresh, Books, Ready, Committing, Before, Early
<1> QED BY <1>1, <1>10, <1>12, <1>13, <1>14, <1>15, <1>16, <1>17, BusyKeeps

-----------------------------------------------------------------------------
(* The commit.                                                             *)

\* A run takes the lock, for its commit or for the state file.
LEMMA LockTaken ==
  ASSUME FInv, NEW r \in Runs, pc[r] \notin {"start", "create"}, ~Over(r), lock = 0,
         NEW s \in {"swap", "move", "write state"}, pc' = [pc EXCEPT ![r] = s], lock' = r,
         DOMAIN target' = Runs, \A q \in Runs \ {r} : target'[q] = target[q],
         s = "write state" => target'[r] = state, pc[r] \in Before \/ s = "write state",
         RunInv(r)',
         UNCHANGED <<plan, setting, folder, state, task, idle, closed, next, dropped, tries,
                     aborted, undone, hidden, leaked, saver, faults>>
  PROVE  FInv'
<1>1. TypedPlaces /\ TypedSteps /\ TypedWriters
  BY DEF FInv, Typed
<1>2. s \in Steps /\ s \in Locked
  BY DEF Steps, Before, Locked
<1>3. TypedSteps' /\ pc'[r] = s /\ \A q \in Runs \ {r} : pc'[q] = pc[q]
  <2>1. /\ undone' \in BOOLEAN /\ hidden' \in Runs \cup {0} /\ aborted' \in [Runs -> BOOLEAN]
        /\ faults' \in 0..MaxFaults /\ lock' \in Runs \cup {0}
    BY <1>1 DEF TypedSteps
  <2> QED BY <1>2, <2>1, StepsGoBusy
<1>4. Typed'
  BY <1>1, <1>3, PlacesKept, WritersKept DEF Typed
<1>5. OthersKept(r)
  BY <1>3 DEF OthersKept, Mine
<1>6. LockInv'
  <2>1. \A q \in Runs : q # 0 /\ pc[q] \notin Locked
    BY PathFacts DEF FInv, LockInv
  <2>2. \A q \in Runs : lock' = q <=> pc'[q] \in Locked
    BY <1>2, <1>3, <2>1
  <2>3. \A q \in Runs : pc'[q] = "write state" => q = r
    BY <1>3, <2>1 DEF Locked
  <2> QED BY <1>3, <2>2, <2>3 DEF LockInv, FInv
<1>7. TurnInv'
  <2>1. setting.overlap => IsTable(Dest)'
    BY DEF FInv, TurnInv, IsTable, Dest
  <2> QED BY <1>3, <1>5, <2>1, BusyTurns
<1>8. TableInv'
  <2>1. pc[r] \in Before \/ pc'[r] \notin Before
    BY <1>3 DEF Before, Early
  <2>2. \A q \in Runs : WholeNext(folder'[Aside(q)])
    BY <1>5, <2>1, AsideStays
  <2>3. WholeNext(folder'[Dest])
    BY <1>5, <2>1, WholeStays, WholeFolders, PathFacts
  <2>4. ~\E q \in Runs : pc[q] = "move" /\ lock = q
    BY PathFacts
  <2>5. TableTidy'
    BY <2>4 DEF FInv, TableInv, TableTidy, Foreign, Table0, Dest
  <2> QED BY <2>2, <2>3, <2>5, TableNext
<1>9. ASSUME NEW q \in Runs PROVE RunInv(q)'
  <2>1. CASE q = r
    BY <2>1
  <2>2. CASE q # r
    BY <1>5, <2>2, Frame DEF FInv, OthersKept
  <2> QED BY <2>1, <2>2
<1> QED BY <1>4, <1>6, <1>7, <1>8, <1>9 DEF FInv

\* A run that is to commit looks at the table under the lock.
LEMMA LockTableKeeps ==
  ASSUME FInv, NEW r \in Runs, LockTable(r)
  PROVE  FInv'
<1> DEFINE s == IF plan[r].mode = "full" THEN "swap" ELSE "move"
           m == IF IsTable(Dest) THEN folder[Dest].manifest ELSE Columns(r, {})
<1>1. /\ pc[r] = "commit" /\ lock = 0 /\ lock' = r /\ MayCommit(r)
      /\ target' = [target EXCEPT ![r] = m]
      /\ pc' = [pc EXCEPT ![r] = s]
      /\ UNCHANGED <<plan, setting, folder, state, task, idle, closed, next, dropped, tries,
                     aborted, undone, hidden, leaked, saver, faults>>
  BY DEF LockTable, LockFree, Goto, files, writes, told
<1>2. TypedPlaces /\ TypedSteps /\ TypedWriters /\ plan[r].mode \in {"full", "append"}
  BY PlanFacts DEF FInv, Typed
<1>3. s \in {"swap", "move"} /\ pc'[r] = s /\ (s = "swap" <=> plan[r].mode = "full")
  BY <1>1, <1>2 DEF TypedSteps
<1>4. /\ DOMAIN target' = Runs /\ target'[r] = m /\ \A q \in Runs \ {r} : target'[q] = target[q]
  BY <1>1, <1>2 DEF TypedSteps
<1>5. Staged(r)' = Staged(r) /\ Inserts(r)' = Inserts(r) /\ Asked(r)' = Asked(r) /\ Table0' = Table0
      /\ (IsTable(Dest)' <=> IsTable(Dest)) /\ (Foreign(Dest)' <=> Foreign(Dest))
  BY <1>1 DEF Staged, Staging, Inserts, Asked, Table0, Dest, IsTable, Foreign
<1>6. Ready(r) /\ folder[Aside(r)] = Missing
  BY <1>1 DEF FInv, RunInv, Committing, Before
<1>7. Ready(r)'
  <2>1. Columns(r, closed[r])' = Columns(r, closed[r])
    BY <1>1 DEF Columns
  <2> QED BY <1>1, <1>3, <1>5, <1>6, <2>1 DEF Ready
<1>8. Committing(r)'
  <2>1. s = "swap" => ~Foreign(Dest) /\ plan[r].mode = "full"
    BY <1>1, <1>3 DEF MayCommit
  <2>2. s = "move" => /\ Table0.there /\ m.layout = plan[r].layout
                      /\ undone \/ Table0.files \subseteq m.parts \cup closed[r]
    <3> HAVE s = "move"
    <3>1. Table0.there /\ ~Foreign(Dest) /\ (IsTable(Dest) => SameLayout(r, folder[Dest].manifest))
      BY <1>1, <1>2, <1>3 DEF MayCommit, Table0
    <3>2. m.layout = plan[r].layout
      BY <3>1 DEF SameLayout, Columns
    <3>3. undone \/ Table0.files \subseteq Table0.manifest.parts
      <4>1. ~\E q \in Runs : pc[q] = "move" /\ lock = q
        BY <1>1, PathFacts
      <4> QED BY <3>1, <4>1 DEF FInv, TableInv, TableTidy
    <3>4. Table0.manifest.parts \subseteq m.parts
      BY <3>1 DEF IsTable, Table0, None, Columns
    <3> QED BY <3>1, <3>2, <3>3, <3>4
  <2>3. Staged(r).there
    BY <1>1, <1>6, HoldingParts DEF Ready
  <2>4. (IF IsTable(Dest) THEN Table0.manifest ELSE Columns(r, {}))' = m
    BY <1>1, <1>5 DEF Columns, Table0
  <2>5. folder'[Aside(r)] = Missing
    BY <1>1, <1>6
  <2> HIDE DEF m, s
  <2> QED BY <1>1, <1>3, <1>4, <1>5, <2>1, <2>2, <2>3, <2>4, <2>5 DEF Committing, Aside
<1>9. RunInv(r)'
  BY <1>3, <1>7, <1>8 DEF RunInv, Fresh, Books, Cleaned, Early
<1>10. ~Over(r) /\ pc[r] \in Before
  BY <1>1 DEF Over, Before
<1> HIDE DEF s, m
<1> QED BY <1>1, <1>3, <1>4, <1>9, <1>10, LockTaken

\* A staged folder is whole, and holds its run.
LEMMA StagedWhole ==
  ASSUME FInv, NEW r \in Runs, pc[r] \in {"swap", "swap in"}
  PROVE  /\ Staged(r).there /\ WholeFor(plan, Staged(r)) /\ Staged(r).manifest # None
         /\ Staged(r).files \subseteq Staged(r).manifest.parts
         /\ {p.run : p \in Staged(r).manifest.parts} = {r}
         /\ \A p \in Staged(r).manifest.parts : p.run = r
<1>1. Ready(r) /\ plan[r].mode = "full"
  BY DEF FInv, RunInv, Committing
<1>2. /\ Staged(r) = Holding(closed[r], Columns(r, closed[r])) /\ closed[r] # {}
      /\ (\A p \in closed[r] : p.run = r) /\ RowsOf(closed[r]) = Asked(r)
  BY <1>1 DEF Ready
<1>3. /\ Staged(r).there /\ Staged(r).files = closed[r] /\ Staged(r).manifest = Columns(r, closed[r])
  <2> DEFINE h == Holding(closed[r], Columns(r, closed[r]))
  <2>1. h.there /\ h.files = closed[r] /\ h.manifest = Columns(r, closed[r])
    <3> DEFINE F == closed[r]
               m == Columns(r, closed[r])
    <3>1. h = Holding(F, m)
      OBVIOUS
    <3> HIDE DEF h, F, m
    <3>2. h.there /\ h.files = F /\ h.manifest = m
      BY <3>1, HoldingParts
    <3> QED BY <3>2 DEF F, m
  <2>2. Staged(r) = h
    BY <1>2
  <2> HIDE DEF h
  <2> QED BY <2>1, <2>2
<1>4. Columns(r, closed[r]).parts = closed[r] /\ Columns(r, closed[r]).layout = plan[r].layout
  BY DEF Columns
<1>5. plan[r].layout # 0 /\ r # 0
  BY PlanFacts, PathFacts DEF FInv, Typed
<1>6. Staged(r).manifest # None
  <2>1. None.layout = 0
    BY DEF None
  <2> QED BY <1>3, <1>4, <1>5, <2>1
<1>7. PartsOf(closed[r], r) = closed[r]
  BY <1>2 DEF PartsOf
<1>8. RowsAsked(plan, r) = Asked(r)
  BY <1>5 DEF RowsAsked, Asked
<1>9. Staged(r).manifest.parts = closed[r] /\ Staged(r).manifest.layout = plan[r].layout
  BY <1>3, <1>4
<1>10. {p.run : p \in closed[r]} = {r}
  BY <1>2
<1>11. WholeFor(plan, Staged(r))
  BY <1>2, <1>3, <1>7, <1>8, <1>9, <1>10 DEF WholeFor
<1> QED BY <1>2, <1>3, <1>6, <1>9, <1>10, <1>11

\* A run that has committed, and cleans up.
LEMMA DropGoes ==
  ASSUME NEW r \in Runs, pc'[r] = "drop", aborted'[r] \/ \A i \in Inserts(r) : task'[r][i].step = "done",
         plan' = plan
  PROVE  RunInv(r)'
<1>1. Inserts(r)' = Inserts(r)
  BY DEF Inserts
<1> QED BY <1>1 DEF RunInv, Fresh, Books, Ready, Committing, Cleaned, Early, Before

\* The staged folder takes the table's place in one step.
LEMMA SwapKeeps ==
  ASSUME FInv, NEW r \in Runs, Swap(r)
  PROVE  FInv'
<1>1. /\ pc[r] = "swap" /\ pc' = [pc EXCEPT ![r] = "drop"] /\ lock' = 0
      /\ folder' = [folder EXCEPT ![Dest] = folder[Staging(r)], ![Staging(r)] = folder[Dest]]
      /\ UNCHANGED <<plan, setting, state, target, task, idle, closed, next, dropped, tries,
                     aborted, undone, hidden, leaked, saver, faults>>
  BY DEF Swap, Goto, Unlock, Swapped, writes, told
<1>2. /\ TypedPlaces /\ TypedSteps /\ TypedWriters /\ Dest \in Paths /\ Staging(r) \in Paths
      /\ Dest # Staging(r)
  BY PathFacts DEF FInv, Typed
<1>3. Real(folder[Dest]) /\ Real(folder[Staging(r)])
  BY <1>2, RealFolders
<1>4. /\ TypedPlaces' /\ folder'[Dest] = folder[Staging(r)] /\ folder'[Staging(r)] = folder[Dest]
      /\ \A p \in Paths \ {Dest, Staging(r)} : folder'[p] = folder[p]
  BY <1>1, <1>2, <1>3, PlacesSwap
<1>5. "drop" \in Steps
  BY DEF Steps
<1>6. TypedSteps' /\ pc'[r] = "drop" /\ \A q \in Runs \ {r} : pc'[q] = pc[q]
  <2>1. /\ undone' \in BOOLEAN /\ hidden' \in Runs \cup {0} /\ aborted' \in [Runs -> BOOLEAN]
        /\ faults' \in 0..MaxFaults /\ lock' \in Runs \cup {0} /\ DOMAIN target' = Runs
    BY <1>1, <1>2 DEF TypedSteps
  <2> QED BY <1>1, <1>5, <2>1, StepsGoBusy
<1>7. Typed'
  BY <1>1, <1>2, <1>4, <1>6, WritersKept DEF Typed
<1>8. /\ \A q \in Runs : folder'[Aside(q)] = folder[Aside(q)]
      /\ \A q \in Runs \ {r} : folder'[Staging(q)] = folder[Staging(q)]
  BY <1>4, PathFacts
<1>9. OthersKept(r)
  BY <1>1, <1>6, <1>8 DEF OthersKept, Mine, Staging, Aside
<1>10. pc[r] \in Busy /\ pc[r] \in Before /\ pc[r] \in Locked /\ pc'[r] \notin Locked /\ pc'[r] \notin Before
  BY <1>1, <1>6 DEF Busy, Before, Early, Locked
<1>11. LockInv'
  BY <1>1, <1>6, <1>9, <1>10, LockKept DEF FInv, LockInv
<1>12. /\ folder[Staging(r)].there /\ WholeFor(plan, folder[Staging(r)])
       /\ folder[Staging(r)].manifest # None
       /\ folder[Staging(r)].files \subseteq folder[Staging(r)].manifest.parts
       /\ \A p \in folder[Staging(r)].manifest.parts : p.run = r
  BY <1>1, StagedWhole DEF Staged
<1>13. TurnInv'
  <2>1. IsTable(Dest)'
    BY <1>4, <1>12 DEF IsTable, Dest
  <2> QED BY <1>6, <1>9, <1>10, <2>1, BusyTurns, BusyRuns
<1>14. TableInv'
  <2>1. WholeNext(folder'[Dest])
    BY <1>4, <1>10, <1>12 DEF WholeNext
  <2>2. \A q \in Runs : WholeNext(folder'[Aside(q)])
    BY <1>8, <1>9, <1>10, AsideStays
  <2>3. TableTidy'
    BY <1>4, <1>12 DEF TableTidy, Table0, Dest
  <2> QED BY <1>1, <2>1, <2>2, <2>3, TableNext
<1>15. RunInv(r)'
  <2>1. \A i \in Inserts(r) : task[r][i].step = "done"
    BY <1>1 DEF FInv, RunInv, Ready
  <2> QED BY <1>1, <1>6, <2>1, DropGoes
<1> QED BY <1>1, <1>7, <1>9, <1>10, <1>11, <1>13, <1>14, <1>15, BusyKeeps

\* The table is moved aside, where folders cannot be exchanged.
LEMMA MoveAsideKeeps ==
  ASSUME FInv, Placed, NEW r \in Runs, MoveAside(r)
  PROVE  FInv'
<1>1. /\ pc[r] = "swap" /\ pc' = [pc EXCEPT ![r] = "swap in"] /\ hidden' = r
      /\ ~setting.exchanges /\ folder[Dest].there
      /\ folder' = [folder EXCEPT ![Dest] = folder[Aside(r)], ![Aside(r)] = folder[Dest]]
      /\ UNCHANGED <<plan, setting, state, lock, target, task, idle, closed, next, dropped, tries,
                     aborted, undone, leaked, saver, faults>>
  BY DEF MoveAside, Goto, Swapped, writes, commit
<1>2. /\ TypedPlaces /\ TypedSteps /\ TypedWriters /\ Dest \in Paths /\ Aside(r) \in Paths
      /\ Dest # Aside(r)
  BY PathFacts DEF FInv, Typed
<1>3. Real(folder[Dest]) /\ Real(folder[Aside(r)])
  BY <1>2, RealFolders
<1>4. /\ TypedPlaces' /\ folder'[Dest] = folder[Aside(r)] /\ folder'[Aside(r)] = folder[Dest]
      /\ \A p \in Paths \ {Dest, Aside(r)} : folder'[p] = folder[p]
  <2> DEFINE p == Aside(r)
             f == folder[p]
             g == folder[Dest]
  <2>1. folder' = [folder EXCEPT ![Dest] = f, ![p] = g] /\ plan' = plan /\ setting' = setting
    BY <1>1
  <2>2. Real(f) /\ Real(g) /\ TypedPlaces /\ Dest \in Paths /\ p \in Paths /\ Dest # p
    BY <1>2, <1>3
  <2> HIDE DEF p, f, g
  <2>3. /\ TypedPlaces' /\ folder'[Dest] = f /\ folder'[p] = g
        /\ \A o \in Paths \ {Dest, p} : folder'[o] = folder[o]
    BY <2>1, <2>2, PlacesSwap
  <2> QED BY <2>3 DEF p, f, g
<1>5. "swap in" \in Steps
  BY DEF Steps, Before
<1>6. TypedSteps' /\ pc'[r] = "swap in" /\ \A q \in Runs \ {r} : pc'[q] = pc[q]
  <2>1. /\ undone' \in BOOLEAN /\ hidden' \in Runs \cup {0} /\ aborted' \in [Runs -> BOOLEAN]
        /\ faults' \in 0..MaxFaults /\ lock' \in Runs \cup {0} /\ DOMAIN target' = Runs
    BY <1>1, <1>2 DEF TypedSteps
  <2> QED BY <1>1, <1>5, <2>1, StepsGoBusy
<1>7. Typed'
  BY <1>1, <1>2, <1>4, <1>6, WritersKept DEF Typed
<1>8. /\ \A q \in Runs \ {r} : folder'[Aside(q)] = folder[Aside(q)]
      /\ \A q \in Runs : folder'[Staging(q)] = folder[Staging(q)]
  BY <1>4, PathFacts
<1>9. OthersKept(r)
  BY <1>1, <1>6, <1>8 DEF OthersKept, Mine, Staging, Aside
<1>10. pc[r] \in Busy /\ pc[r] \in Before /\ pc[r] \in Locked /\ pc'[r] \in Locked
  BY <1>1, <1>6 DEF Busy, Before, Early, Locked
<1>11. lock = r
  BY <1>10 DEF FInv, LockInv
<1>12. LockInv'
  BY <1>1, <1>6, <1>9, <1>10, <1>11, LockKept DEF FInv, LockInv
<1>13. TurnInv'
  <2>1. ~setting.overlap
    BY <1>1, <1>2 DEF Placed, TypedPlaces
  <2> QED BY <1>1, <1>6, <1>9, <1>10, <2>1, BusyTurns, BusyRuns
<1>14. folder[Aside(r)] = Missing /\ ~Foreign(Dest) /\ plan[r].mode = "full" /\ Ready(r)
  BY <1>1 DEF FInv, RunInv, Committing, Before
<1>15. TableInv'
  <2>1. WholeNext(folder'[Dest])
    BY <1>4, <1>14, MissingWhole
  <2>2. ASSUME NEW q \in Runs PROVE WholeNext(folder'[Aside(q)])
    <3>1. CASE q = r
      BY <1>2, <1>4, <1>9, <1>10, <3>1, WholeStays, WholeFolders
    <3>2. CASE q # r
      BY <1>8, <1>9, <1>10, <3>2, AsideStays
    <3> QED BY <3>1, <3>2
  <2>3. TableTidy'
    BY <1>4, <1>14 DEF TableTidy, Table0, Dest, Missing, None
  <2> QED BY <1>1, <2>1, <2>2, <2>3, TableNext
<1>16. RunInv(r)'
  <2>1. Staged(r)' = Staged(r) /\ Inserts(r)' = Inserts(r) /\ Asked(r)' = Asked(r)
        /\ Columns(r, closed[r])' = Columns(r, closed[r])
    BY <1>1, <1>8 DEF Staged, Staging, Inserts, Asked, Columns
  <2>2. Ready(r)'
    BY <1>1, <1>6, <1>14, <2>1 DEF Ready
  <2>3. undone \/ folder[Dest].files \subseteq folder[Dest].manifest.parts
    <3>1. ~\E q \in Runs : pc[q] = "move" /\ lock = q
      BY <1>1, <1>11
    <3> QED BY <1>14, <3>1 DEF FInv, TableInv, TableTidy, Table0
  <2>4. ~folder'[Dest].there
    BY <1>4, <1>14 DEF Missing
  <2>5. Committing(r)'
    BY <1>1, <1>4, <1>6, <1>14, <2>3, <2>4 DEF Committing, Table0, Dest, Aside
  <2> QED BY <1>6, <2>2, <2>5 DEF RunInv, Fresh, Books, Cleaned, Early
<1> QED BY <1>1, <1>7, <1>9, <1>10, <1>12, <1>13, <1>15, <1>16, BusyKeeps

\* The staged folder is renamed to the path the table was moved from.
LEMMA MoveInKeeps ==
  ASSUME FInv, Placed, NEW r \in Runs, MoveIn(r)
  PROVE  FInv'
<1>1. /\ pc[r] = "swap in" /\ pc' = [pc EXCEPT ![r] = "swap out"]
      /\ folder' = [folder EXCEPT ![Dest] = folder[Staging(r)], ![Staging(r)] = Missing]
      /\ UNCHANGED <<plan, setting, state, lock, target, task, idle, closed, next, dropped, tries,
                     aborted, undone, hidden, leaked, saver, faults>>
  BY DEF MoveIn, Goto, writes, commit, told
<1>2. /\ TypedPlaces /\ TypedSteps /\ TypedWriters /\ Dest \in Paths /\ Staging(r) \in Paths
      /\ Dest # Staging(r)
  BY PathFacts DEF FInv, Typed
<1>3. Real(Missing) /\ Real(folder[Staging(r)])
  BY <1>2, RealFolders
<1>4. /\ TypedPlaces' /\ folder'[Dest] = folder[Staging(r)] /\ folder'[Staging(r)] = Missing
      /\ \A p \in Paths \ {Dest, Staging(r)} : folder'[p] = folder[p]
  BY <1>1, <1>2, <1>3, PlacesSwap
<1>5. "swap out" \in Steps
  BY DEF Steps, Locked
<1>6. TypedSteps' /\ pc'[r] = "swap out" /\ \A q \in Runs \ {r} : pc'[q] = pc[q]
  <2>1. /\ undone' \in BOOLEAN /\ hidden' \in Runs \cup {0} /\ aborted' \in [Runs -> BOOLEAN]
        /\ faults' \in 0..MaxFaults /\ lock' \in Runs \cup {0} /\ DOMAIN target' = Runs
    BY <1>1, <1>2 DEF TypedSteps
  <2> QED BY <1>1, <1>5, <2>1, StepsGoBusy
<1>7. Typed'
  BY <1>1, <1>2, <1>4, <1>6, WritersKept DEF Typed
<1>8. /\ \A q \in Runs : folder'[Aside(q)] = folder[Aside(q)]
      /\ \A q \in Runs \ {r} : folder'[Staging(q)] = folder[Staging(q)]
  BY <1>4, PathFacts
<1>9. OthersKept(r)
  BY <1>1, <1>6, <1>8 DEF OthersKept, Mine, Staging, Aside
<1>10. pc[r] \in Busy /\ pc[r] \in Before /\ pc[r] \in Locked /\ pc'[r] \in Locked /\ pc'[r] \notin Before
  BY <1>1, <1>6 DEF Busy, Before, Early, Locked
<1>11. lock = r
  BY <1>10 DEF FInv, LockInv
<1>12. LockInv'
  BY <1>1, <1>6, <1>9, <1>10, <1>11, LockKept DEF FInv, LockInv
<1>13. /\ folder[Staging(r)].there /\ WholeFor(plan, folder[Staging(r)])
       /\ folder[Staging(r)].files \subseteq folder[Staging(r)].manifest.parts
       /\ \A p \in folder[Staging(r)].manifest.parts : p.run = r
  BY <1>1, StagedWhole DEF Staged
<1>14. ~setting.exchanges
  BY <1>1 DEF FInv, TurnInv
<1>15. TurnInv'
  <2>1. ~setting.overlap
    BY <1>2, <1>14 DEF Placed, TypedPlaces
  <2> QED BY <1>6, <1>9, <1>10, <1>14, <2>1, BusyTurns, BusyRuns
<1>16. TableInv'
  <2>1. WholeNext(folder'[Dest])
    BY <1>4, <1>10, <1>13 DEF WholeNext
  <2>2. \A q \in Runs : WholeNext(folder'[Aside(q)])
    BY <1>8, <1>9, <1>10, AsideStays
  <2>3. TableTidy'
    BY <1>4, <1>13 DEF TableTidy, Table0, Dest
  <2> QED BY <1>1, <2>1, <2>2, <2>3, TableNext
<1>17. RunInv(r)'
  <2>1. (\A i \in Inserts(r) : task[r][i].step = "done") /\ ~aborted[r]
    BY <1>1 DEF FInv, RunInv, Ready
  <2>2. Inserts(r)' = Inserts(r)
    BY <1>1 DEF Inserts
  <2>3. Table0'.there /\ Staged(r)' = Missing
    BY <1>4, <1>13 DEF Table0, Staged, Dest, Staging
  <2>4. Committing(r)'
    BY <1>1, <1>6, <2>1, <2>3 DEF Committing, Before, Early
  <2>5. Cleaned(r)'
    BY <1>1, <1>6, <2>1, <2>2 DEF Cleaned
  <2> QED BY <1>6, <2>4, <2>5 DEF RunInv, Fresh, Books, Ready, Early
<1> QED BY <1>1, <1>7, <1>9, <1>10, <1>12, <1>15, <1>16, <1>17, BusyKeeps

\* The second rename fails: the table goes back to its place, or that fails
\* as well.
LEMMA MoveInFailsKeeps ==
  ASSUME FInv, Placed, NEW r \in Runs, MoveInFails(r)
  PROVE  FInv'
<1>1. /\ pc[r] = "swap in" /\ pc' = [pc EXCEPT ![r] = "drop"]
      /\ aborted' = [aborted EXCEPT ![r] = TRUE] /\ lock' = 0
      /\ \/ /\ folder' = [folder EXCEPT ![Dest] = folder[Aside(r)], ![Aside(r)] = Missing]
            /\ undone' = undone
         \/ undone' = TRUE /\ folder' = folder
      /\ UNCHANGED <<plan, setting, state, target, task, idle, closed, next, dropped, tries,
                     hidden, leaked, saver>>
  BY DEF MoveInFails, Goto, Abort, Unlock, writes
<1>2. /\ TypedPlaces /\ TypedSteps /\ TypedWriters /\ Dest \in Paths /\ Aside(r) \in Paths
      /\ Dest # Aside(r)
  BY PathFacts DEF FInv, Typed
<1>3. Real(Missing) /\ Real(folder[Aside(r)])
  BY <1>2, RealFolders
<1>4. /\ TypedPlaces'
      /\ \/ /\ folder'[Dest] = folder[Aside(r)] /\ folder'[Aside(r)] = Missing
            /\ undone' = undone
         \/ /\ folder'[Dest] = folder[Dest] /\ folder'[Aside(r)] = folder[Aside(r)]
            /\ undone' = TRUE
      /\ \A p \in Paths \ {Dest, Aside(r)} : folder'[p] = folder[p]
  <2>1. CASE folder' = folder /\ undone' = TRUE
    BY <1>1, <1>2, <2>1, PlacesKept
  <2>2. CASE /\ folder' = [folder EXCEPT ![Dest] = folder[Aside(r)], ![Aside(r)] = Missing]
             /\ undone' = undone
    <3>1. plan' = plan /\ setting' = setting
      BY <1>1
    <3>2. /\ TypedPlaces' /\ folder'[Dest] = folder[Aside(r)] /\ folder'[Aside(r)] = Missing
          /\ \A p \in Paths \ {Dest, Aside(r)} : folder'[p] = folder[p]
      BY <1>2, <1>3, <2>2, <3>1, PlacesSwap
    <3> QED BY <2>2, <3>2
  <2> QED BY <1>1, <2>1, <2>2
<1>5. "drop" \in Steps
  BY DEF Steps
<1>6. TypedSteps' /\ pc'[r] = "drop" /\ \A q \in Runs \ {r} : pc'[q] = pc[q]
  <2>1. faults' \in 0..MaxFaults
    BY <1>2, FaultTyped DEF MoveInFails, TypedSteps
  <2>2. undone' \in BOOLEAN
    BY <1>1, <1>2 DEF TypedSteps
  <2>3. aborted' \in [Runs -> BOOLEAN]
    BY <1>1, <1>2 DEF TypedSteps
  <2>4. /\ hidden' \in Runs \cup {0} /\ lock' \in Runs \cup {0} /\ DOMAIN target' = Runs
    BY <1>1, <1>2 DEF TypedSteps
  <2> QED BY <1>1, <1>5, <2>1, <2>2, <2>3, <2>4, StepsGoBusy
<1>7. Typed'
  BY <1>1, <1>2, <1>4, <1>6, WritersKept DEF Typed
<1>8. /\ \A q \in Runs \ {r} : folder'[Aside(q)] = folder[Aside(q)]
      /\ \A q \in Runs : folder'[Staging(q)] = folder[Staging(q)]
  BY <1>4, PathFacts
<1>9. aborted'[r] /\ \A q \in Runs \ {r} : aborted'[q] = aborted[q]
  BY <1>1, <1>2 DEF TypedSteps
<1>10. OthersKept(r)
  BY <1>1, <1>6, <1>8, <1>9 DEF OthersKept, Mine, Staging, Aside
<1>11. pc[r] \in Busy /\ pc[r] \in Before /\ pc[r] \in Locked /\ pc'[r] \notin Locked /\ pc'[r] \notin Before
  BY <1>1, <1>6 DEF Busy, Before, Early, Locked
<1>12. LockInv'
  BY <1>1, <1>6, <1>10, <1>11, LockKept DEF FInv, LockInv
<1>13. TurnInv'
  <2>1. ~setting.exchanges
    BY <1>1 DEF FInv, TurnInv
  <2>2. ~setting.overlap
    BY <1>2, <2>1 DEF Placed, TypedPlaces
  <2> QED BY <1>6, <1>10, <1>11, <2>2, BusyTurns, BusyRuns
<1>14. TableInv'
  <2>1. WholeNext(folder[Dest]) /\ WholeNext(folder[Aside(r)])
    BY <1>2, <1>10, <1>11, WholeStays, WholeFolders
  <2>2. WholeNext(folder'[Dest])
    BY <1>4, <2>1
  <2>3. ASSUME NEW q \in Runs PROVE WholeNext(folder'[Aside(q)])
    <3>1. CASE q = r
      BY <1>4, <2>1, <3>1, MissingWhole
    <3>2. CASE q # r
      BY <1>8, <1>10, <1>11, <3>2, AsideStays
    <3> QED BY <3>1, <3>2
  <2>4. TableTidy'
    <3>1. undone \/ folder[Aside(r)].files \subseteq folder[Aside(r)].manifest.parts
      BY <1>1 DEF FInv, RunInv, Committing
    <3> QED BY <1>4, <3>1 DEF TableTidy, Table0, Dest
  <2> QED BY <1>1, <2>2, <2>3, <2>4, TableNext
<1>15. RunInv(r)'
  BY <1>1, <1>6, <1>9, DropGoes
<1>16. undone => undone'
  BY <1>1
<1> QED BY <1>7, <1>10, <1>11, <1>12, <1>13, <1>14, <1>15, <1>16, BusyKeeps

\* The old folder goes to where staging was, or away, or stays.
LEMMA MoveOutKeeps ==
  ASSUME FInv, Placed, NEW r \in Runs, MoveOut(r)
  PROVE  FInv'
<1>1. /\ pc[r] = "swap out" /\ pc' = [pc EXCEPT ![r] = "drop"] /\ lock' = 0
      /\ \/ folder' = [folder EXCEPT ![Aside(r)] = folder[Staging(r)], ![Staging(r)] = folder[Aside(r)]]
         \/ folder' = [folder EXCEPT ![Aside(r)] = Missing]
         \/ folder' = folder
      /\ UNCHANGED <<plan, setting, state, target, task, idle, closed, next, dropped, tries,
                     aborted, undone, hidden, leaked, saver>>
  BY DEF MoveOut, Goto, Unlock, Swapped, At, writes
<1>2. /\ TypedPlaces /\ TypedSteps /\ TypedWriters /\ Staging(r) \in Paths /\ Aside(r) \in Paths
      /\ Staging(r) # Aside(r) /\ Dest \in Paths /\ Dest # Staging(r) /\ Dest # Aside(r)
  BY PathFacts DEF FInv, Typed
<1>3. Real(Missing) /\ Real(folder[Aside(r)]) /\ Real(folder[Staging(r)])
  BY <1>2, RealFolders
<1>4. folder[Staging(r)] = Missing /\ ~aborted[r]
  BY <1>1 DEF FInv, RunInv, Committing, Staged
<1>5. /\ TypedPlaces' /\ folder'[Aside(r)] \in {Missing, folder[Aside(r)]}
      /\ \A p \in Paths \ {Aside(r), Staging(r)} : folder'[p] = folder[p]
  <2>1. CASE folder' = folder
    BY <1>1, <1>2, <2>1, PlacesKept
  <2>2. CASE folder' = [folder EXCEPT ![Aside(r)] = Missing]
    BY <1>1, <1>2, <1>3, <2>2, PlacesPut
  <2>3. CASE folder' = [folder EXCEPT ![Aside(r)] = folder[Staging(r)], ![Staging(r)] = folder[Aside(r)]]
    <3> DEFINE a == Aside(r)
               b == Staging(r)
               f == folder[Staging(r)]
               g == folder[Aside(r)]
    <3>1. /\ a \in Paths /\ b \in Paths /\ a # b /\ Real(f) /\ Real(g)
          /\ folder' = [folder EXCEPT ![a] = f, ![b] = g]
      BY <1>2, <1>3, <2>3
    <3>2. TypedPlaces /\ plan' = plan /\ setting' = setting
      BY <1>1, <1>2
    <3> HIDE DEF a, b, f, g
    <3>3. /\ TypedPlaces' /\ folder'[a] = f /\ folder'[b] = g
          /\ \A p \in Paths \ {a, b} : folder'[p] = folder[p]
      BY <3>1, <3>2, PlacesSwap
    <3> QED BY <1>4, <3>3 DEF a, b, f
  <2> QED BY <1>1, <2>1, <2>2, <2>3
<1>6. "drop" \in Steps
  BY DEF Steps
<1>7. TypedSteps' /\ pc'[r] = "drop" /\ \A q \in Runs \ {r} : pc'[q] = pc[q]
  <2>1. faults' \in 0..MaxFaults
    BY <1>2, FaultTyped DEF MoveOut, TypedSteps
  <2>2. /\ undone' \in BOOLEAN /\ hidden' \in Runs \cup {0} /\ aborted' \in [Runs -> BOOLEAN]
        /\ lock' \in Runs \cup {0} /\ DOMAIN target' = Runs
    BY <1>1, <1>2 DEF TypedSteps
  <2> QED BY <1>1, <1>6, <2>1, <2>2, StepsGoBusy
<1>8. Typed'
  BY <1>1, <1>2, <1>5, <1>7, WritersKept DEF Typed
<1>9. /\ \A q \in Runs \ {r} : folder'[Aside(q)] = folder[Aside(q)]
      /\ \A q \in Runs \ {r} : folder'[Staging(q)] = folder[Staging(q)]
      /\ folder'[Dest] = folder[Dest]
  BY <1>2, <1>5, PathFacts
<1>10. OthersKept(r)
  BY <1>1, <1>7, <1>9 DEF OthersKept, Mine, Staging, Aside
<1>11. pc[r] \in Busy /\ pc[r] \in Locked /\ pc'[r] \notin Locked /\ pc'[r] \notin Before
  BY <1>1, <1>7 DEF Busy, Before, Early, Locked
<1>12. LockInv'
  BY <1>1, <1>7, <1>10, <1>11, LockKept DEF FInv, LockInv
<1>13. TurnInv'
  <2>1. ~setting.exchanges
    BY <1>1 DEF FInv, TurnInv
  <2>2. ~setting.overlap
    BY <1>2, <2>1 DEF Placed, TypedPlaces
  <2> QED BY <1>7, <1>10, <1>11, <2>2, BusyTurns, BusyRuns
<1>14. TableInv'
  <2>1. WholeNext(folder[Dest]) /\ WholeNext(folder[Aside(r)])
    BY <1>2, <1>10, <1>11, WholeStays, WholeFolders
  <2>2. WholeNext(folder'[Dest])
    BY <1>9, <2>1
  <2>3. ASSUME NEW q \in Runs PROVE WholeNext(folder'[Aside(q)])
    <3>1. CASE q = r
      BY <1>5, <2>1, <3>1, MissingWhole
    <3>2. CASE q # r
      BY <1>9, <1>10, <1>11, <3>2, AsideStays
    <3> QED BY <3>1, <3>2
  <2>4. TableTidy'
    <3>1. lock = r
      BY <1>11 DEF FInv, LockInv
    <3>2. undone \/ Foreign(Dest) \/ folder[Dest].files \subseteq folder[Dest].manifest.parts
      BY <1>1, <3>1 DEF FInv, TableInv, TableTidy, Table0
    <3> QED BY <1>1, <1>9, <3>2 DEF TableTidy, Table0, Dest, Foreign
  <2> QED BY <1>1, <2>2, <2>3, <2>4, TableNext
<1>15. RunInv(r)'
  <2>1. \A i \in Inserts(r) : task[r][i].step = "done"
    BY <1>1, <1>4 DEF FInv, RunInv, Cleaned
  <2> QED BY <1>1, <1>7, <2>1, DropGoes
<1> QED BY <1>1, <1>8, <1>10, <1>11, <1>12, <1>13, <1>14, <1>15, BusyKeeps

-----------------------------------------------------------------------------
(* An append moves its parts into the table.                               *)

\* What an append has, and what it finds.
LEMMA Moving ==
  ASSUME FInv, NEW r \in Runs, pc[r] = "move"
  PROVE  /\ Table0.there /\ Staged(r).there /\ target[r].layout = plan[r].layout /\ lock = r
         /\ target[r] = IF IsTable(Dest) THEN Table0.manifest ELSE Columns(r, {})
         /\ undone \/ Table0.files \subseteq target[r].parts \cup closed[r]
         /\ (\A i \in Inserts(r) : task[r][i].step = "done") /\ ~aborted[r]
         /\ IsFiniteSet(closed[r]) /\ (\A p \in closed[r] : p.run = r) /\ RowsOf(closed[r]) = Asked(r)
         /\ folder[Aside(r)] = Missing /\ closed[r] \subseteq OnDisk
         /\ Table0 \in Folder /\ Staged(r) \in Folder
         /\ IsFiniteSet(Table0.files) /\ IsFiniteSet(Staged(r).files)
         /\ Table0.files \subseteq OnDisk /\ Staged(r).files \subseteq OnDisk
         /\ Table0.manifest \in Manifest /\ Staged(r).manifest \in Manifest
<1>1. /\ Table0.there /\ Staged(r).there /\ target[r].layout = plan[r].layout
      /\ target[r] = IF IsTable(Dest) THEN Table0.manifest ELSE Columns(r, {})
      /\ undone \/ Table0.files \subseteq target[r].parts \cup closed[r]
      /\ folder[Aside(r)] = Missing
  BY DEF FInv, RunInv, Committing, Before
<1>2. /\ (\A i \in Inserts(r) : task[r][i].step = "done") /\ ~aborted[r] /\ IsFiniteSet(closed[r])
      /\ (\A p \in closed[r] : p.run = r) /\ RowsOf(closed[r]) = Asked(r)
  BY DEF FInv, RunInv, Ready
<1>3. lock = r
  BY DEF FInv, LockInv, Locked
<1>4. closed[r] \subseteq OnDisk
  BY DEF FInv, Typed, TypedWriters
<1>5. /\ Table0 \in Folder /\ Staged(r) \in Folder
      /\ IsFiniteSet(Table0.files) /\ IsFiniteSet(Staged(r).files)
  BY PathFacts DEF FInv, Typed, TypedPlaces, Table0, Staged
<1>6. /\ Table0.files \subseteq OnDisk /\ Staged(r).files \subseteq OnDisk
      /\ Table0.manifest \in Manifest /\ Staged(r).manifest \in Manifest
  BY <1>5 DEF Folder
<1> QED BY <1>1, <1>2, <1>3, <1>4, <1>5, <1>6

\* No part the table lists is one of a run that has not committed.
LEMMA NotListed ==
  ASSUME FInv, NEW r \in Runs, pc[r] \in Before, NEW p \in Table0.manifest.parts
  PROVE  p.run # r /\ (p.run # 0 => p.run \in Runs)
<1>1. Committed(Table0)
  BY DEF FInv, TableInv, Whole
<1>2. p \in OnDisk
  BY FolderParts, PathFacts DEF FInv, Typed, Table0
<1>3. p.run \in Runs \cup {0}
  BY <1>2 DEF OnDisk
<1>4. r # 0
  BY PathFacts
<1> QED BY <1>1, <1>3, <1>4 DEF Committed

\* A folder of typed parts may be at a path.
LEMMA RealHolding ==
  ASSUME NEW F \in SUBSET OnDisk, IsFiniteSet(F), NEW m \in Manifest
  PROVE  Real(Holding(F, m))
<1>1. Holding(F, m) \in Folder
  BY DEF Holding, Folder
<1> QED BY <1>1, HoldingParts DEF Real

\* A step of an append on the table's folder and its own.
LEMMA MoveStep ==
  ASSUME FInv, NEW r \in Runs, pc[r] = "move",
         NEW F \in SUBSET OnDisk, IsFiniteSet(F), NEW G \in SUBSET OnDisk, IsFiniteSet(G),
         NEW m \in Manifest, NEW l \in Manifest,
         folder' = [folder EXCEPT ![Staging(r)] = Holding(F, l), ![Dest] = Holding(G, m)],
         NEW s \in {"move", "drop"}, pc' = [pc EXCEPT ![r] = s],
         lock' = IF s = "move" THEN r ELSE 0,
         aborted' \in [Runs -> BOOLEAN], \A q \in Runs \ {r} : aborted'[q] = aborted[q],
         undone' \in BOOLEAN, undone => undone', faults' \in 0..MaxFaults,
         UNCHANGED <<plan, setting, state, target, task, idle, closed, next, dropped, tries,
                     hidden, leaked, saver>>,
         WholeNext(Holding(G, m)), TableTidy', setting.overlap => m # None, RunInv(r)'
  PROVE  FInv'
<1>1. /\ TypedPlaces /\ TypedSteps /\ TypedWriters /\ Dest \in Paths /\ Staging(r) \in Paths
      /\ Staging(r) # Dest /\ plan' = plan /\ setting' = setting
  BY PathFacts DEF FInv, Typed
<1>2. Real(Holding(F, l)) /\ Real(Holding(G, m))
  BY RealHolding
<1> DEFINE f == Holding(F, l)
           g == Holding(G, m)
           a == Staging(r)
<1>3. Real(f) /\ Real(g) /\ a \in Paths /\ a # Dest /\ folder' = [folder EXCEPT ![a] = f, ![Dest] = g]
  BY <1>1, <1>2
<1>4. /\ folder' [Dest] = g => folder'[Dest] = Holding(G, m)
      /\ folder' [a] = f => folder'[Staging(r)] = Holding(F, l)
  OBVIOUS
<1> HIDE DEF a, f, g
<1>5. /\ TypedPlaces' /\ folder'[a] = f /\ folder'[Dest] = g
      /\ \A o \in Paths \ {a, Dest} : folder'[o] = folder[o]
  BY <1>1, <1>3, PlacesSwap
<1>6. folder'[Dest] = Holding(G, m)
  BY <1>4, <1>5
<1>7. \A o \in Paths \ {Staging(r), Dest} : folder'[o] = folder[o]
  BY <1>5 DEF a
<1>8. s \in Steps
  BY DEF Steps, Before
<1>9. TypedSteps' /\ pc'[r] = s /\ \A q \in Runs \ {r} : pc'[q] = pc[q]
  <2>1. hidden' \in Runs \cup {0} /\ lock' \in Runs \cup {0} /\ DOMAIN target' = Runs
    BY <1>1 DEF TypedSteps
  <2> QED BY <1>8, <2>1, StepsGoBusy
<1>10. Typed'
  BY <1>1, <1>5, <1>9, WritersKept DEF Typed
<1>11. /\ \A q \in Runs : folder'[Aside(q)] = folder[Aside(q)]
       /\ \A q \in Runs \ {r} : folder'[Staging(q)] = folder[Staging(q)]
  BY <1>7, PathFacts
<1>12. OthersKept(r)
  BY <1>9, <1>11 DEF OthersKept, Mine, Staging, Aside
<1>13. pc[r] \in Busy /\ pc[r] \in Before /\ pc[r] \in Locked
  BY DEF Busy, Before, Locked
<1>14. IF pc'[r] \in Locked THEN lock' = r ELSE lock' = 0
  BY <1>9 DEF Locked
<1>15. LockInv'
  BY <1>9, <1>12, <1>13, <1>14, LockKept DEF FInv, LockInv
<1>16. TurnInv'
  <2>1. setting.overlap => IsTable(Dest)'
    BY <1>6, HoldingParts DEF IsTable, Dest
  <2> QED BY <1>9, <1>12, <1>13, <2>1, BusyTurns, BusyRuns
<1>17. TableInv'
  <2>1. \A q \in Runs : WholeNext(folder'[Aside(q)])
    BY <1>11, <1>12, <1>13, AsideStays
  <2> QED BY <1>6, <2>1, TableNext
<1> QED BY <1>10, <1>12, <1>13, <1>15, <1>16, <1>17, BusyKeeps

\* A part is moved.
LEMMA MovePartKeeps ==
  ASSUME FInv, NEW r \in Runs, MovePart(r)
  PROVE  FInv'
<1>1. /\ pc[r] = "move" /\ pc' = pc
      /\ UNCHANGED <<plan, setting, state, lock, target, task, idle, closed, next, dropped, tries,
                     aborted, undone, hidden, leaked, saver, faults>>
  BY DEF MovePart, writes, commit, told
<1>2. PICK p \in closed[r] :
        folder' = [folder EXCEPT ![Staging(r)].files = @ \ {p}, ![Dest].files = @ \cup {p}]
  BY DEF MovePart, Unmoved
<1>3. /\ TypedPlaces /\ TypedSteps /\ TypedWriters /\ Dest \in Paths /\ Staging(r) \in Paths
      /\ Staging(r) # Dest
  BY PathFacts DEF FInv, Typed
<1> DEFINE F == Staged(r).files \ {p}
           G == Table0.files \cup {p}
<1>4. /\ F \in SUBSET OnDisk /\ G \in SUBSET OnDisk /\ IsFiniteSet(F) /\ IsFiniteSet(G)
  <2>1. /\ closed[r] \subseteq OnDisk /\ Staged(r).files \subseteq OnDisk /\ Table0.files \subseteq OnDisk
        /\ IsFiniteSet(Staged(r).files) /\ IsFiniteSet(Table0.files)
    BY <1>1, Moving
  <2>2. IsFiniteSet(F) /\ IsFiniteSet(G)
    BY <2>1, FS_RemoveElement, FS_AddElement
  <2> QED BY <2>1, <2>2
<1>5. /\ [Staged(r) EXCEPT !.files = F] = Holding(F, Staged(r).manifest)
      /\ [Table0 EXCEPT !.files = G] = Holding(G, Table0.manifest)
  <2>1. Staged(r) \in Folder /\ Table0 \in Folder /\ Staged(r).there /\ Table0.there
    BY <1>1, Moving
  <2> HIDE DEF F, G
  <2> QED BY <1>4, <2>1, WithFiles
<1>6. folder' = [folder EXCEPT ![Staging(r)] = [Staged(r) EXCEPT !.files = F],
                               ![Dest] = [Table0 EXCEPT !.files = G]]
  BY <1>2, <1>3 DEF Staged, Table0, TypedPlaces
<1>7. folder' = [folder EXCEPT ![Staging(r)] = Holding(F, Staged(r).manifest),
                               ![Dest] = Holding(G, Table0.manifest)]
  BY <1>5, <1>6
<1> HIDE DEF F
<1>8. pc' = [pc EXCEPT ![r] = "move"] /\ pc'[r] = "move" /\ \A q \in Runs \ {r} : pc'[q] = pc[q]
  BY <1>1, <1>3 DEF TypedSteps
<1>9. lock = r /\ lock' = r
  BY <1>1, Moving
<1>10. /\ folder'[Dest] = Holding(G, Table0.manifest)
       /\ folder'[Staging(r)] = Holding(F, Staged(r).manifest)
       /\ folder'[Aside(r)] = folder[Aside(r)] /\ \A q \in Paths \ {Dest, Staging(r)} : folder'[q] = folder[q]
  BY <1>3, <1>7, PathFacts DEF TypedPlaces
<1>11. WholeNext(Holding(G, Table0.manifest))
  <2>1. OthersKept(r)
    BY <1>1, <1>8, <1>10, PathFacts DEF OthersKept, Mine
  <2>2. /\ Holding(G, Table0.manifest).manifest = folder[Dest].manifest
        /\ Holding(G, Table0.manifest).manifest.parts \subseteq Holding(G, Table0.manifest).files
    BY HoldingParts, WholeFolders DEF Table0
  <2>3. pc[r] \in Before
    BY <1>1 DEF Before
  <2> QED BY <1>3, <2>1, <2>2, <2>3, WholeStays, WholeFolders
<1>12. TableTidy'
  BY <1>8, <1>9 DEF TableTidy
<1>13. setting.overlap => Table0.manifest # None
  BY DEF FInv, TurnInv, IsTable, Table0
<1>14. IsTable(Dest)' <=> IsTable(Dest)
  <2>1. IsTable(Dest)' <=> Table0.manifest # None
    BY <1>10, HoldingParts DEF IsTable, Dest
  <2>2. Table0.there
    BY <1>1, Moving
  <2> QED BY <2>1, <2>2 DEF IsTable, Table0
<1>15. RunInv(r)'
  <2>1. /\ target[r].layout = plan[r].layout
        /\ target[r] = IF IsTable(Dest) THEN Table0.manifest ELSE Columns(r, {})
        /\ undone \/ Table0.files \subseteq target[r].parts \cup closed[r]
        /\ (\A i \in Inserts(r) : task[r][i].step = "done") /\ ~aborted[r]
        /\ IsFiniteSet(closed[r]) /\ (\A o \in closed[r] : o.run = r) /\ RowsOf(closed[r]) = Asked(r)
        /\ folder[Aside(r)] = Missing
    BY <1>1, Moving
  <2>2. plan[r].mode = "full" => closed[r] # {}
    BY <1>1 DEF FInv, RunInv, Ready
  <2>3. Inserts(r)' = Inserts(r) /\ Asked(r)' = Asked(r)
    BY <1>1 DEF Inserts, Asked
  <2>4. Ready(r)'
    BY <1>1, <2>1, <2>2, <2>3 DEF Ready
  <2>5. /\ Table0'.there /\ Staged(r)'.there /\ Table0'.files = G /\ Table0'.manifest = Table0.manifest
    <3>1. folder'[Dest].there /\ folder'[Staging(r)].there
      BY <1>10, HoldingParts
    <3>2. folder'[Dest].files = G /\ folder'[Dest].manifest = Table0.manifest
      BY <1>10, HoldingParts
    <3> QED BY <3>1, <3>2 DEF Table0, Staged, Dest, Staging
  <2>6. target'[r] = (IF IsTable(Dest) THEN Table0.manifest ELSE Columns(r, {}))'
    <3>1. Columns(r, {})' = Columns(r, {})
      BY <1>1 DEF Columns
    <3>2. target'[r] = target[r]
      BY <1>1
    <3> QED BY <1>14, <2>1, <2>5, <3>1, <3>2
  <2>7. undone' \/ Table0'.files \subseteq target'[r].parts \cup closed'[r]
    BY <1>1, <2>1, <2>5
  <2>8. target'[r].layout = plan'[r].layout /\ folder'[Aside(r)] = Missing
    BY <1>1, <1>10, <2>1
  <2>9. Committing(r)'
    BY <1>8, <2>5, <2>6, <2>7, <2>8 DEF Committing, Aside
  <2> QED BY <1>8, <2>4, <2>9 DEF RunInv, Fresh, Books, Cleaned, Early
<1> QED
  <2> HIDE DEF G
  <2>1. Staged(r).manifest \in Manifest /\ Table0.manifest \in Manifest
    BY <1>1, Moving
  <2>2. undone' \in BOOLEAN
    BY <1>1, <1>3 DEF TypedSteps
  <2>3. aborted' \in [Runs -> BOOLEAN] /\ faults' \in 0..MaxFaults
    BY <1>1, <1>3 DEF TypedSteps
  <2> QED BY <1>1, <1>4, <1>7, <1>8, <1>9, <1>11, <1>12, <1>13, <1>15, <2>1, <2>2, <2>3, MoveStep

\* A folder that is there is its files and its manifest.
LEMMA AsHolding ==
  ASSUME NEW f \in Folder, f.there
  PROVE  Holding(f.files, f.manifest) = f
<1> DEFINE h == Holding(f.files, f.manifest)
<1>1. h \in Folder
  BY DEF Holding, Folder
<1>2. h.there /\ h.files = f.files /\ h.manifest = f.manifest
  BY HoldingParts
<1>3. h.there \in BOOLEAN /\ f.there \in BOOLEAN
  BY <1>1 DEF Folder
<1> HIDE DEF h
<1>4. h.there = f.there
  BY <1>2, <1>3
<1>5. h = f
  BY <1>1, <1>2, <1>4, SameFolder
<1> QED BY <1>5 DEF h

\* The table that lists an append's parts with those it found is whole.
LEMMA ListedWhole ==
  ASSUME FInv, NEW r \in Runs, pc[r] = "move", closed[r] \subseteq Table0.files,
         NEW m, m.layout = target[r].layout, m.parts = target[r].parts \cup closed[r],
         NEW f, f.files = Table0.files, f.manifest = m
  PROVE  WholeFor(plan, f)
<1>1. /\ target[r].layout = plan[r].layout
      /\ target[r] = IF IsTable(Dest) THEN Table0.manifest ELSE Columns(r, {})
      /\ (\A p \in closed[r] : p.run = r) /\ RowsOf(closed[r]) = Asked(r)
  BY Moving
<1>2. WholeFor(plan, Table0) /\ pc[r] \in Before /\ r # 0
  BY PathFacts DEF FInv, TableInv, Whole, Before
<1>3. Columns(r, {}).parts = {}
  BY DEF Columns
<1>4. target[r].parts = {} \/ target[r] = Table0.manifest
  BY <1>1, <1>3
<1>5. \A p \in target[r].parts : p.run # r
  BY <1>2, <1>4, NotListed
<1>6. m.parts \subseteq f.files
  <2>1. Table0.manifest.parts \subseteq Table0.files
    BY <1>2 DEF WholeFor
  <2> QED BY <1>4, <2>1
<1>7. ASSUME NEW q \in {p.run : p \in m.parts}
      PROVE  RowsOf(PartsOf(m.parts, q)) = RowsAsked(plan, q) /\ (q # 0 => m.layout = plan[q].layout)
  <2>1. CASE q = r
    <3>1. PartsOf(m.parts, r) = closed[r]
      BY <1>1, <1>5 DEF PartsOf
    <3>2. RowsAsked(plan, r) = Asked(r)
      BY <1>2 DEF RowsAsked, Asked
    <3> QED BY <1>1, <2>1, <3>1, <3>2
  <2>2. CASE q # r
    <3>1. PartsOf(m.parts, q) = PartsOf(target[r].parts, q)
      BY <1>1, <2>2 DEF PartsOf
    <3>2. q \in {p.run : p \in target[r].parts}
      BY <1>1, <2>2
    <3>3. target[r] = Table0.manifest
      BY <1>4, <3>2
    <3>4. /\ RowsOf(PartsOf(Table0.manifest.parts, q)) = RowsAsked(plan, q)
          /\ q # 0 => Table0.manifest.layout = plan[q].layout
      BY <1>2, <3>2, <3>3 DEF WholeFor
    <3> QED BY <3>1, <3>3, <3>4
  <2> QED BY <2>1, <2>2
<1> QED BY <1>6, <1>7 DEF WholeFor

\* The parts are listed.
LEMMA ListPartsKeeps ==
  ASSUME FInv, NEW r \in Runs, ListParts(r)
  PROVE  FInv'
<1> DEFINE m == Listed(r)
           G == Table0.files
           F == Staged(r).files
           l == Staged(r).manifest
<1>1. /\ pc[r] = "move" /\ pc' = [pc EXCEPT ![r] = "drop"] /\ lock' = 0
      /\ closed[r] \subseteq Table0.files /\ folder' = [folder EXCEPT ![Dest].manifest = m]
      /\ UNCHANGED <<plan, setting, state, target, task, idle, closed, next, dropped, tries,
                     aborted, undone, hidden, leaked, saver, faults>>
  BY DEF ListParts, Unmoved, Goto, Unlock, writes, told, Table0
<1>2. /\ TypedPlaces /\ TypedSteps /\ TypedWriters /\ Dest \in Paths /\ Staging(r) \in Paths
      /\ Staging(r) # Dest /\ plan[r].layout \in Nat \ {0}
  BY PathFacts, PlanFacts DEF FInv, Typed
<1>3. /\ target[r].layout = plan[r].layout /\ Table0.there /\ Staged(r).there /\ closed[r] \subseteq OnDisk
      /\ target[r] = IF IsTable(Dest) THEN Table0.manifest ELSE Columns(r, {})
      /\ undone \/ Table0.files \subseteq target[r].parts \cup closed[r]
      /\ (\A p \in closed[r] : p.run = r) /\ \A i \in Inserts(r) : task[r][i].step = "done"
  BY <1>1, Moving
<1>4. /\ Table0 \in Folder /\ Staged(r) \in Folder /\ Table0.manifest \in Manifest /\ l \in Manifest
      /\ G \in SUBSET OnDisk /\ F \in SUBSET OnDisk /\ IsFiniteSet(G) /\ IsFiniteSet(F)
  BY <1>1, Moving
<1>5. m \in Manifest /\ m.layout = target[r].layout /\ m.parts = target[r].parts \cup closed[r]
  <2>1. target[r] \in Manifest
    BY <1>2, <1>3, <1>4 DEF Columns, Manifest
  <2> QED BY <1>3, <2>1 DEF Listed, Manifest
<1>6. m # None
  <2>1. None.layout = 0
    BY DEF None
  <2> QED BY <1>2, <1>3, <1>5, <2>1
<1> HIDE DEF m
<1>7. folder' = [folder EXCEPT ![Staging(r)] = Holding(F, l), ![Dest] = Holding(G, m)]
  <2>1. Holding(F, l) = folder[Staging(r)]
    <3>1. Holding(F, l) = Staged(r)
      BY <1>3, <1>4, AsHolding
    <3> QED BY <3>1 DEF Staged
  <2>2. [Table0 EXCEPT !.manifest = m] = Holding(G, m)
    <3> DEFINE g == [Table0 EXCEPT !.manifest = m]
    <3>1. g \in Folder /\ g.files = G /\ g.manifest = m /\ (g.there <=> Table0.there)
      BY <1>4, <1>5 DEF Folder
    <3>2. Holding(G, m) \in Folder
      BY <1>4, <1>5 DEF Holding, Folder
    <3>3. g.there \in BOOLEAN
      BY <3>1 DEF Folder
    <3>4. Holding(G, m).there \in BOOLEAN
      BY <3>2 DEF Folder
    <3> HIDE DEF g
    <3>5. g.there = Holding(G, m).there
      BY <1>3, <3>1, <3>3, <3>4, HoldingParts
    <3>6. g = Holding(G, m)
      BY <3>1, <3>2, <3>5, HoldingParts, SameFolder
    <3> QED BY <3>6 DEF g
  <2>3. folder' = [folder EXCEPT ![Dest] = [Table0 EXCEPT !.manifest = m]]
    BY <1>1, <1>2 DEF TypedPlaces, Table0
  <2>4. folder' = [folder EXCEPT ![Dest] = Holding(G, m)]
    BY <2>2, <2>3
  <2>5. folder' = [folder EXCEPT ![Staging(r)] = folder[Staging(r)], ![Dest] = Holding(G, m)]
    BY <1>2, <2>4 DEF TypedPlaces
  <2> QED BY <2>1, <2>5
<1>8. pc'[r] = "drop" /\ \A q \in Runs \ {r} : pc'[q] = pc[q]
  BY <1>1, <1>2 DEF TypedSteps
<1>9. folder'[Dest] = Holding(G, m)
  BY <1>2, <1>7 DEF TypedPlaces
<1>10. WholeNext(Holding(G, m))
  <2>1. WholeFor(plan, Holding(G, m))
    BY <1>1, <1>5, HoldingParts, ListedWhole
  <2>2. ASSUME NEW p \in m.parts, p.run # 0 PROVE pc'[p.run] \notin Before
    <3>1. CASE p \in closed[r]
      BY <1>3, <1>8, <3>1 DEF Before, Early
    <3>2. CASE p \notin closed[r]
      <4>1. p \in Table0.manifest.parts
        BY <1>3, <1>5, <3>2 DEF Columns
      <4>2. pc[r] \in Before
        BY <1>1 DEF Before
      <4>3. p.run \in Runs \ {r}
        BY <2>2, <4>1, <4>2, NotListed
      <4>4. pc[p.run] \notin Before
        BY <2>2, <4>1 DEF FInv, TableInv, Whole, Committed
      <4> QED BY <1>8, <4>3, <4>4
    <3> QED BY <3>1, <3>2
  <2>3. Holding(G, m).manifest = m
    BY HoldingParts
  <2> QED BY <2>1, <2>2, <2>3 DEF WholeNext
<1>11. TableTidy'
  <2>1. folder'[Dest].files = G /\ folder'[Dest].manifest = m
    BY <1>9, HoldingParts
  <2> QED BY <1>1, <1>3, <1>5, <2>1 DEF TableTidy, Table0, Dest
<1>12. RunInv(r)'
  BY <1>1, <1>3, <1>8, DropGoes
<1> QED
  <2> HIDE DEF F, G, l
  <2>1. aborted' \in [Runs -> BOOLEAN] /\ undone' \in BOOLEAN /\ faults' \in 0..MaxFaults
        /\ \A q \in Runs \ {r} : aborted'[q] = aborted[q]
    BY <1>1, <1>2 DEF TypedSteps
  <2> QED BY <1>1, <1>4, <1>5, <1>6, <1>7, <1>10, <1>11, <1>12, <2>1, MoveStep

\* The parts go back, or one stays where nothing lists it.
LEMMA MoveFailsKeeps ==
  ASSUME FInv, NEW r \in Runs, MoveFails(r)
  PROVE  FInv'
<1> DEFINE U == Undo(r)
           l == Staged(r).manifest
           m == Table0.manifest
<1>1. /\ pc[r] = "move" /\ pc' = [pc EXCEPT ![r] = "drop"] /\ lock' = 0
      /\ aborted' = [aborted EXCEPT ![r] = TRUE]
      /\ UNCHANGED <<plan, setting, state, target, task, idle, closed, next, dropped, tries,
                     hidden, leaked, saver>>
  BY DEF MoveFails, Abort, Goto, Unlock, writes
<1>2. \/ /\ folder' = [folder EXCEPT ![Staging(r)].files = @ \cup U, ![Dest].files = @ \ U]
         /\ undone' = undone
      \/ undone' = TRUE /\ folder' = folder
  BY DEF MoveFails
<1>3. /\ TypedPlaces /\ TypedSteps /\ TypedWriters /\ Dest \in Paths /\ Staging(r) \in Paths
      /\ Staging(r) # Dest
  BY PathFacts DEF FInv, Typed
<1>4. /\ Table0.there /\ Staged(r).there /\ closed[r] \subseteq OnDisk /\ IsFiniteSet(closed[r])
      /\ target[r] = IF IsTable(Dest) THEN Table0.manifest ELSE Columns(r, {})
      /\ undone \/ Table0.files \subseteq target[r].parts \cup closed[r]
      /\ (\A p \in closed[r] : p.run = r)
  BY <1>1, Moving
<1>5. /\ Table0 \in Folder /\ Staged(r) \in Folder /\ m \in Manifest /\ l \in Manifest
      /\ Table0.files \in SUBSET OnDisk /\ Staged(r).files \in SUBSET OnDisk
      /\ IsFiniteSet(Table0.files) /\ IsFiniteSet(Staged(r).files)
  BY <1>1, Moving
<1>6. U \subseteq closed[r] /\ U \subseteq Table0.files /\ (\A p \in closed[r] \cap Table0.files : p \in U)
  BY DEF Undo, Table0
<1> HIDE DEF U
<1>7. PICK F \in SUBSET OnDisk, G \in SUBSET OnDisk :
        /\ IsFiniteSet(F) /\ IsFiniteSet(G)
        /\ folder' = [folder EXCEPT ![Staging(r)] = Holding(F, l), ![Dest] = Holding(G, m)]
        /\ Table0.files \ U \subseteq G
        /\ (undone' = undone /\ G = Table0.files \ U) \/ undone' = TRUE
  <2>1. CASE undone' = TRUE /\ folder' = folder
    <3>1. Holding(Staged(r).files, l) = Staged(r) /\ Holding(Table0.files, m) = Table0
      BY <1>4, <1>5, AsHolding
    <3>2. folder' = [folder EXCEPT ![Staging(r)] = folder[Staging(r)], ![Dest] = folder[Dest]]
      BY <1>3, <2>1 DEF TypedPlaces
    <3>3. folder' = [folder EXCEPT ![Staging(r)] = Holding(Staged(r).files, l),
                                   ![Dest] = Holding(Table0.files, m)]
      BY <3>1, <3>2 DEF Staged, Table0
    <3> QED BY <1>5, <2>1, <3>3
  <2>2. CASE /\ folder' = [folder EXCEPT ![Staging(r)].files = @ \cup U, ![Dest].files = @ \ U]
             /\ undone' = undone
    <3> DEFINE F == Staged(r).files \cup U
               G == Table0.files \ U
    <3>1. F \in SUBSET OnDisk /\ G \in SUBSET OnDisk /\ IsFiniteSet(F) /\ IsFiniteSet(G)
      <4>1. F \in SUBSET OnDisk /\ G \in SUBSET OnDisk
        BY <1>4, <1>5, <1>6
      <4>2. IsFiniteSet(G)
        BY <1>5, FS_Subset
      <4>3. IsFiniteSet(U)
        BY <1>4, <1>6, FS_Subset
      <4>4. IsFiniteSet(F)
        BY <1>5, <4>3, FS_Union
      <4> QED BY <4>1, <4>2, <4>4
    <3>2. G = Table0.files \ U
      OBVIOUS
    <3>3. folder' = [folder EXCEPT ![Staging(r)] = [Staged(r) EXCEPT !.files = F],
                                   ![Dest] = [Table0 EXCEPT !.files = G]]
      BY <1>3, <2>2 DEF Staged, Table0, TypedPlaces
    <3> HIDE DEF F, G
    <3>4. /\ [Staged(r) EXCEPT !.files = F] = Holding(F, l)
          /\ [Table0 EXCEPT !.files = G] = Holding(G, m)
      BY <1>4, <1>5, <3>1, WithFiles
    <3>5. folder' = [folder EXCEPT ![Staging(r)] = Holding(F, l), ![Dest] = Holding(G, m)]
      BY <3>3, <3>4
    <3> QED BY <2>2, <3>1, <3>2, <3>5
  <2> QED BY <1>2, <2>1, <2>2
<1>8. pc'[r] = "drop" /\ \A q \in Runs \ {r} : pc'[q] = pc[q]
  BY <1>1, <1>3 DEF TypedSteps
<1>9. folder'[Dest] = Holding(G, m) /\ \A q \in Paths \ {Dest, Staging(r)} : folder'[q] = folder[q]
  BY <1>3, <1>7 DEF TypedPlaces
<1>10. /\ aborted' \in [Runs -> BOOLEAN] /\ aborted'[r]
       /\ \A q \in Runs \ {r} : aborted'[q] = aborted[q]
  BY <1>1, <1>3 DEF TypedSteps
<1>11. \A p \in m.parts : p \notin U
  <2>1. pc[r] \in Before
    BY <1>1 DEF Before
  <2>2. \A p \in m.parts : p.run # r
    BY <2>1, NotListed
  <2> QED BY <1>4, <1>6, <2>2
<1>12. WholeNext(Holding(G, m))
  <2>1. OthersKept(r)
    BY <1>1, <1>8, <1>9, <1>10, PathFacts DEF OthersKept, Mine
  <2>2. Holding(G, m).manifest = folder[Dest].manifest
    BY HoldingParts DEF Table0
  <2>3. m.parts \subseteq Table0.files
    BY WholeFolders DEF Table0
  <2>4. Holding(G, m).manifest.parts \subseteq Holding(G, m).files
    BY <1>7, <1>11, <2>3, HoldingParts
  <2>5. pc[r] \in Before
    BY <1>1 DEF Before
  <2> QED BY <1>3, <2>1, <2>2, <2>4, <2>5, WholeStays, WholeFolders
<1>13. TableTidy'
  <2>1. folder'[Dest].files = G /\ folder'[Dest].manifest = m
    BY <1>9, HoldingParts
  <2>2. target[r].parts \subseteq m.parts
    BY <1>4 DEF Columns
  <2>3. undone' \/ G \subseteq m.parts
    BY <1>4, <1>6, <1>7, <2>2
  <2> QED BY <2>1, <2>3 DEF TableTidy, Table0, Dest
<1>14. RunInv(r)'
  BY <1>1, <1>8, <1>10, DropGoes
<1>15. setting.overlap => m # None
  BY DEF FInv, TurnInv, IsTable, Table0
<1> QED
  <2> HIDE DEF l, m
  <2>1. undone' \in BOOLEAN /\ (undone => undone')
    <3>1. undone' = undone \/ undone' = TRUE
      BY <1>7
    <3>2. undone \in BOOLEAN
      BY <1>3 DEF TypedSteps
    <3>3. undone' \in BOOLEAN
      BY <3>1, <3>2
    <3>4. undone => undone'
      BY <3>1
    <3> QED BY <3>3, <3>4
  <2>2. faults' \in 0..MaxFaults
    BY FaultTyped DEF MoveFails
  <2>3. IsFiniteSet(F) /\ IsFiniteSet(G)
        /\ folder' = [folder EXCEPT ![Staging(r)] = Holding(F, l), ![Dest] = Holding(G, m)]
    BY <1>7
  <2> QED BY <1>1, <1>5, <1>10, <1>12, <1>13, <1>14, <1>15, <2>1, <2>2, <2>3, MoveStep

-----------------------------------------------------------------------------
(* The cursor is saved.                                                    *)

\* The state file is read under the lock.
LEMMA LockStateKeeps ==
  ASSUME FInv, NEW r \in Runs, LockState(r)
  PROVE  FInv'
<1>1. /\ pc[r] = "save" /\ lock = 0 /\ lock' = r /\ target' = [target EXCEPT ![r] = state]
      /\ pc' = [pc EXCEPT ![r] = "write state"]
      /\ UNCHANGED <<plan, setting, folder, state, task, idle, closed, next, dropped, tries,
                     aborted, undone, hidden, leaked, saver, faults>>
  BY DEF LockState, LockFree, Goto, files, writes, told
<1>2. TypedSteps
  BY DEF FInv, Typed
<1>3. /\ DOMAIN target' = Runs /\ target'[r] = state /\ \A q \in Runs \ {r} : target'[q] = target[q]
      /\ pc'[r] = "write state"
  BY <1>1, <1>2 DEF TypedSteps
<1>4. RunInv(r)'
  <2>1. /\ ~Staged(r).there /\ ~aborted[r] /\ \A i \in Inserts(r) : task[r][i].step = "done"
    BY <1>1 DEF FInv, RunInv, Cleaned
  <2>2. Staged(r)' = Staged(r) /\ Inserts(r)' = Inserts(r)
    BY <1>1 DEF Staged, Staging, Inserts
  <2>3. Cleaned(r)'
    BY <1>1, <1>3, <2>1, <2>2 DEF Cleaned
  <2> QED BY <1>3, <2>3 DEF RunInv, Fresh, Books, Ready, Committing, Early, Before
<1>5. ~Over(r)
  BY <1>1 DEF Over
<1> QED BY <1>1, <1>3, <1>4, <1>5, LockTaken

\* The state file is written back.
LEMMA WriteStateKeeps ==
  ASSUME FInv, NEW r \in Runs, WriteState(r)
  PROVE  FInv'
<1>1. /\ pc[r] = "write state" /\ pc' = [pc EXCEPT ![r] = "ok"] /\ lock' = 0
      /\ state' = [target[r] EXCEPT ![plan[r].key] = r]
      /\ saver' = [saver EXCEPT ![plan[r].key] = r]
      /\ UNCHANGED <<plan, setting, folder, target, task, idle, closed, next, dropped, tries,
                     aborted, undone, hidden, leaked, faults>>
  BY DEF WriteState, Goto, Unlock, writes
<1>2. TypedPlaces /\ TypedSteps /\ TypedWriters
  BY DEF FInv, Typed
<1>3. target[r] = state /\ state = saver /\ state \in [Keys -> Runs \cup {0}]
  BY <1>1, <1>2 DEF FInv, LockInv, TypedSteps
<1>4. state' \in [Keys -> Runs \cup {0}]' /\ state' = saver'
  BY <1>1, <1>3, KeysKept
<1>5. pc'[r] = "ok" /\ \A q \in Runs \ {r} : pc'[q] = pc[q]
  BY <1>1, <1>2 DEF TypedSteps
<1>6. TypedSteps'
  <2>1. "ok" \in Steps
    BY DEF Steps
  <2>2. pc' \in [Runs -> Steps]
    BY <1>1, <1>2, <2>1 DEF TypedSteps
  <2> QED BY <1>1, <1>2, <1>4, <2>2 DEF TypedSteps
<1>7. Typed'
  BY <1>1, <1>2, <1>6, WritersKept, PlacesKept DEF Typed
<1>8. OthersKept(r)
  BY <1>1, <1>5 DEF OthersKept, Mine, Staging, Aside
<1>9. pc[r] \in Busy /\ pc[r] \in Locked /\ pc'[r] \notin Locked /\ pc'[r] \notin Before
  BY <1>1, <1>5 DEF Busy, Before, Early, Locked
<1>10. LockInv'
  BY <1>1, <1>4, <1>5, <1>8, <1>9, LockKept
<1>11. (IsTable(Dest)' <=> IsTable(Dest)) /\ Table0' = Table0 /\ (Foreign(Dest)' <=> Foreign(Dest))
  BY <1>1 DEF IsTable, Table0, Dest, Foreign
<1>12. TurnInv'
  <2>1. setting.overlap => IsTable(Dest)'
    BY <1>11 DEF FInv, TurnInv
  <2> QED BY <1>5, <1>8, <1>9, <2>1, BusyTurns, BusyRuns
<1>13. TableInv'
  <2>1. folder'[Dest] = folder[Dest] /\ \A q \in Runs : folder'[Aside(q)] = folder[Aside(q)]
    BY <1>1
  <2>2. WholeNext(folder'[Dest])
    BY <1>8, <1>9, <2>1, WholeStays, WholeFolders, PathFacts
  <2>3. \A q \in Runs : WholeNext(folder'[Aside(q)])
    BY <1>8, <1>9, <2>1, AsideStays
  <2>4. TableTidy'
    <3>1. ~\E q \in Runs : pc[q] = "move" /\ lock = q
      <4>1. lock = r
        BY <1>9 DEF FInv, LockInv
      <4> QED BY <1>1, <4>1
    <3> QED BY <1>1, <1>11, <3>1 DEF FInv, TableInv, TableTidy
  <2> QED BY <1>1, <2>2, <2>3, <2>4, TableNext
<1>14. RunInv(r)'
  <2>1. /\ ~Staged(r).there /\ ~aborted[r] /\ \A i \in Inserts(r) : task[r][i].step = "done"
    BY <1>1 DEF FInv, RunInv, Cleaned
  <2>2. Staged(r)' = Staged(r) /\ Inserts(r)' = Inserts(r)
    BY <1>1 DEF Staged, Staging, Inserts
  <2>3. Cleaned(r)'
    BY <1>1, <1>5, <2>1, <2>2 DEF Cleaned
  <2> QED BY <1>5, <2>3 DEF RunInv, Fresh, Books, Ready, Committing, Early, Before
<1> QED BY <1>1, <1>7, <1>8, <1>9, <1>10, <1>12, <1>13, <1>14, BusyKeeps

-----------------------------------------------------------------------------
(* A crash, and every step.                                                *)

\* A run that dies leaves its folders as they are.
LEMMA CrashKeeps ==
  ASSUME FInv, NEW r \in Runs, Crash(r)
  PROVE  FInv'
<1>1. /\ ~Over(r) /\ pc[r] # "start" /\ pc' = [pc EXCEPT ![r] = "dead"]
      /\ task' = [task EXCEPT ![r] = [i \in DOMAIN @ |-> [@[i] EXCEPT !.step = "done"]]]
      /\ lock' = IF lock = r THEN 0 ELSE lock
      /\ undone' = (undone \/ pc[r] \in {"move", "swap in"})
      /\ UNCHANGED <<plan, setting, folder, state, target, idle, closed, next, dropped, tries,
                     aborted, hidden, leaked, saver>>
  BY DEF Crash, Goto, files
<1>2. TypedPlaces /\ TypedSteps /\ TypedWriters
  BY DEF FInv, Typed
<1>3. pc'[r] = "dead" /\ \A q \in Runs \ {r} : pc'[q] = pc[q]
  BY <1>1, <1>2 DEF TypedSteps
<1>4. /\ DOMAIN task' = Runs /\ \A q \in Runs \ {r} : task'[q] = task[q]
      /\ DOMAIN task'[r] = Inserts(r)
      /\ \A i \in Inserts(r) : task'[r][i] = [task[r][i] EXCEPT !.step = "done"]
  BY <1>1, <1>2 DEF TypedWriters
<1>5. \A i \in Inserts(r) : task'[r][i] \in Task /\ task'[r][i].step = "done"
  <2> TAKE i \in Inserts(r)
  <2>1. task[r][i] \in Task
    BY <1>2 DEF TypedWriters
  <2> QED BY <1>4, <2>1 DEF Task
<1>6. TypedWriters'
  <2>1. \A q \in Runs : DOMAIN task'[q] = Inserts(q) /\ \A j \in Inserts(q) : task'[q][j] \in Task
    BY <1>2, <1>4, <1>5 DEF TypedWriters
  <2> QED BY <1>1, <1>2, <1>4, <2>1, TaskTyped
<1>7. TypedSteps'
  <2>1. "dead" \in Steps
    BY DEF Steps
  <2>2. pc' \in [Runs -> Steps]
    BY <1>1, <1>2, <2>1 DEF TypedSteps
  <2>3. undone' \in BOOLEAN
    BY <1>1
  <2>4. faults' \in 0..MaxFaults
    BY FaultTyped DEF Crash
  <2>5. lock' \in Runs \cup {0}
    BY <1>1, <1>2 DEF TypedSteps
  <2>6. state' \in [Keys -> Runs \cup {0}]'
    BY <1>1, <1>2, KeysKept DEF TypedSteps
  <2> QED BY <1>1, <1>2, <2>2, <2>3, <2>4, <2>5, <2>6 DEF TypedSteps
<1>8. Typed'
  BY <1>1, <1>2, <1>6, <1>7, PlacesKept DEF Typed
<1>9. OthersKept(r)
  BY <1>1, <1>3, <1>4 DEF OthersKept, Mine, Staging, Aside
<1>10. pc'[r] \notin Locked /\ pc'[r] \notin Before /\ (\A q \in Runs : q # 0)
  BY <1>3, PathFacts DEF Before, Early, Locked
<1>11. LockInv'
  <2>1. \A q \in Runs : lock = q <=> pc[q] \in Locked
    BY DEF FInv, LockInv
  <2>2. \A q \in Runs : lock' = q <=> pc'[q] \in Locked
    BY <1>1, <1>3, <1>10, <2>1
  <2>3. state' = saver' /\ \A q \in Runs : pc'[q] = "write state" => target'[q] = state'
    BY <1>1, <1>3 DEF FInv, LockInv
  <2> QED BY <2>2, <2>3 DEF LockInv
<1>12. (IsTable(Dest)' <=> IsTable(Dest)) /\ Table0' = Table0 /\ (Foreign(Dest)' <=> Foreign(Dest))
  BY <1>1 DEF IsTable, Table0, Dest, Foreign
<1>13. TurnInv'
  <2>1. setting.overlap => IsTable(Dest)'
    BY <1>12 DEF FInv, TurnInv
  <2> QED BY <1>1, <1>3, <1>9, <2>1, BusyTurns
<1>14. TableInv'
  <2>1. folder'[Dest] = folder[Dest] /\ \A q \in Runs : folder'[Aside(q)] = folder[Aside(q)]
    BY <1>1
  <2>2. WholeNext(folder'[Dest])
    BY <1>9, <1>10, <2>1, WholeStays, WholeFolders, PathFacts
  <2>3. \A q \in Runs : WholeNext(folder'[Aside(q)])
    BY <1>9, <1>10, <2>1, AsideStays
  <2>4. TableTidy'
    <3>1. CASE undone \/ pc[r] = "move"
      BY <1>1, <3>1 DEF TableTidy
    <3>2. CASE pc[r] # "move" /\ \E q \in Runs : pc[q] = "move" /\ lock = q
      BY <1>1, <1>3, <3>2 DEF TableTidy
    <3>3. CASE Foreign(Dest) \/ Table0.files \subseteq Table0.manifest.parts
      BY <1>12, <3>3 DEF TableTidy
    <3> QED BY <3>1, <3>2, <3>3 DEF FInv, TableInv, TableTidy
  <2> QED BY <1>1, <2>2, <2>3, <2>4, TableNext
<1>15. RunInv(r)'
  <2>1. Inserts(r)' = Inserts(r)
    BY <1>1 DEF Inserts
  <2>2. Cleaned(r)'
    BY <1>3, <1>5, <2>1 DEF Cleaned
  <2> QED BY <1>3, <2>2 DEF RunInv, Fresh, Books, Ready, Committing, Early, Before
<1>16. ASSUME NEW q \in Runs \ {r} PROVE RunInv(q)'
  <2>1. UNCHANGED Mine(q) /\ plan' = plan /\ (undone => undone')
    BY <1>1, <1>9 DEF OthersKept
  <2>2. RunInv(q) /\ folder'[Dest] = folder[Dest] /\ hidden' = hidden
    BY <1>1 DEF FInv
  <2> QED BY <2>1, <2>2, Frame
<1> QED BY <1>8, <1>11, <1>13, <1>14, <1>15, <1>16 DEF FInv

\* Every step keeps the invariant.
LEMMA StepKeeps ==
  ASSUME FInv, Placed, [Next]_vars
  PROVE  FInv'
<1>1. ASSUME NEW r \in Runs, Create(r) PROVE FInv'
  BY <1>1, CheckWriteKeeps, FindDestKeeps, MakeDirKeeps, DescribeDestKeeps, DescribeFailsKeeps,
     CreateStagingKeeps DEF Create
<1>2. ASSUME NEW r \in Runs, Write(r) PROVE FInv'
  BY <1>2, BeginInsertKeeps, WritePartKeeps, OpenPartKeeps, InsertFailsKeeps, EndInsertKeeps DEF Write
<1>3. ASSUME NEW r \in Runs, ReadFails(r) \/ Finalize(r) \/ LockTable(r) \/ RefuseCommit(r) PROVE FInv'
  BY <1>3, ReadFailsKeeps, FinalizeKeeps, LockTableKeeps, RefuseCommitKeeps
<1>4. ASSUME NEW r \in Runs, Replace(r) PROVE FInv'
  BY <1>4, SwapKeeps, MoveAsideKeeps, MoveInKeeps, MoveInFailsKeeps, MoveOutKeeps DEF Replace
<1>5. ASSUME NEW r \in Runs, Move(r) PROVE FInv'
  BY <1>5, MovePartKeeps, ListPartsKeeps, MoveFailsKeeps DEF Move
<1>6. ASSUME NEW r \in Runs, Clean(r) PROVE FInv'
  BY <1>6, DropKeeps, UnlinkKeeps, RemoveDirKeeps, RemoveFailsKeeps DEF Clean
<1>7. ASSUME NEW r \in Runs, Save(r) PROVE FInv'
  BY <1>7, LockStateKeeps, WriteStateKeeps DEF Save
<1>8. ASSUME NEW r \in Runs, Crash(r) PROVE FInv'
  BY <1>8, CrashKeeps
<1>9. CASE UNCHANGED vars
  <2>1. UNCHANGED <<plan, setting, folder, state, lock, target, pc, task, idle, closed, next,
                    dropped, tries, aborted, undone, hidden, leaked, saver, faults>>
    BY <1>9 DEF vars, files, commit, writes, told
  <2>2. TypedSteps'
    BY <2>1, KeysKept DEF FInv, Typed, TypedSteps
  <2>3. Typed'
    BY <2>1, <2>2, PlacesKept, WritersKept DEF FInv, Typed
  <2>4. LockInv'
    BY <2>1 DEF FInv, LockInv
  <2>5. TurnInv'
    BY <2>1 DEF FInv, TurnInv, Over, IsTable, Dest
  <2>6. TableInv'
    BY <2>1, TableKeptWhole DEF TableKept
  <2>7. ASSUME NEW q \in Runs PROVE RunInv(q)'
    <3>1. UNCHANGED Mine(q)
      BY <2>1 DEF Mine, Staging, Aside
    <3> QED BY <2>1, <3>1, Frame DEF FInv
  <2> QED BY <2>3, <2>4, <2>5, <2>6, <2>7 DEF FInv
<1> QED BY <1>1, <1>2, <1>3, <1>4, <1>5, <1>6, <1>7, <1>8, <1>9 DEF Next

\* The invariant holds at the start.
LEMMA InitKeeps ==
  ASSUME Init, Placed
  PROVE  FInv
<1> DEFINE old == [layout |-> 1, parts |-> OldParts]
<1>1. plan \in Plans /\ setting \in Settings
  BY DEF Init
<1>2. OldParts \in SUBSET OnDisk /\ IsFiniteSet(OldParts) /\ RowsOf(OldParts) = 1
  <2> DEFINE x == [run |-> 0, n |-> 0, rows |-> 1]
  <2>1. x \in OnDisk /\ x.rows = 1
    BY DEF OnDisk
  <2> HIDE DEF x
  <2>2. IsFiniteSet({x}) /\ RowsOf({x}) = 1
    BY <2>1, FS_Singleton, RowsOne
  <2> QED BY <2>1, <2>2 DEF OldParts, x
<1>3. old \in Manifest /\ old.parts = OldParts /\ old.layout = 1
  BY <1>2 DEF Manifest
<1> HIDE DEF old
<1>4. Real(Missing) /\ Real(Holding(OldParts, old))
  <2>1. Missing \in Folder /\ IsFiniteSet(Missing.files)
    BY FS_EmptySet DEF Missing, None, Folder, Manifest
  <2>2. Real(Missing)
    BY <2>1 DEF Real
  <2> QED BY <1>2, <1>3, <2>2, RealHolding
<1>5. folder = [p \in Paths |-> IF p = Dest /\ setting.exists THEN Holding(OldParts, old) ELSE Missing]
  BY DEF Init, old
<1>6. /\ \A p \in Paths : Real(folder[p])
      /\ folder[Dest] = IF setting.exists THEN Holding(OldParts, old) ELSE Missing
      /\ \A r \in Runs : folder[Staging(r)] = Missing /\ folder[Aside(r)] = Missing
      /\ folder \in [Paths -> Folder]
  <2>1. Dest \in Paths
    BY DEF Paths
  <2>2. \A p \in Paths : folder[p] = IF p = Dest /\ setting.exists THEN Holding(OldParts, old) ELSE Missing
    BY <1>5
  <2>3. \A p \in Paths : Real(folder[p])
    BY <1>4, <2>2
  <2>4. \A r \in Runs : folder[Staging(r)] = Missing /\ folder[Aside(r)] = Missing
    BY <2>2, PathFacts
  <2>5. folder \in [Paths -> Folder]
    BY <1>5, <2>3 DEF Real
  <2> QED BY <2>1, <2>2, <2>3, <2>4, <2>5
<1>7. TypedPlaces
  BY <1>1, <1>6 DEF TypedPlaces, Real
<1>8. TypedSteps
  <2>1. "start" \in Steps
    BY DEF Steps, Before, Early
  <2>2. 0 \in 0..RemoveTries /\ 0 \in 0..MaxFaults
    BY CsvConstants
  <2> QED BY <2>1, <2>2 DEF Init, TypedSteps
<1>9. TypedWriters
  <2>1. \A r \in Runs : DOMAIN task[r] = Inserts(r) /\ \A i \in Inserts(r) : task[r][i] \in Task
    <3> TAKE r \in Runs
    <3>1. task[r] = [i \in Inserts(r) |-> [step |-> "queued", part |-> NoPart, full |-> {}, left |-> 0]]
      BY DEF Init
    <3> QED BY <3>1 DEF Task, Open, NoPart
  <2>2. \A r \in Runs : /\ DOMAIN idle[r] = {Stream(r, i) : i \in Inserts(r)}
                        /\ \A s \in DOMAIN idle[r] : idle[r][s] \in Seq(Open)
    <3> TAKE r \in Runs
    <3>1. idle[r] = [s \in {Stream(r, i) : i \in Inserts(r)} |-> <<>>]
      BY DEF Init
    <3> QED BY <3>1
  <2>3. DOMAIN task = Runs /\ DOMAIN idle = Runs
    BY DEF Init
  <2>4. closed \in [Runs -> SUBSET OnDisk] /\ next \in [Runs -> Nat] /\ dropped \in [Runs -> BOOLEAN]
    BY DEF Init
  <2> QED BY <2>1, <2>2, <2>3, <2>4 DEF TypedWriters
<1>10. \A r \in Runs : pc[r] = "start"
  BY DEF Init
<1>11. LockInv
  <2>1. \A r \in Runs : lock # r
    BY PathFacts DEF Init
  <2> QED BY <1>10, <2>1 DEF Init, LockInv, Locked
<1>12. TurnInv
  <2>1. setting.overlap => IsTable(Dest)
    <3>1. setting.overlap => setting.exists
      BY <1>1 DEF Placed
    <3>2. old # None
      <4>1. None.layout = 0
        BY DEF None
      <4> QED BY <1>3, <4>1
    <3>3. setting.overlap => folder[Dest] = Holding(OldParts, old)
      BY <1>6, <3>1
    <3> QED BY <3>2, <3>3, HoldingParts DEF IsTable
  <2> QED BY <1>10, <2>1 DEF TurnInv
<1>13. TableInv
  <2>1. Whole(Missing)
    BY NothingListed DEF Whole, Committed, Missing, None
  <2>2. Whole(Holding(OldParts, old)) /\ \A p \in OldParts : p.run = 0
    <3> DEFINE f == Holding(OldParts, old)
    <3>1. f.files = OldParts /\ f.manifest = old
      BY HoldingParts
    <3> HIDE DEF f
    <3>2. (\A p \in OldParts : p.run = 0) /\ PartsOf(OldParts, 0) = OldParts
      BY DEF PartsOf, OldParts
    <3>3. RowsAsked(plan, 0) = 1
      BY DEF RowsAsked
    <3>4. WholeFor(plan, f)
      BY <1>2, <1>3, <3>1, <3>2, <3>3 DEF WholeFor
    <3>5. Committed(f)
      BY <1>3, <3>1, <3>2 DEF Committed
    <3> QED BY <3>2, <3>4, <3>5 DEF Whole, f
  <2>3. Whole(Table0) /\ \A r \in Runs : Whole(folder[Aside(r)])
    BY <1>6, <2>1, <2>2 DEF Table0
  <2>4. Table0.files \subseteq Table0.manifest.parts
    <3>1. CASE setting.exists
      BY <1>3, <1>6, <3>1, HoldingParts DEF Table0
    <3>2. CASE ~setting.exists
      BY <1>6, <3>2 DEF Table0, Missing
    <3> QED BY <3>1, <3>2
  <2> QED BY <2>3, <2>4 DEF TableInv, TableTidy
<1>14. ASSUME NEW r \in Runs PROVE RunInv(r)
  <2>1. /\ \A i \in Inserts(r) : task[r][i].step = "queued"
        /\ \A s \in DOMAIN idle[r] : idle[r][s] = <<>>
        /\ closed[r] = {} /\ next[r] = 0 /\ ~dropped[r] /\ ~aborted[r]
    <3>1. task[r] = [i \in Inserts(r) |-> [step |-> "queued", part |-> NoPart, full |-> {}, left |-> 0]]
      BY DEF Init
    <3>2. idle[r] = [s \in {Stream(r, i) : i \in Inserts(r)} |-> <<>>]
      BY DEF Init
    <3>3. closed[r] = {} /\ next[r] = 0 /\ ~dropped[r] /\ ~aborted[r]
      BY DEF Init
    <3> QED BY <3>1, <3>2, <3>3
  <2>2. Fresh(r)
    BY <1>6, <2>1 DEF Fresh, Staged
  <2> QED BY <1>6, <1>10, <2>2 DEF RunInv, Books, Ready, Committing, Cleaned
<1> QED BY <1>7, <1>8, <1>9, <1>11, <1>12, <1>13, <1>14 DEF FInv, Typed

\* What FInv says holds of every state: no run of the folder ever has a part
\* in two hands, commits less than it was asked for, or finds the table's
\* place in a state its commit does not expect.
THEOREM FolderInvariant ==
  ASSUME Placed
  PROVE  Spec => []FInv
<1>1. Init => FInv
  BY InitKeeps
<1>2. FInv /\ [Next]_vars => FInv'
  BY StepKeeps
<1> QED BY <1>1, <1>2, PTL DEF Spec

-----------------------------------------------------------------------------
(* What the runs check.                                                    *)

\* No save of a cursor loses another's: persist_watermark reads and writes
\* the whole state file under the root's lock.
THEOREM CursorsAreKept ==
  ASSUME Placed
  PROVE  Spec => []CursorsKept
<1>1. FInv => CursorsKept
  BY DEF FInv, LockInv, CursorsKept
<1> QED BY <1>1, FolderInvariant, PTL

\* The table's folder holds no part its manifest does not list, but while an
\* append moves its own and after a commit that could not be undone, and a
\* run that is over leaves no staging folder.
THEOREM FolderIsTidy ==
  ASSUME Placed
  PROVE  Spec => []FolderTidy
<1>1. FInv => FolderTidy
  <2> SUFFICES ASSUME FInv PROVE FolderTidy
    OBVIOUS
  <2>1. ASSUME NEW r \in Runs, pc[r] \in {"ok", "failed"}, r \notin leaked
        PROVE  ~folder[Staging(r)].there
    BY <2>1 DEF FInv, RunInv, Cleaned, Staged
  <2>2. TableTidy
    BY DEF FInv, TableInv
  <2> QED BY <2>1, <2>2 DEF FolderTidy, TableTidy, Table0
<1> QED BY <1>1, FolderInvariant, PTL

-----------------------------------------------------------------------------
(* The table changes by whole runs: the folder implements TableContract.   *)

\* The runs a folder lists, and the folder whose runs are published.
Names(f) == {p.run : p \in f.manifest.parts}
Seen == IF Table0.there \/ hidden = 0 THEN Table0 ELSE folder[Aside(hidden)]

\* What is published is what is listed, as every folder is whole.
LEMMA PublishedIs ==
  FInv => /\ Published = Names(Seen) /\ Published \in SUBSET (Runs \cup {0})
          /\ (Shown <=> Table0.there) /\ Shown \in BOOLEAN
<1> SUFFICES ASSUME FInv
             PROVE  /\ Published = Names(Seen) /\ Published \in SUBSET (Runs \cup {0})
                    /\ (Shown <=> Table0.there) /\ Shown \in BOOLEAN
  OBVIOUS
<1>1. Published = Contents(Seen)
  BY DEF Published, Seen, Table0
<1>2. Seen \in {folder[Dest]} \cup {folder[Aside(q)] : q \in Runs}
  BY DEF Seen, Table0, FInv, Typed, TypedSteps
<1>3. WholeFor(plan, Seen)
  BY <1>2, WholeFolders DEF Whole
<1>4. Published = Names(Seen)
  BY <1>1, <1>3, ContentsWhole DEF Names
<1>5. Seen.manifest.parts \subseteq OnDisk
  <2>1. \E p \in Paths : Seen = folder[p]
    BY <1>2, PathFacts DEF Paths
  <2> QED BY <2>1, FolderParts DEF FInv, Typed
<1>6. Names(Seen) \in SUBSET (Runs \cup {0})
  BY <1>5 DEF Names, OnDisk
<1>7. Shown <=> Table0.there
  BY DEF Shown, Table0
<1>8. Shown \in BOOLEAN
  BY PathFacts DEF FInv, Typed, TypedPlaces, Shown, Folder, Dest, Paths
<1> QED BY <1>4, <1>6, <1>7, <1>8

\* What a step of a run may do to the table.
TableMoves(r) ==
  \/ Names(Seen)' = Names(Seen)
  \/ ~Table0.there /\ Table0'.there /\ Names(Seen)' = {}
  \/ Table0'.there /\ Names(Seen)' = {r}
  \/ /\ Table0.there /\ Table0'.there
     /\ r \notin Names(Seen) /\ Names(Seen)' = Names(Seen) \cup {r}

\* Each of these is a step of TableContract, or none.
LEMMA MovesRefine ==
  ASSUME FInv, FInv', NEW r \in Runs, TableMoves(r)
  PROVE  [Table!Next]_(Table!vars)
<1>1. Published = Names(Seen) /\ (Shown <=> Table0.there) /\ Shown \in BOOLEAN
  BY PublishedIs
<1>2. (FInv => /\ Published = Names(Seen) /\ Published \in SUBSET (Runs \cup {0})
               /\ (Shown <=> Table0.there) /\ Shown \in BOOLEAN)'
  BY PublishedIs, PTL
<1>3. Published' = Names(Seen)' /\ (Shown' <=> Table0'.there) /\ Shown' \in BOOLEAN
  BY <1>2
<1>4. CASE Names(Seen)' = Names(Seen)
  <2>1. Published' = Published
    BY <1>1, <1>3, <1>4
  <2>2. CASE Shown' = Shown
    BY <2>1, <2>2 DEF Table!vars
  <2>3. CASE Shown /\ ~Shown'
    <3>1. Shown' = FALSE
      BY <1>3, <2>3
    <3> QED BY <2>1, <2>3, <3>1 DEF Table!Next, Table!Hide
  <2>4. CASE ~Shown /\ Shown'
    <3>1. Shown' = TRUE
      BY <1>3, <2>4
    <3> QED BY <2>1, <2>4, <3>1 DEF Table!Next, Table!Show
  <2> QED BY <1>1, <1>3, <2>2, <2>3, <2>4
<1>5. CASE ~Table0.there /\ Table0'.there /\ Names(Seen)' = {}
  <2>1. ~Shown /\ Published' = {}
    BY <1>1, <1>3, <1>5
  <2>2. Shown' = TRUE
    BY <1>3, <1>5
  <2> QED BY <2>1, <2>2 DEF Table!Next, Table!Create
<1>6. CASE Table0'.there /\ Names(Seen)' = {r}
  <2>1. Published' = {r}
    BY <1>3, <1>6
  <2>2. Shown' = TRUE
    BY <1>3, <1>6
  <2> QED BY <2>1, <2>2 DEF Table!Next, Table!Refresh
<1>7. CASE /\ Table0.there /\ Table0'.there
           /\ r \notin Names(Seen) /\ Names(Seen)' = Names(Seen) \cup {r}
  <2>1. r \in Runs \ Published /\ Published' = Published \cup {r}
    BY <1>1, <1>3, <1>7
  <2>2. Shown
    BY <1>1, <1>7
  <2>3. Shown' = Shown
    BY <1>1, <1>3, <1>7
  <2> QED BY <2>1, <2>2, <2>3 DEF Table!Next, Table!Append
<1> QED BY <1>4, <1>5, <1>6, <1>7 DEF TableMoves

\* A step that leaves the table's folder, and those moved aside, alone.
LEMMA StillTable ==
  ASSUME FInv, NEW r \in Runs, folder'[Dest] = folder[Dest], hidden' = hidden,
         \A q \in Runs : folder'[Aside(q)] = folder[Aside(q)]
  PROVE  TableMoves(r)
<1>1. hidden = 0 \/ hidden \in Runs
  BY DEF FInv, Typed, TypedSteps
<1>2. Table0' = Table0 /\ (hidden \in Runs => folder'[Aside(hidden)] = folder[Aside(hidden)])
  BY DEF Table0, Dest
<1>3. Seen' = Seen
  BY <1>1, <1>2 DEF Seen, Aside
<1>4. Names(Seen)' = Names(Seen)
  BY <1>3 DEF Names
<1> QED BY <1>4 DEF TableMoves

\* A step that writes to the run's staging folder only.
LEMMA StagingOnly ==
  ASSUME FInv, NEW r \in Runs, NEW f, folder' = At(Staging(r), f) \/ folder' = folder, hidden' = hidden
  PROVE  TableMoves(r)
<1>1. \A p \in Paths \ {Staging(r)} : folder'[p] = folder[p]
  BY DEF At, FInv, Typed, TypedPlaces
<1>2. folder'[Dest] = folder[Dest] /\ \A q \in Runs : folder'[Aside(q)] = folder[Aside(q)]
  BY <1>1, PathFacts
<1> QED BY <1>2, StillTable

\* A step that leaves the manifest of a table that is there.
LEMMA SameManifest ==
  ASSUME NEW r \in Runs, Table0.there, Table0'.there, Table0'.manifest.parts = Table0.manifest.parts
  PROVE  TableMoves(r)
<1>1. Seen = Table0 /\ Seen' = Table0'
  BY DEF Seen
<1>2. Names(Seen)' = Names(Seen)
  BY <1>1 DEF Names
<1> QED BY <1>2 DEF TableMoves

\* What creates the table: an empty one appears.
LEMMA CreateMoves ==
  ASSUME FInv, NEW r \in Runs, Create(r)
  PROVE  TableMoves(r)
<1>1. TypedPlaces /\ Dest \in Paths /\ folder \in [Paths -> Folder]
  BY PathFacts DEF FInv, Typed, TypedPlaces
<1>2. CASE CheckWrite(r) \/ FindDest(r)
  BY <1>2, StagingOnly DEF CheckWrite, FindDest, files, told
<1>3. CASE CreateStaging(r)
  BY <1>3, StagingOnly DEF CreateStaging, told
<1>4. CASE MakeDir(r) /\ folder' = folder
  BY <1>4, StagingOnly DEF MakeDir, told
<1>5. CASE ~folder[Dest].there /\ folder' = At(Dest, Holding({}, None))
  <2>1. folder'[Dest] = Holding({}, None)
    BY <1>1, <1>5 DEF At
  <2>2. Table0'.there /\ Table0'.manifest = None
    BY <2>1, HoldingParts DEF Table0, Dest
  <2>3. Seen' = Table0'
    BY <2>2 DEF Seen
  <2>4. None.parts = {}
    BY DEF None
  <2>5. Names(Seen)' = {}
    BY <2>2, <2>3, <2>4 DEF Names
  <2> QED BY <1>5, <2>2, <2>5 DEF TableMoves, Table0
<1>6. CASE DescribeDest(r) \/ DescribeFails(r)
  <2>1. Table0 = Holding({}, None)
    BY <1>6 DEF FInv, RunInv, Committing, DescribeDest, DescribeFails
  <2>2. Table0.there /\ Table0.manifest = None
    BY <2>1, HoldingParts
  <2>3. folder[Dest] \in Folder /\ None.parts = {} /\ Columns(r, {}).parts = {}
    BY <1>1 DEF None, Columns
  <2>4. folder'[Dest].manifest.parts = {}
    <3>1. CASE DescribeDest(r)
      <4>1. folder' = [folder EXCEPT ![Dest] = [folder[Dest] EXCEPT !.there = TRUE, !.manifest = Columns(r, {})]]
        BY <1>1, <3>1 DEF DescribeDest
      <4>2. folder'[Dest] = [folder[Dest] EXCEPT !.there = TRUE, !.manifest = Columns(r, {})]
        BY <1>1, <4>1
      <4> QED BY <2>3, <4>2 DEF Folder
    <3>2. CASE DescribeFails(r)
      <4>1. PICK left \in {{}, {Temporary(r)}} :
              folder' = [folder EXCEPT ![Dest] = [folder[Dest] EXCEPT !.files = @ \cup left]]
        BY <1>1, <3>2 DEF DescribeFails
      <4>2. folder'[Dest] = [folder[Dest] EXCEPT !.files = @ \cup left]
        BY <1>1, <4>1
      <4> QED BY <2>2, <2>3, <4>2 DEF Folder, Table0
    <3> QED BY <1>6, <3>1, <3>2
  <2>5. folder'[Dest].there
    <3>1. CASE DescribeDest(r)
      <4>1. folder' = [folder EXCEPT ![Dest] = [folder[Dest] EXCEPT !.there = TRUE, !.manifest = Columns(r, {})]]
        BY <1>1, <3>1 DEF DescribeDest
      <4>2. folder'[Dest] = [folder[Dest] EXCEPT !.there = TRUE, !.manifest = Columns(r, {})]
        BY <1>1, <4>1
      <4> QED BY <2>3, <4>2 DEF Folder
    <3>2. CASE DescribeFails(r)
      <4>1. PICK left \in {{}, {Temporary(r)}} :
              folder' = [folder EXCEPT ![Dest] = [folder[Dest] EXCEPT !.files = @ \cup left]]
        BY <1>1, <3>2 DEF DescribeFails
      <4>2. folder'[Dest] = [folder[Dest] EXCEPT !.files = @ \cup left]
        BY <1>1, <4>1
      <4> QED BY <2>2, <2>3, <4>2 DEF Folder, Table0
    <3> QED BY <1>6, <3>1, <3>2
  <2>6. Table0'.there /\ Table0'.manifest.parts = Table0.manifest.parts
    BY <2>2, <2>3, <2>4, <2>5 DEF Table0, Dest
  <2> QED BY <2>2, <2>6, SameManifest
<1> QED BY <1>2, <1>3, <1>4, <1>5, <1>6 DEF Create, MakeDir

\* Inserts, and the rest of what a run does outside its commit, write to its
\* staging folder.
LEMMA OwnMoves ==
  ASSUME FInv, NEW r \in Runs,
         Write(r) \/ ReadFails(r) \/ Finalize(r) \/ LockTable(r) \/ RefuseCommit(r)
         \/ Clean(r) \/ Save(r) \/ Crash(r)
  PROVE  TableMoves(r)
<1>1. CASE Write(r)
  <2>1. PICK i \in Inserts(r) :
          \/ BeginInsert(r, i) \/ WritePart(r, i) \/ OpenPart(r, i)
          \/ InsertFails(r, i) \/ EndInsert(r, i)
    BY <1>1 DEF Write
  <2>2. CASE BeginInsert(r, i) \/ InsertFails(r, i) \/ EndInsert(r, i)
    BY <2>2, StagingOnly DEF BeginInsert, InsertFails, EndInsert, files, told
  <2>3. CASE OpenPart(r, i)
    BY <2>3, StagingOnly DEF OpenPart, told
  <2>4. CASE WritePart(r, i)
    BY <2>4, StagingOnly DEF WritePart, Rewritten, told
  <2> QED BY <2>1, <2>2, <2>3, <2>4
<1>2. CASE ReadFails(r) \/ LockTable(r) \/ RefuseCommit(r)
  BY <1>2, StagingOnly DEF ReadFails, LockTable, RefuseCommit, files, told
<1>3. CASE Finalize(r)
  BY <1>3, StagingOnly DEF Finalize, told
<1>4. CASE Drop(r) \/ RemoveFails(r) \/ LockState(r) \/ WriteState(r) \/ Crash(r)
  BY <1>4, StagingOnly DEF Drop, RemoveFails, LockState, WriteState, Crash, files, told
<1>5. CASE Unlink(r)
  BY <1>5, StagingOnly DEF Unlink, told
<1>6. CASE RemoveDir(r)
  BY <1>6, StagingOnly DEF RemoveDir
<1> QED BY <1>1, <1>2, <1>3, <1>4, <1>5, <1>6 DEF Clean, Save

\* What replaces the table: its own run only, or the old one out of sight
\* and back.
LEMMA ReplaceMoves ==
  ASSUME FInv, NEW r \in Runs, Replace(r)
  PROVE  TableMoves(r)
<1>1. /\ TypedPlaces /\ Dest \in Paths /\ Staging(r) \in Paths /\ Aside(r) \in Paths
      /\ Dest # Staging(r) /\ Dest # Aside(r) /\ Aside(r) # Staging(r) /\ r # 0
      /\ folder \in [Paths -> Folder]
  BY PathFacts DEF FInv, Typed, TypedPlaces
<1>2. CASE Swap(r) \/ MoveIn(r)
  <2>1. folder'[Dest] = Staged(r)
    BY <1>1, <1>2 DEF Swap, Swapped, MoveIn, Staged
  <2>2. /\ Staged(r).there /\ Names(Staged(r)) = {r}
    BY <1>2, StagedWhole DEF Swap, MoveIn, Names
  <2>3. Table0' = Staged(r)
    BY <2>1 DEF Table0, Dest
  <2>4. Seen' = Staged(r)
    BY <2>2, <2>3 DEF Seen
  <2>5. Names(Seen)' = {r}
    BY <2>2, <2>4 DEF Names
  <2> QED BY <2>2, <2>3, <2>5 DEF TableMoves
<1>3. CASE MoveAside(r)
  <2>1. Table0.there /\ hidden' = r /\ folder' = [folder EXCEPT ![Dest] = folder[Aside(r)], ![Aside(r)] = folder[Dest]]
    BY <1>3 DEF MoveAside, Swapped, Table0
  <2>2. folder[Aside(r)] = Missing
    BY <1>3 DEF MoveAside, FInv, RunInv, Committing, Before
  <2>3. folder'[Dest] = Missing /\ folder'[Aside(r)] = Table0
    BY <1>1, <2>1, <2>2 DEF Table0
  <2>4. ~Table0'.there /\ hidden' # 0
    BY <1>1, <2>1, <2>3 DEF Table0, Dest, Missing
  <2>5. Seen' = Table0 /\ Seen = Table0
    BY <2>1, <2>3, <2>4 DEF Seen, Aside
  <2>6. Names(Seen)' = Names(Seen)
    BY <2>5 DEF Names
  <2> QED BY <2>6 DEF TableMoves
<1>4. CASE MoveInFails(r)
  <2>1. CASE folder' = folder
    BY <1>4, <2>1, StagingOnly DEF MoveInFails
  <2>2. CASE folder' = [folder EXCEPT ![Dest] = folder[Aside(r)], ![Aside(r)] = Missing]
    <3>1. ~Table0.there /\ hidden = r /\ folder[Aside(r)].there
      BY <1>4 DEF MoveInFails, FInv, RunInv, Committing
    <3>2. folder'[Dest] = folder[Aside(r)]
      BY <1>1, <2>2
    <3>3. Table0' = folder[Aside(r)]
      BY <3>2 DEF Table0, Dest
    <3>4. Seen' = folder[Aside(r)] /\ Seen = folder[Aside(r)]
      BY <1>1, <3>1, <3>3 DEF Seen
    <3>5. Names(Seen)' = Names(Seen)
      BY <3>4 DEF Names
    <3> QED BY <3>5 DEF TableMoves
  <2> QED BY <1>4, <2>1, <2>2 DEF MoveInFails
<1>5. CASE MoveOut(r)
  <2>1. Table0.there
    BY <1>5 DEF MoveOut, FInv, RunInv, Committing
  <2>2. folder'[Dest] = folder[Dest]
    BY <1>1, <1>5 DEF MoveOut, Swapped, At
  <2>3. Table0' = Table0
    BY <2>2 DEF Table0, Dest
  <2> QED BY <2>1, <2>3, SameManifest
<1> QED BY <1>2, <1>3, <1>4, <1>5 DEF Replace

\* What appends to the table: the run's parts are listed in one step.
LEMMA MoveMoves ==
  ASSUME FInv, NEW r \in Runs, Move(r)
  PROVE  TableMoves(r)
<1>1. /\ TypedPlaces /\ Dest \in Paths /\ Staging(r) \in Paths /\ Dest # Staging(r) /\ r # 0
      /\ folder \in [Paths -> Folder]
  BY PathFacts DEF FInv, Typed, TypedPlaces
<1>2. pc[r] = "move"
  BY DEF Move, MovePart, ListParts, MoveFails
<1>3. /\ Table0.there /\ Table0 \in Folder /\ (\A p \in closed[r] : p.run = r)
      /\ target[r] = IF IsTable(Dest) THEN Table0.manifest ELSE Columns(r, {})
  BY <1>2, Moving
<1>4. ASSUME NEW G, folder'[Dest] = [Table0 EXCEPT !.files = G] PROVE TableMoves(r)
  <2>1. Table0'.there /\ Table0'.manifest = Table0.manifest
    BY <1>3, <1>4 DEF Folder, Table0, Dest
  <2> QED BY <1>3, <2>1, SameManifest
<1>5. CASE MovePart(r)
  <2>1. PICK p \in Unmoved(r) :
          folder' = [folder EXCEPT ![Staging(r)].files = @ \ {p}, ![Dest].files = @ \cup {p}]
    BY <1>5 DEF MovePart
  <2>2. folder'[Dest] = [Table0 EXCEPT !.files = Table0.files \cup {p}]
    BY <1>1, <2>1 DEF Table0
  <2> QED BY <1>4, <2>2
<1>6. CASE MoveFails(r)
  <2>1. CASE folder' = folder
    BY <1>6, <2>1, StagingOnly DEF MoveFails
  <2>2. CASE folder' = [folder EXCEPT ![Staging(r)].files = @ \cup Undo(r), ![Dest].files = @ \ Undo(r)]
    <3>1. folder'[Dest] = [Table0 EXCEPT !.files = Table0.files \ Undo(r)]
      BY <1>1, <2>2 DEF Table0
    <3> QED BY <1>4, <3>1
  <2> QED BY <1>6, <2>1, <2>2 DEF MoveFails
<1>7. CASE ListParts(r)
  <2>1. folder'[Dest] = [Table0 EXCEPT !.manifest = Listed(r)]
    BY <1>1, <1>7 DEF ListParts, Table0
  <2>2. Table0'.there /\ Table0'.manifest = Listed(r)
    BY <1>3, <2>1 DEF Folder, Table0, Dest
  <2>3. target[r].parts = Table0.manifest.parts
    <3>1. CASE IsTable(Dest)
      BY <1>3, <3>1
    <3>2. CASE ~IsTable(Dest)
      BY <1>3, <3>2 DEF IsTable, Table0, None, Columns
    <3> QED BY <3>1, <3>2
  <2>4. Listed(r).parts = Table0.manifest.parts \cup closed[r]
    <3>1. Columns(r, {}) = [layout |-> plan[r].layout, parts |-> {}]
      BY DEF Columns
    <3>2. Table0.manifest = [layout |-> Table0.manifest.layout, parts |-> Table0.manifest.parts]
      BY <1>3 DEF Folder, Manifest
    <3> QED BY <1>3, <2>3, <3>1, <3>2 DEF Listed
  <2>5. Seen = Table0 /\ Seen' = Table0'
    BY <1>3, <2>2 DEF Seen
  <2>6. Names(Seen) = Names(Table0)
    BY <2>5
  <2>7. Names(Seen)' = Names(Table0) \cup {p.run : p \in closed[r]}
    BY <2>2, <2>4, <2>5 DEF Names
  <2>8. CASE closed[r] = {}
    BY <2>6, <2>7, <2>8 DEF TableMoves
  <2>9. CASE closed[r] # {}
    <3>1. {p.run : p \in closed[r]} = {r}
      BY <1>3, <2>9
    <3>2. pc[r] \in Before
      BY <1>2 DEF Before
    <3>3. r \notin Names(Table0)
      BY <3>2, NotListed DEF Names
    <3> QED BY <1>3, <2>2, <2>6, <2>7, <3>1, <3>3 DEF TableMoves
  <2> QED BY <2>8, <2>9
<1> QED BY <1>5, <1>6, <1>7 DEF Move

\* The folder implements TableContract: a reader of the manifest finds whole
\* runs, of one layout; a refresh takes the place of what was there in one
\* step, an append adds its run to it, and while the path is missing the old
\* table is kept beside it.
THEOREM CommitsAreWhole ==
  ASSUME Placed
  PROVE  Spec => CommitsWhole
<1>1. Init => Table!Init
  <2> SUFFICES ASSUME Init PROVE Table!Init
    OBVIOUS
  <2>1. FInv
    BY InitKeeps
  <2> QED BY <2>1, PublishedIs DEF Table!Init
<1>2. FInv /\ FInv' /\ [Next]_vars => [Table!Next]_(Table!vars)
  <2> SUFFICES ASSUME FInv, FInv', [Next]_vars PROVE [Table!Next]_(Table!vars)
    OBVIOUS
  <2>1. ASSUME NEW r \in Runs,
               Create(r) \/ Write(r) \/ ReadFails(r) \/ Finalize(r) \/ LockTable(r)
               \/ RefuseCommit(r) \/ Replace(r) \/ Move(r) \/ Clean(r) \/ Save(r) \/ Crash(r)
        PROVE  [Table!Next]_(Table!vars)
    <3>1. TableMoves(r)
      BY <2>1, CreateMoves, OwnMoves, ReplaceMoves, MoveMoves
    <3> QED BY <3>1, MovesRefine
  <2>2. CASE UNCHANGED vars
    <3>1. UNCHANGED <<plan, folder, hidden>>
      BY <2>2 DEF vars, files, told
    <3>2. Shown' = Shown
      BY <3>1 DEF Shown, Dest
    <3>3. Published' = Published
      BY <3>1 DEF Published, Contents, Size, Asked, Dest, Aside
    <3> QED BY <3>2, <3>3 DEF Table!vars
  <2> QED BY <2>1, <2>2 DEF Next
<1> QED BY <1>1, <1>2, FolderInvariant, PTL DEF Spec, CommitsWhole, Table!Spec

=============================================================================
