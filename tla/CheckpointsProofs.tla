--------------------------- MODULE CheckpointsProofs ---------------------------
(***************************************************************************)
(* Checkpoints for any number of processes, files and checkpoints: types,  *)
(* recorded checkpoints are whole, rewinds stay in scope and restore, and  *)
(* edits can be undone.                                                    *)
(*                                                                         *)
(* Every directory has one owner: the process that fills it until its row  *)
(* exists, then nobody, and after its row is gone the clean-up.  So what a *)
(* row stands for does not change, neither for rewinds nor for edits.  Of  *)
(* the workspace a process knows, as long as nobody disturbs it, that it is*)
(* still the one of the beginning (filling), or which of its files it has  *)
(* deleted and restored (rewinding).                                       *)
(***************************************************************************)
EXTENDS Checkpoints, TLAPS

Tree == [Files -> Contents \cup {Absent}]
Places == {"idle", "begin", "copy", "record", "metadata", "list", "delete", "restore", "clean"}
JobType ==
    [id : 0..MaxIds, todo : SUBSET Files, list : SUBSET Files, targeted : BOOLEAN,
     passed : SUBSET Files, plan : Seq({"must", "save", "target"}), files : SUBSET Files, must : BOOLEAN,
     expired : SUBSET Ids]

DiskOK ==
    /\ work \in Tree
    /\ snap \in [Ids -> Tree] /\ base \in [Ids -> Tree]
    /\ meta \in [Ids -> {"none", "full", "targeted"}] /\ gaps \in [Ids -> SUBSET Files]
    /\ dir \subseteq Ids /\ rows \subseteq Ids /\ mixed \subseteq Ids
    /\ lastId \in 0..MaxIds
JobsOK ==
    /\ pc \in [Procs -> Places] /\ job \in [Procs -> JobType]
    /\ seen \in [Procs -> Tree] /\ steady \subseteq Procs
CountsOK == ops \in 0..MaxOps /\ changes \in 0..MaxChanges

\* Types.
TypeOK == DiskOK /\ JobsOK /\ CountsOK

\* Identifiers that are not given out.
Fresh ==
    \A i \in Ids : i > lastId =>
        snap[i] = Empty /\ meta[i] = "none" /\ i \notin dir \cup rows \cup mixed

Fills(p) == pc[p] \in {"copy", "record"}
Rewinds(p) == pc[p] \in {"metadata", "list", "delete", "restore"}

\* Who is at work on a checkpoint has one.
Placed ==
    \A p \in Procs :
        /\ Fills(p) => job[p].id \in Ids /\ job[p].plan # <<>>
        /\ Rewinds(p) => job[p].id \in Ids

\* The owners of directories.
Owned ==
    /\ \A p \in Procs : job[p].id <= lastId /\ job[p].expired \subseteq (1..lastId) \ rows
    /\ \A p \in Procs : Fills(p) =>
          /\ job[p].id \in dir \ rows
          /\ \A q \in Procs : job[p].id \notin job[q].expired /\ (q # p => job[q].id # job[p].id)

\* What a process has copied so far.
CopiedBy(p) ==
    LET i == job[p].id IN
        /\ IF pc[p] = "copy" THEN meta[i] = "none" ELSE meta[i] = Kind(p) /\ job[p].todo = {}
        /\ \A f \in job[p].todo : snap[i][f] = Absent
        /\ i \notin mixed =>
              /\ pc[p] = "copy" => work = base[i]
              /\ \A f \in Files \ job[p].todo :
                    \/ snap[i][f] = base[i][f]
                    \/ f \in gaps[i] /\ snap[i][f] = Absent
                    \/ Kind(p) = "targeted" /\ (f \in gaps[i] \/ snap[i][f] = Absent)
Copied == \A p \in Procs : Fills(p) => CopiedBy(p)

Owners == TypeOK /\ Placed /\ Fresh /\ Owned

WholeInv == Owners /\ Copied /\ RecordedAreComplete

\* How far a rewind is, as long as nobody disturbs it and the row is there.
Reached(p, f) ==
    LET doomed == Doomed(job[p].targeted, job[p].list) IN
    IF pc[p] = "restore" /\ f \in job[p].list \ job[p].todo THEN snap[job[p].id][f]
    ELSE IF \/ pc[p] = "restore" /\ f \in doomed
            \/ pc[p] = "delete" /\ f \in doomed \ job[p].todo THEN Absent
    ELSE seen[p][f]
Rewound(p) ==
    LET i == job[p].id IN
    /\ pc[p] # "metadata" => job[p].targeted = (meta[i] = "targeted")
    /\ pc[p] \in {"delete", "restore"} =>
          job[p].list \subseteq Saved(i) /\ Saved(i) \subseteq job[p].list \cup job[p].passed
    /\ pc[p] = "delete" => job[p].todo \subseteq Doomed(job[p].targeted, job[p].list)
    /\ pc[p] = "restore" => job[p].todo \subseteq job[p].list
    /\ p \in steady => \A f \in Files :
          work[f] = Reached(p, f) \/ (f \in job[p].passed /\ work[f] = seen[p][f])
RewindInv == \A p \in Procs : Rewinds(p) /\ job[p].id \in rows => Rewound(p)

\* What an edit can rely on, as long as nobody disturbs it.
Edits(p) == pc[p] \in {"begin", "copy", "record"}
EditedBy(p) ==
    LET i == job[p].id IN
    /\ job[p].must /\ job[p].plan # <<>> => job[p].plan[Len(job[p].plan)] = "must"
    /\ p \in steady /\ job[p].plan # <<>> =>
          work = seen[p] /\ (Fills(p) => i \notin mixed /\ base[i] = seen[p])
    /\ p \in steady /\ job[p].plan = <<>> /\ job[p].must =>
          /\ i \in rows
          /\ \A f \in Files : snap[i][f] = seen[p][f] \/ (f \in gaps[i] /\ snap[i][f] = Absent)
EditInv == \A p \in Procs : Edits(p) => EditedBy(p)
-----------------------------------------------------------------------------
(* Types *)

LEMMA PlanTypes ==
    ASSUME NEW plan \in Plans
    PROVE  plan \in Seq({"must", "save", "target"}) /\ plan # <<>>
<1>1. <<"must">> \in Seq({"must", "save", "target"}) /\ <<"must">> # <<>>
  OBVIOUS
<1>2. <<"save", "target">> \in Seq({"must", "save", "target"}) /\ <<"save", "target">> # <<>>
  OBVIOUS
<1>3. <<"save", "target", "must">> \in Seq({"must", "save", "target"}) /\ <<"save", "target", "must">> # <<>>
  OBVIOUS
<1> QED
  BY <1>1, <1>2, <1>3 DEF Plans

LEMMA IdleType == Idle \in JobType
<1>1. 0 \in 0..MaxIds
  BY CheckpointsAssumption
<1>2. \A E : <<>> \in Seq(E)
  OBVIOUS
<1>3. FALSE \in BOOLEAN /\ {} \in SUBSET Files /\ {} \in SUBSET Ids
  OBVIOUS
<1> QED
  BY <1>1, <1>2, <1>3, Zenon DEF Idle, JobType

LEMMA JobUpdates ==
    ASSUME NEW j \in JobType
    PROVE  /\ \A T \in SUBSET Files : [j EXCEPT !.todo = T] \in JobType
           /\ \A T \in SUBSET Files : [j EXCEPT !.files = T] \in JobType
           /\ \A T \in SUBSET Files, L \in SUBSET Files, S \in SUBSET Files :
                 [j EXCEPT !.list = L, !.passed = S, !.todo = T] \in JobType
           /\ \A T \in SUBSET Files, S \in SUBSET Files : [j EXCEPT !.todo = T, !.passed = S] \in JobType
           /\ \A b \in BOOLEAN : [j EXCEPT !.targeted = b] \in JobType
           /\ \A E \in SUBSET Ids : [j EXCEPT !.expired = E] \in JobType
           /\ \A i \in 0..MaxIds : [j EXCEPT !.id = i] \in JobType
           /\ \A T \in SUBSET Files, i \in 0..MaxIds : [j EXCEPT !.id = i, !.todo = T] \in JobType
           /\ j.plan # <<>> => [j EXCEPT !.plan = Tail(@)] \in JobType
           /\ j.plan # <<>> => [j EXCEPT !.plan = Tail(@), !.id = 0, !.todo = {}] \in JobType
<1>1. 0 \in 0..MaxIds
  BY CheckpointsAssumption
<1>2. j.plan # <<>> => Tail(j.plan) \in Seq({"must", "save", "target"})
  BY DEF JobType
<1> QED
  BY <1>1, <1>2 DEF JobType

LEMMA TypedInit ==
    ASSUME Init PROVE TypeOK
<1> USE CheckpointsAssumption
<1>1. Empty \in Tree /\ work \in Tree
  BY DEF Init, Empty, Tree
<1>2. DiskOK
  BY <1>1 DEF Init, DiskOK, Ids
<1>3. JobsOK
  BY <1>1, IdleType DEF Init, JobsOK, Places
<1>4. CountsOK
  BY DEF Init, CountsOK
<1> QED
  BY <1>2, <1>3, <1>4 DEF TypeOK

\* One update of a process.
LEMMA GotoTypes ==
    ASSUME JobsOK, NEW p \in Procs, NEW l \in Places, NEW j \in JobType, Goto(p, l, j)
    PROVE  pc' \in [Procs -> Places] /\ job' \in [Procs -> JobType]
  BY DEF JobsOK, Goto

LEMMA PutTypes ==
    ASSUME TypeOK, Placed, NEW p, NEW f \in Files, NEW c \in Contents \cup {Absent}, Put(p, f, c)
    PROVE  work' \in Tree /\ seen' \in [Procs -> Tree] /\ steady' \subseteq Procs /\ mixed' \subseteq Ids
<1>1. work' \in Tree
  BY DEF TypeOK, DiskOK, Tree, Put
<1>2. seen' \in [Procs -> Tree] /\ steady' \subseteq Procs
  BY DEF TypeOK, JobsOK, Put
<1>3. Filling \subseteq Ids
  BY DEF Filling, Placed, Fills
<1> QED
  BY <1>1, <1>2, <1>3 DEF TypeOK, DiskOK, Put

\* An operation begins, and ends.
LEMMA BeginTypes ==
    ASSUME TypeOK, NEW p \in Procs, NEW l \in Places, NEW j \in JobType, Begin(p, l, j)
    PROVE  JobsOK'
<1>1. pc' \in [Procs -> Places] /\ job' \in [Procs -> JobType]
  BY GotoTypes DEF TypeOK, Begin
<1>2. seen' \in [Procs -> Tree] /\ steady' \subseteq Procs
  BY DEF TypeOK, JobsOK, DiskOK, Begin
<1> QED
  BY <1>1, <1>2 DEF JobsOK

LEMMA EndTypes ==
    ASSUME TypeOK, NEW p \in Procs, End(p)
    PROVE  JobsOK'
<1>1. pc' \in [Procs -> Places] /\ job' \in [Procs -> JobType]
  BY GotoTypes, IdleType DEF TypeOK, End, Places
<1>2. Empty \in Tree
  BY DEF Empty, Tree
<1>3. seen' \in [Procs -> Tree] /\ steady' \subseteq Procs
  BY <1>2 DEF TypeOK, JobsOK, End
<1> QED
  BY <1>1, <1>3 DEF JobsOK

\* The actions that leave the checkpoints and their rows alone.
OffDisk(p) ==
    \/ \E S \in (SUBSET Files) \ {{}}, plan \in Plans : EditStart(p, S, plan)
    \/ EditEnds(p) \/ ReadMetadata(p) \/ ListSnapshot(p) \/ RestoreStart(p) \/ RewindEnds(p)
    \/ CleanEnds(p)
    \/ \E f \in Files : DeleteFile(p, f) \/ PassOverFile(p, f) \/ RestoreFile(p, f)
    \/ \E f \in Files, c \in Contents : WriteFile(p, f, c)
    \/ \E i \in rows : RewindStart(p, i)

\* The actions on checkpoints and rows, and the copies that fill a checkpoint.
OnDisk(p) ==
    \/ BeginCheckpoint(p) \/ WriteMetadata(p) \/ InsertRecord(p) \/ CheckpointFails(p)
    \/ \E f \in Files : CopyFile(p, f) \/ CopyOntoItself(p, f)
    \/ \E S \in SUBSET Old : CleanRows(p, S)
    \/ \E i \in job[p].expired : CleanDisk(p, i)
    \/ Stops(p)

LEMMA OffDiskTypes ==
    ASSUME TypeOK, Placed, NEW p \in Procs, OffDisk(p)
    PROVE  DiskOK' /\ JobsOK'
<1> DEFINE j == job[p]
<1>1. j \in JobType
  BY DEF TypeOK, JobsOK
<1>2. UNCHANGED <<work, mixed, disk>> => DiskOK'
  BY DEF TypeOK, DiskOK, disk
<1>3. UNCHANGED disk /\ work' \in Tree /\ mixed' \subseteq Ids => DiskOK'
  BY DEF TypeOK, DiskOK, disk
<1>4. ASSUME NEW S \in (SUBSET Files) \ {{}}, NEW plan \in Plans, EditStart(p, S, plan)
      PROVE  DiskOK' /\ JobsOK'
  <2> DEFINE k == [Idle EXCEPT !.plan = plan, !.files = S, !.must = plan[Len(plan)] = "must"]
  <2>1. plan \in Seq({"must", "save", "target"}) /\ (plan[Len(plan)] = "must") \in BOOLEAN
    BY PlanTypes
  <2>2. k \in JobType
    BY <2>1, IdleType DEF JobType
  <2>3. JobsOK'
    BY <1>4, <2>2, BeginTypes DEF EditStart, Places
  <2> QED
    BY <1>2, <1>4, <2>3 DEF EditStart, Begin
<1>5. CASE EditEnds(p) \/ RewindEnds(p) \/ CleanEnds(p)
  BY <1>2, <1>5, EndTypes DEF EditEnds, RewindEnds, CleanEnds
<1>6. CASE ReadMetadata(p)
  <2>1. [j EXCEPT !.targeted = (meta[j.id] = "targeted")] \in JobType
    BY <1>1, JobUpdates
  <2> QED
    BY <1>2, <1>6, <2>1, GotoTypes DEF TypeOK, JobsOK, ReadMetadata, Untouched, Places
<1>7. CASE ListSnapshot(p)
  <2>1. PICK list \in SUBSET Saved(j.id) :
               Goto(p, "delete", [j EXCEPT !.list = list, !.passed = Saved(j.id) \ list,
                                           !.todo = Doomed(j.targeted, list)])
    BY <1>7 DEF ListSnapshot
  <2>2. list \in SUBSET Files /\ Doomed(j.targeted, list) \in SUBSET Files /\ Saved(j.id) \ list \in SUBSET Files
    BY DEF Present, Doomed, Saved
  <2>3. [j EXCEPT !.list = list, !.passed = Saved(j.id) \ list, !.todo = Doomed(j.targeted, list)] \in JobType
    BY <1>1, <2>2, JobUpdates
  <2>4. pc' \in [Procs -> Places] /\ job' \in [Procs -> JobType]
    BY <2>1, <2>3, GotoTypes DEF TypeOK, Places
  <2> QED
    BY <1>2, <1>7, <2>4 DEF TypeOK, JobsOK, ListSnapshot, Untouched
<1>8. CASE RestoreStart(p)
  <2>1. [j EXCEPT !.todo = j.list] \in JobType
    BY <1>1, JobUpdates DEF JobType
  <2> QED
    BY <1>2, <1>8, <2>1, GotoTypes DEF TypeOK, JobsOK, RestoreStart, Untouched, Places
<1>9. ASSUME NEW f \in Files, DeleteFile(p, f) \/ RestoreFile(p, f)
      PROVE  DiskOK' /\ JobsOK'
  <2>1. [j EXCEPT !.todo = @ \ {f}] \in JobType
    BY <1>1, JobUpdates DEF JobType
  <2>2. snap[j.id][f] \in Contents \cup {Absent} \/ ~RestoreFile(p, f)
    BY DEF Placed, Rewinds, RestoreFile, TypeOK, DiskOK, Tree
  <2>3. pc' \in [Procs -> Places] /\ job' \in [Procs -> JobType]
    BY <1>9, <2>1, GotoTypes DEF TypeOK, DeleteFile, RestoreFile, Places
  <2>4. work' \in Tree /\ seen' \in [Procs -> Tree] /\ steady' \subseteq Procs /\ mixed' \subseteq Ids
    BY <1>9, <2>2, PutTypes DEF DeleteFile, RestoreFile
  <2> QED
    BY <1>3, <1>9, <2>3, <2>4 DEF JobsOK, DeleteFile, RestoreFile
<1>12. ASSUME NEW f \in Files, PassOverFile(p, f)
       PROVE  DiskOK' /\ JobsOK'
  <2>1. j.todo \ {f} \in SUBSET Files /\ j.passed \cup {f} \in SUBSET Files
    BY <1>1 DEF JobType
  <2>2. [j EXCEPT !.todo = j.todo \ {f}, !.passed = j.passed \cup {f}] \in JobType
    BY <1>1, <2>1, JobUpdates
  <2> QED
    BY <1>2, <1>12, <2>2, GotoTypes DEF TypeOK, JobsOK, PassOverFile, Untouched, Places
<1>10. ASSUME NEW f \in Files, NEW c \in Contents, WriteFile(p, f, c)
       PROVE  DiskOK' /\ JobsOK'
  <2>1. [j EXCEPT !.files = @ \ {f}] \in JobType
    BY <1>1, JobUpdates DEF JobType
  <2>3. pc' \in [Procs -> Places] /\ job' \in [Procs -> JobType]
    BY <1>10, <2>1, GotoTypes DEF TypeOK, WriteFile, Places
  <2>4. work' \in Tree /\ seen' \in [Procs -> Tree] /\ steady' \subseteq Procs /\ mixed' \subseteq Ids
    BY <1>10, PutTypes DEF WriteFile
  <2> QED
    BY <1>3, <1>10, <2>3, <2>4 DEF JobsOK, WriteFile
<1>11. ASSUME NEW i \in rows, RewindStart(p, i)
       PROVE  DiskOK' /\ JobsOK'
  <2>1. i \in 0..MaxIds
    BY CheckpointsAssumption DEF TypeOK, DiskOK, Ids
  <2>2. [Idle EXCEPT !.id = i] \in JobType
    BY <2>1, IdleType, JobUpdates
  <2>3. JobsOK'
    BY <1>11, <2>2, BeginTypes DEF RewindStart, Places
  <2> QED
    BY <1>2, <1>11, <2>3 DEF RewindStart, Begin
<1> QED
  BY <1>4, <1>5, <1>6, <1>7, <1>8, <1>9, <1>10, <1>11, <1>12 DEF OffDisk

LEMMA OtherChangeTypes ==
    ASSUME TypeOK, Placed, NEW f \in Files, NEW c \in Contents \cup {Absent}, OtherChange(f, c)
    PROVE  DiskOK' /\ JobsOK'
<1>1. work' \in Tree /\ seen' \in [Procs -> Tree] /\ steady' \subseteq Procs /\ mixed' \subseteq Ids
  BY PutTypes DEF OtherChange
<1> QED
  BY <1>1 DEF OtherChange, TypeOK, DiskOK, JobsOK, disk

\* A checkpoint without a row goes away, if there is one.
LEMMA AbandonTypes ==
    ASSUME TypeOK, NEW p \in Procs, Abandon(p), UNCHANGED <<work, mixed>>
    PROVE  DiskOK'
<1>1. Empty \in Tree
  BY DEF Empty, Tree
<1>2. CASE Unrecorded(p)
  <2>1. job[p].id \in Ids
    BY <1>2, CheckpointsAssumption DEF Unrecorded, TypeOK, JobsOK, JobType, Ids
  <2> QED
    BY <1>1, <1>2, <2>1 DEF Abandon, Dropped, TypeOK, DiskOK
<1>3. CASE ~Unrecorded(p)
  BY <1>3 DEF Abandon, disk, TypeOK, DiskOK
<1> QED
  BY <1>2, <1>3

\* The actions on checkpoints and rows.
LEMMA CheckpointTypes ==
    ASSUME TypeOK, Placed, NEW p \in Procs, OnDisk(p)
    PROVE  DiskOK' /\ JobsOK'
<1> DEFINE j == job[p]
<1>1. j \in JobType
  BY DEF TypeOK, JobsOK
<1>2. CASE BeginCheckpoint(p)
  <2> DEFINE i == lastId + 1
             k == [j EXCEPT !.id = i, !.todo = Scope(j.plan, j.files)]
  <2>1. i \in Ids /\ i \in 0..MaxIds
    BY <1>2, CheckpointsAssumption DEF BeginCheckpoint, TypeOK, DiskOK, Ids
  <2>2. Scope(j.plan, j.files) \in SUBSET Files
    BY <1>1 DEF Scope, JobType
  <2>3. k \in JobType
    BY <1>1, <2>1, <2>2, JobUpdates
  <2>4. pc' \in [Procs -> Places] /\ job' \in [Procs -> JobType]
    BY <1>2, <2>3, GotoTypes DEF TypeOK, BeginCheckpoint, Places
  <2> QED
    BY <1>2, <2>1, <2>4 DEF BeginCheckpoint, Untouched, TypeOK, DiskOK, JobsOK
<1>3. CASE WriteMetadata(p)
  <2>1. pc' \in [Procs -> Places]
    BY <1>3 DEF WriteMetadata, TypeOK, JobsOK, Places
  <2>2. Kind(p) \in {"none", "full", "targeted"}
    BY DEF Kind
  <2> QED
    BY <1>3, <2>1, <2>2 DEF WriteMetadata, Untouched, TypeOK, DiskOK, JobsOK
<1>4. CASE InsertRecord(p)
  <2>1. [j EXCEPT !.plan = Tail(@)] \in JobType /\ j.id \in Ids
    BY <1>1, <1>4, JobUpdates DEF InsertRecord, Fills, Placed
  <2>2. pc' \in [Procs -> Places] /\ job' \in [Procs -> JobType]
    BY <1>4, <2>1, GotoTypes DEF TypeOK, InsertRecord, Places
  <2> QED
    BY <1>4, <2>1, <2>2 DEF InsertRecord, Untouched, TypeOK, DiskOK, JobsOK
<1>5. CASE CheckpointFails(p)
  <2>1. [j EXCEPT !.plan = Tail(@), !.id = 0, !.todo = {}] \in JobType
    BY <1>1, <1>5, JobUpdates DEF CheckpointFails, Checkpointing
  <2>2. pc' \in [Procs -> Places] /\ job' \in [Procs -> JobType]
    BY <1>5, <2>1, GotoTypes DEF TypeOK, CheckpointFails, Places
  <2> QED
    BY <1>5, <2>2, AbandonTypes DEF CheckpointFails, Untouched, TypeOK, JobsOK
<1>6. ASSUME NEW f \in Files, CopyFile(p, f)
      PROVE  DiskOK' /\ JobsOK'
  <2>1. [j EXCEPT !.todo = @ \ {f}] \in JobType
    BY <1>1, JobUpdates DEF JobType
  <2>2. pc' \in [Procs -> Places] /\ job' \in [Procs -> JobType]
    BY <1>6, <2>1, GotoTypes DEF TypeOK, CopyFile, Places
  <2>4. PICK c \in Taken(p, f) :
               /\ snap' = [snap EXCEPT ![j.id][f] = c]
               /\ gaps' = [gaps EXCEPT ![j.id] = IF c = work[f] THEN @ ELSE @ \cup {f}]
    BY <1>6 DEF CopyFile
  <2>5. gaps' \in [Ids -> SUBSET Files]
    BY <2>4 DEF TypeOK, DiskOK
  <2>3. snap' \in [Ids -> Tree]
    <3>1. \A i \in Ids, d \in Contents \cup {Absent} : [snap EXCEPT ![i][f] = d] \in [Ids -> Tree]
      BY DEF TypeOK, DiskOK, Tree
    <3>2. j.id \in Ids /\ c \in Contents \cup {Absent}
      BY <1>6 DEF CopyFile, Taken, Placed, Fills, TypeOK, DiskOK, Tree
    <3> QED
      BY <2>4, <3>1, <3>2
  <2> QED
    BY <1>6, <2>2, <2>3, <2>5 DEF CopyFile, Untouched, TypeOK, DiskOK, JobsOK
<1>10. ASSUME NEW f \in Files, CopyOntoItself(p, f)
       PROVE  DiskOK' /\ JobsOK'
  <2>1. [j EXCEPT !.todo = @ \ {f}] \in JobType
    BY <1>1, JobUpdates DEF JobType
  <2>2. pc' \in [Procs -> Places] /\ job' \in [Procs -> JobType]
    BY <1>10, <2>1, GotoTypes DEF TypeOK, CopyOntoItself, Places
  <2>3. work' \in Tree /\ seen' \in [Procs -> Tree] /\ steady' \subseteq Procs /\ mixed' \subseteq Ids
    BY <1>10, CheckpointsAssumption, PutTypes DEF CopyOntoItself
  <2>4. gaps' \in [Ids -> SUBSET Files]
    BY <1>10 DEF CopyOntoItself, TypeOK, DiskOK
  <2> QED
    BY <1>10, <2>2, <2>3, <2>4 DEF CopyOntoItself, TypeOK, DiskOK, JobsOK
<1>7. ASSUME NEW S \in SUBSET Old, CleanRows(p, S)
      PROVE  DiskOK' /\ JobsOK'
  <2>1. S \in SUBSET Ids
    BY DEF Old, TypeOK, DiskOK
  <2>2. [Idle EXCEPT !.expired = S] \in JobType
    BY <2>1, IdleType, JobUpdates
  <2>3. JobsOK'
    BY <1>7, <2>2, BeginTypes DEF CleanRows, Places
  <2> QED
    BY <1>7, <2>3 DEF CleanRows, Begin, TypeOK, DiskOK
<1>8. ASSUME NEW i \in j.expired, CleanDisk(p, i)
      PROVE  DiskOK' /\ JobsOK'
  <2>1. i \in Ids /\ [j EXCEPT !.expired = @ \ {i}] \in JobType
    BY <1>1, JobUpdates DEF JobType
  <2>2. job' \in [Procs -> JobType]
    BY <1>8, <2>1 DEF CleanDisk, TypeOK, JobsOK
  <2>3. snap' \in [Ids -> Tree]
    <3>1. \A f \in Files : [snap EXCEPT ![i][f] = Absent] \in [Ids -> Tree]
      BY <2>1 DEF TypeOK, DiskOK, Tree
    <3>2. snap' = snap \/ \E f \in Files : snap' = [snap EXCEPT ![i][f] = Absent]
      BY <1>8 DEF CleanDisk, Present
    <3> QED
      BY <3>1, <3>2 DEF TypeOK, DiskOK
  <2>4. meta' \in [Ids -> {"none", "full", "targeted"}] /\ dir' \subseteq Ids
    BY <1>8, <2>1 DEF CleanDisk, TypeOK, DiskOK
  <2> QED
    BY <1>8, <2>2, <2>3, <2>4 DEF CleanDisk, Untouched, TypeOK, DiskOK, JobsOK
<1>9. CASE Stops(p)
  BY <1>9, EndTypes, AbandonTypes DEF Stops
<1> QED
  BY <1>2, <1>3, <1>4, <1>5, <1>6, <1>7, <1>8, <1>9, <1>10 DEF OnDisk

\* The counters.
LEMMA CountsStep ==
    ASSUME TypeOK, Next
    PROVE  CountsOK'
<1> USE DEF TypeOK, CountsOK
<1>1. UNCHANGED counters => CountsOK'
  BY DEF counters
<1>2. ops < MaxOps /\ ops' = ops + 1 /\ changes' = changes => CountsOK'
  BY CheckpointsAssumption
<1>3. changes < MaxChanges /\ changes' = changes + 1 /\ ops' = ops => CountsOK'
  BY CheckpointsAssumption
<1>4. ASSUME NEW p \in Procs,
             \/ \E S \in (SUBSET Files) \ {{}}, plan \in Plans : EditStart(p, S, plan)
             \/ \E i \in rows : RewindStart(p, i)
             \/ \E S \in SUBSET Old : CleanRows(p, S)
      PROVE  CountsOK'
  BY <1>2, <1>4 DEF EditStart, RewindStart, CleanRows, Begin
<1>5. ASSUME NEW p \in Procs,
             \/ BeginCheckpoint(p) \/ WriteMetadata(p) \/ InsertRecord(p) \/ CheckpointFails(p) \/ EditEnds(p)
             \/ \E f \in Files : CopyFile(p, f) \/ CopyOntoItself(p, f)
             \/ \E f \in Files : DeleteFile(p, f) \/ PassOverFile(p, f) \/ RestoreFile(p, f)
             \/ \E f \in Files, c \in Contents : WriteFile(p, f, c)
             \/ ReadMetadata(p) \/ ListSnapshot(p) \/ RestoreStart(p) \/ RewindEnds(p)
             \/ \E i \in job[p].expired : CleanDisk(p, i)
             \/ CleanEnds(p) \/ Stops(p)
      PROVE  CountsOK'
  BY <1>1, <1>5 DEF BeginCheckpoint, WriteMetadata, InsertRecord, CheckpointFails, EditEnds, CopyFile,
     CopyOntoItself, DeleteFile, PassOverFile, RestoreFile, WriteFile, ReadMetadata, ListSnapshot, RestoreStart, RewindEnds, CleanDisk,
     CleanEnds, Stops, End
<1>6. ASSUME NEW f, NEW c, OtherChange(f, c) PROVE CountsOK'
  BY <1>3, <1>6 DEF OtherChange
<1> QED
  BY <1>4, <1>5, <1>6 DEF Next

LEMMA TypedStep ==
    ASSUME TypeOK, Placed, Next
    PROVE  TypeOK'
<1>1. ASSUME NEW p \in Procs, OffDisk(p) PROVE TypeOK'
  BY <1>1, OffDiskTypes, CountsStep DEF TypeOK
<1>2. ASSUME NEW p \in Procs, OnDisk(p)
      PROVE  TypeOK'
  BY <1>2, CheckpointTypes, CountsStep DEF TypeOK
<1>3. ASSUME NEW f \in Files, NEW c \in Contents \cup {Absent}, OtherChange(f, c) PROVE TypeOK'
  BY <1>3, OtherChangeTypes, CountsStep DEF TypeOK
<1> QED
  BY <1>1, <1>2, <1>3 DEF Next, OffDisk, OnDisk
-----------------------------------------------------------------------------
(* Recorded checkpoints are whole *)

\* A step that leaves the checkpoints, their rows and their owners alone.
Quiet ==
    /\ UNCHANGED disk
    /\ UNCHANGED <<work, mixed>> \/ mixed' = mixed \cup Filling
    /\ \A q \in Procs :
          /\ Fills(q)' <=> Fills(q)
          /\ Fills(q) => pc'[q] = pc[q] /\ job'[q] = job[q]
          /\ Rewinds(q)' => Rewinds(q) \/ job'[q].id \in rows
          /\ job'[q].id \in {job[q].id, 0} \cup rows
          /\ Rewinds(q)' /\ Rewinds(q) => job'[q].id = job[q].id
          /\ job'[q].expired \subseteq job[q].expired

LEMMA QuietKeeps ==
    ASSUME WholeInv, Quiet
    PROVE  Placed' /\ Fresh' /\ Owned' /\ Copied' /\ RecordedAreComplete'
<1> USE DEF WholeInv, Owners
<1>1. /\ snap' = snap /\ dir' = dir /\ meta' = meta /\ rows' = rows /\ lastId' = lastId /\ base' = base
      /\ gaps' = gaps /\ mixed \subseteq mixed'
  BY DEF Quiet, disk
<1>2. \A q \in Procs : Fills(q)' => Fills(q) /\ pc'[q] = pc[q] /\ job'[q] = job[q]
  BY DEF Quiet
<1>3. rows \subseteq dir /\ rows \subseteq 1..lastId /\ rows \subseteq Ids
  <2>1. rows \subseteq Ids
    BY DEF TypeOK, DiskOK
  <2>2. \A i \in Ids : i \in rows => ~(i > lastId)
    BY DEF Fresh
  <2> QED
    BY <2>1, <2>2 DEF RecordedAreComplete, TypeOK, DiskOK, Ids
<1>4. Placed'
  BY <1>2, <1>3 DEF Placed, Quiet, Ids
<1>5. Fresh'
  <2>1. \A i \in Filling : i <= lastId
    BY DEF Filling, Owned
  <2>2. ASSUME NEW i \in Ids, i > lastId PROVE i \notin mixed'
    BY <2>1, <2>2 DEF Quiet, Fresh, TypeOK, DiskOK, Ids
  <2> QED
    BY <1>1, <2>2 DEF Fresh, Ids, Empty
<1>6. Owned'
  <2>1. ASSUME NEW p \in Procs
        PROVE  job'[p].id <= lastId /\ job'[p].expired \subseteq (1..lastId) \ rows
    <3>1. job'[p].expired \subseteq job[p].expired /\ job'[p].id \in {job[p].id, 0} \cup rows
      BY DEF Quiet
    <3>2. \A i \in rows : i <= lastId
      BY <1>3
    <3>3. 0 <= lastId
      BY DEF TypeOK, DiskOK
    <3>4. job'[p].id <= lastId
      BY <3>1, <3>2, <3>3 DEF Owned
    <3> QED
      BY <3>1, <3>4 DEF Owned
  <2>2. ASSUME NEW p \in Procs, Fills(p)'
        PROVE  /\ job'[p].id \in dir \ rows
               /\ \A q \in Procs : job'[p].id \notin job'[q].expired /\ (q # p => job'[q].id # job'[p].id)
    <3>1. Fills(p) /\ job'[p] = job[p] /\ job[p].id \in Ids
      BY <1>2, <2>2 DEF Placed
    <3>2. job[p].id # 0
      BY <3>1 DEF Ids
    <3>3. /\ job[p].id \in dir \ rows
          /\ \A q \in Procs : job[p].id \notin job[q].expired /\ (q # p => job[q].id # job[p].id)
      BY <3>1 DEF Owned
    <3> QED
      BY <3>1, <3>2, <3>3 DEF Quiet
  <2> QED
    BY <1>1, <2>1, <2>2 DEF Owned
<1>7. Copied'
  <2> SUFFICES ASSUME NEW p \in Procs, Fills(p)'
               PROVE  CopiedBy(p)'
    BY DEF Copied
  <2>1. Fills(p) /\ job'[p] = job[p] /\ pc'[p] = pc[p]
    BY <1>2
  <2>2. Kind(p)' = Kind(p)
    BY <2>1 DEF Kind
  <2>3. pc[p] = "copy" /\ job[p].id \notin mixed' => work' = work
    BY DEF Quiet, Filling
  <2> QED
    BY <1>1, <2>1, <2>2, <2>3 DEF Copied, CopiedBy
<1>8. RecordedAreComplete'
  BY <1>1 DEF RecordedAreComplete
<1> QED
  BY <1>4, <1>5, <1>6, <1>7, <1>8

LEMMA PutMixes ==
    ASSUME TypeOK, NEW p, NEW f \in Files, NEW c, Put(p, f, c)
    PROVE  UNCHANGED <<work, mixed>> \/ mixed' = mixed \cup Filling
  BY DEF Put, TypeOK, DiskOK, Tree

\* A step that is quiet because of where p goes.
Hops(p, l, j) ==
    /\ Goto(p, l, j) /\ ~Fills(p) /\ l \notin {"copy", "record"}
    /\ l \in {"metadata", "list", "delete", "restore"} =>
          IF Rewinds(p) THEN j.id = job[p].id ELSE j.id \in rows
    /\ j.id \in {job[p].id, 0} \cup rows /\ j.expired \subseteq job[p].expired

\* Edits without checkpoints, rewinds and the end of a clean-up are quiet.
LEMMA OffDiskQuiet ==
    ASSUME TypeOK, NEW p \in Procs, OffDisk(p)
    PROVE  Quiet
<1>1. /\ UNCHANGED disk
      /\ UNCHANGED <<work, mixed>> \/ mixed' = mixed \cup Filling
  BY PutMixes DEF OffDisk, EditStart, EditEnds, ReadMetadata, ListSnapshot, RestoreStart, RewindEnds,
     CleanEnds, DeleteFile, PassOverFile, RestoreFile, WriteFile,
     RewindStart, Begin, Untouched
<1>2. ASSUME NEW l, NEW j, Hops(p, l, j) PROVE Quiet
  BY <1>1, <1>2 DEF Hops, Quiet, Goto, TypeOK, JobsOK, Fills, Rewinds
<1>3. ASSUME NEW S, NEW plan, EditStart(p, S, plan) PROVE Quiet
  <2>1. Hops(p, "begin", [Idle EXCEPT !.plan = plan, !.files = S, !.must = plan[Len(plan)] = "must"])
    BY <1>3 DEF EditStart, Begin, Hops, Idle, Fills, Rewinds
  <2> QED
    BY <1>2, <2>1
<1>4. ASSUME EditEnds(p) \/ RewindEnds(p) \/ CleanEnds(p) PROVE Quiet
  <2>1. Hops(p, "idle", Idle)
    BY <1>4 DEF EditEnds, RewindEnds, CleanEnds, End, Hops, Idle, Fills, Rewinds
  <2> QED
    BY <1>2, <2>1
<1> DEFINE Moves(k) == k.id = job[p].id /\ k.expired = job[p].expired
<1>5. \A T, L, S, b :
         /\ Moves([job[p] EXCEPT !.todo = T]) /\ Moves([job[p] EXCEPT !.files = T])
         /\ Moves([job[p] EXCEPT !.targeted = b]) /\ Moves([job[p] EXCEPT !.todo = T, !.passed = S])
         /\ Moves([job[p] EXCEPT !.list = L, !.passed = S, !.todo = T])
  BY DEF TypeOK, JobsOK, JobType
<1> HIDE DEF Moves
<1>6. CASE ReadMetadata(p)
  <2> DEFINE k == [job[p] EXCEPT !.targeted = (meta[job[p].id] = "targeted")]
  <2>1. Moves(k)
    BY <1>5
  <2>2. Hops(p, "list", k)
    BY <1>6, <2>1 DEF ReadMetadata, Hops, Fills, Rewinds, Moves
  <2> QED
    BY <1>2, <2>2
<1>7. CASE ListSnapshot(p)
  <2> DEFINE k(list) == [job[p] EXCEPT !.list = list, !.passed = Saved(job[p].id) \ list,
                                       !.todo = Doomed(job[p].targeted, list)]
  <2>1. \A list : Moves(k(list))
    BY <1>5
  <2>2. PICK list : Goto(p, "delete", k(list)) /\ pc[p] = "list"
    BY <1>7 DEF ListSnapshot
  <2> HIDE DEF k
  <2>3. Hops(p, "delete", k(list))
    BY <2>1, <2>2 DEF Hops, Fills, Rewinds, Moves
  <2> QED
    BY <1>2, <2>3
<1>8. CASE RestoreStart(p)
  <2>1. Moves([job[p] EXCEPT !.todo = job[p].list])
    BY <1>5
  <2>2. Hops(p, "restore", [job[p] EXCEPT !.todo = job[p].list])
    BY <1>8, <2>1 DEF RestoreStart, Hops, Fills, Rewinds, Moves
  <2> QED
    BY <1>2, <2>2
<1>9. ASSUME NEW f, DeleteFile(p, f) \/ RestoreFile(p, f) PROVE Quiet
  <2>1. Moves([job[p] EXCEPT !.todo = @ \ {f}])
    BY <1>5
  <2>2. Hops(p, pc[p], [job[p] EXCEPT !.todo = @ \ {f}])
    BY <1>9, <2>1 DEF DeleteFile, RestoreFile, Hops, Fills, Rewinds, Moves
  <2> QED
    BY <1>2, <2>2
<1>12. ASSUME NEW f, PassOverFile(p, f) PROVE Quiet
  <2> DEFINE k == [job[p] EXCEPT !.todo = @ \ {f}, !.passed = @ \cup {f}]
  <2>1. Moves(k)
    BY <1>5
  <2>2. Goto(p, "delete", k) /\ pc[p] = "delete"
    BY <1>12 DEF PassOverFile
  <2> HIDE DEF k
  <2>3. Hops(p, "delete", k)
    BY <2>1, <2>2 DEF Hops, Fills, Rewinds, Moves
  <2> QED
    BY <1>2, <2>3
<1>10. ASSUME NEW f, NEW c, WriteFile(p, f, c) PROVE Quiet
  <2>1. Moves([job[p] EXCEPT !.files = @ \ {f}])
    BY <1>5
  <2>2. Hops(p, "begin", [job[p] EXCEPT !.files = @ \ {f}])
    BY <1>10, <2>1 DEF WriteFile, Hops, Fills, Rewinds, Moves
  <2> QED
    BY <1>2, <2>2
<1>11. ASSUME NEW i \in rows, RewindStart(p, i) PROVE Quiet
  <2>1. Hops(p, "metadata", [Idle EXCEPT !.id = i])
    BY <1>11 DEF RewindStart, Begin, Hops, Idle, Fills, Rewinds
  <2> QED
    BY <1>2, <2>1
<1> QED
  BY <1>3, <1>4, <1>6, <1>7, <1>8, <1>9, <1>10, <1>11, <1>12 DEF OffDisk

\* So are changes by hand, and a process that gives up without a checkpoint at hand.
LEMMA GivesUpQuiet ==
    ASSUME TypeOK, Placed, NEW p \in Procs, CheckpointFails(p) \/ Stops(p), ~Fills(p)
    PROVE  Quiet
<1>1. UNCHANGED disk /\ UNCHANGED <<work, mixed>>
  BY DEF CheckpointFails, Stops, Abandon, Unrecorded, Fills, Untouched
<1> DEFINE k == [job[p] EXCEPT !.plan = Tail(@), !.id = 0, !.todo = {}]
<1>2. k.id = 0 /\ k.expired = job[p].expired
  BY DEF TypeOK, JobsOK, JobType
<1>3. Goto(p, "begin", k) \/ Goto(p, "idle", Idle)
  BY DEF CheckpointFails, Stops, End
<1>4. CASE Goto(p, "begin", k)
  BY <1>1, <1>2, <1>4 DEF Quiet, Goto, TypeOK, JobsOK, Fills, Rewinds
<1>5. CASE Goto(p, "idle", Idle)
  BY <1>1, <1>5 DEF Quiet, Goto, TypeOK, JobsOK, Fills, Rewinds, Idle
<1> QED
  BY <1>3, <1>4, <1>5

LEMMA OtherChangeQuiet ==
    ASSUME TypeOK, NEW f \in Files, NEW c, OtherChange(f, c)
    PROVE  Quiet
  BY PutMixes DEF OtherChange, Quiet, Fills, Rewinds

\* Facts about owners that every step uses.
LEMMA OwnerFacts ==
    ASSUME Owners
    PROVE  /\ \A i \in dir \cup rows \cup mixed : i \in Ids /\ i <= lastId
           /\ \A q \in Procs : Fills(q) => job[q].id \in Ids /\ job[q].id # 0
           /\ lastId \in Int /\ 0 <= lastId
           /\ \A i \in Filling : i <= lastId
           /\ \A q \in Procs : job[q].id \in Int
<1>1. \A i \in dir \cup rows \cup mixed : i \in Ids /\ i <= lastId
  BY DEF Owners, TypeOK, DiskOK, Fresh, Ids
<1>2. \A q \in Procs : Fills(q) => job[q].id \in Ids /\ job[q].id # 0
  BY DEF Owners, Placed, Ids
<1>3. lastId \in Int /\ 0 <= lastId
  BY DEF Owners, TypeOK, DiskOK
<1>4. \A i \in Filling : i <= lastId
  BY DEF Filling, Owners, Owned
<1>5. \A q \in Procs : job[q].id \in Int
  BY DEF Owners, TypeOK, JobsOK, JobType
<1> QED
  BY <1>1, <1>2, <1>3, <1>4, <1>5

\* A new directory.
LEMMA BeginCheckpointKeeps ==
    ASSUME WholeInv, NEW p \in Procs, BeginCheckpoint(p)
    PROVE  Placed' /\ Fresh' /\ Owned' /\ Copied' /\ RecordedAreComplete'
<1> USE DEF WholeInv, Owners
<1> DEFINE i == lastId + 1
           k == [job[p] EXCEPT !.id = i, !.todo = Scope(job[p].plan, job[p].files)]
<1>1. /\ i \in Ids /\ i > lastId
      /\ i \notin dir \cup rows \cup mixed /\ snap[i] = Empty /\ meta[i] = "none"
  <2>1. i \in Ids /\ i > lastId
    BY CheckpointsAssumption DEF BeginCheckpoint, TypeOK, DiskOK, Ids
  <2> QED
    BY <2>1 DEF Fresh
<1>2. k.id = i /\ k.plan = job[p].plan /\ k.expired = job[p].expired
      /\ k.todo = Scope(job[p].plan, job[p].files)
  BY DEF TypeOK, JobsOK, JobType
<1> HIDE DEF k
<1>3. /\ job'[p] = k /\ pc'[p] = "copy"
      /\ \A q \in Procs : q # p => job'[q] = job[q] /\ pc'[q] = pc[q]
  BY DEF BeginCheckpoint, Goto, TypeOK, JobsOK, k
<1>4. /\ lastId' = i /\ dir' = dir \cup {i} /\ UNCHANGED <<work, snap, meta, rows, mixed, gaps>>
      /\ base'[i] = work /\ \A n \in Ids \ {i} : base'[n] = base[n]
      /\ job[p].plan # <<>> /\ pc[p] = "begin"
  BY <1>1 DEF BeginCheckpoint, Untouched, TypeOK, DiskOK
<1>5. \A q \in Procs : job[q].id <= lastId /\ job[q].expired \subseteq (1..lastId) \ rows
  BY DEF Owned
<1> HIDE DEF i
<1>6. /\ \A q \in Procs : job[q].id # i /\ i \notin job[q].expired
      /\ (1..lastId) \subseteq 1..lastId' /\ \A q \in Procs : job[q].id <= lastId'
  BY <1>1, <1>4, <1>5, OwnerFacts DEF i
<1>7. Placed'
  BY <1>1, <1>2, <1>3, <1>4 DEF Placed, Fills, Rewinds, Ids
<1>8. Fresh'
  <2> SUFFICES ASSUME NEW n \in Ids, n > lastId'
               PROVE  snap'[n] = Empty' /\ meta'[n] = "none" /\ n \notin (dir \cup rows \cup mixed)'
    BY DEF Fresh, Ids
  <2>1. n > lastId /\ n # i
    BY <1>1, <1>4, OwnerFacts DEF Ids, i
  <2> QED
    BY <1>4, <2>1 DEF Fresh, Empty
<1>9. Owned'
  <2>1. \A q \in Procs : job'[q].id <= lastId' /\ job'[q].expired \subseteq (1..lastId') \ rows'
    <3>1. i <= lastId'
      BY <1>1, <1>4 DEF Ids
    <3> QED
      BY <1>2, <1>3, <1>4, <1>5, <1>6, <3>1
  <2>2. \A q \in Procs : Fills(q)' => job'[q].id \in (dir \ rows)'
    BY <1>1, <1>2, <1>3, <1>4 DEF Fills, Owned
  <2>3. \A q \in Procs, r \in Procs : Fills(q)' => job'[q].id \notin job'[r].expired
    BY <1>2, <1>3, <1>6 DEF Fills, Owned
  <2>4. \A q \in Procs, r \in Procs : Fills(q)' /\ r # q => job'[q].id # job'[r].id
    BY <1>2, <1>3, <1>6 DEF Fills, Owned
  <2> QED
    BY <2>1, <2>2, <2>3, <2>4 DEF Owned
<1>10. Copied'
  <2>1. ASSUME NEW q \in Procs, q # p, Fills(q)' PROVE CopiedBy(q)'
    <3>1. Fills(q) /\ job'[q] = job[q] /\ pc'[q] = pc[q]
      BY <1>3, <2>1 DEF Fills
    <3>2. base'[job[q].id] = base[job[q].id]
      BY <1>4, <1>6, <3>1, OwnerFacts
    <3>3. Kind(q)' = Kind(q)
      BY <3>1 DEF Kind
    <3> QED
      BY <1>4, <3>1, <3>2, <3>3 DEF Copied, CopiedBy
  <2>2. CopiedBy(p)'
    <3>1. Kind(p)' = "targeted" \/ Files \subseteq k.todo
      BY <1>2, <1>3 DEF Kind, Scope
    <3>2. \A f \in Files : snap[i][f] = Absent
      BY <1>1 DEF Empty
    <3>3. k.todo \subseteq Files
      BY <1>2 DEF Scope, TypeOK, JobsOK, JobType
    <3> QED
      BY <1>1, <1>2, <1>3, <1>4, <3>1, <3>2, <3>3 DEF CopiedBy
  <2> QED
    BY <2>1, <2>2 DEF Copied
<1>11. RecordedAreComplete'
  <2>1. \A n \in rows : n \in Ids /\ n # i
    BY <1>1, OwnerFacts
  <2> QED
    BY <1>4, <2>1 DEF RecordedAreComplete
<1> QED
  BY <1>7, <1>8, <1>9, <1>10, <1>11

\* The checkpoint being filled is p's alone.
LEMMA OnlyFiller ==
    ASSUME Owners, NEW p \in Procs, Fills(p)
    PROVE  /\ job[p].id \in dir /\ job[p].id \in Ids /\ job[p].id \notin rows /\ job[p].id <= lastId
           /\ \A q \in Procs : job[p].id \notin job[q].expired /\ (q # p => job[q].id # job[p].id)
  BY DEF Owners, Owned, Placed

\* One step of filling: only the snapshot, the metadata and the files left of p change.
Fill(p) ==
    /\ Fills(p) /\ Fills(p)'
    /\ UNCHANGED <<dir, rows, lastId, base>>
    /\ UNCHANGED <<work, mixed>> \/ mixed' = mixed \cup Filling
    /\ \A q \in Procs : q # p => pc'[q] = pc[q] /\ job'[q] = job[q]
    /\ job'[p].id = job[p].id /\ job'[p].plan = job[p].plan /\ job'[p].expired = job[p].expired
    /\ \A i \in Ids \ {job[p].id} : snap'[i] = snap[i] /\ meta'[i] = meta[i] /\ gaps'[i] = gaps[i]
    /\ CopiedBy(p)'

LEMMA FillKeeps ==
    ASSUME WholeInv, NEW p \in Procs, Fill(p)
    PROVE  Placed' /\ Fresh' /\ Owned' /\ Copied' /\ RecordedAreComplete'
<1> USE DEF WholeInv
<1> DEFINE i == job[p].id
<1>1. /\ i \in dir /\ i \in Ids /\ i \notin rows /\ i <= lastId
      /\ \A q \in Procs : i \notin job[q].expired /\ (q # p => job[q].id # i)
  BY OnlyFiller DEF Fill
<1>2. \A q \in Procs :
         /\ Fills(q)' <=> Fills(q)
         /\ q # p => (Rewinds(q)' <=> Rewinds(q))
         /\ ~Rewinds(p)'
         /\ job'[q].id = job[q].id /\ job'[q].plan = job[q].plan /\ job'[q].expired = job[q].expired
  BY DEF Fill, Fills, Rewinds
<1>3. Placed'
  <2>1. ASSUME NEW q \in Procs, Fills(q)' PROVE job'[q].id \in Ids /\ job'[q].plan # <<>>
    BY <1>2, <2>1 DEF Placed, Owners
  <2>2. ASSUME NEW q \in Procs, Rewinds(q)' PROVE job'[q].id \in Ids
    <3>1. q # p
      BY <1>2, <2>2
    <3> QED
      BY <1>2, <2>2, <3>1 DEF Placed, Owners
  <2> QED
    BY <2>1, <2>2 DEF Placed, Ids
<1>4. Fresh'
  <2> SUFFICES ASSUME NEW n \in Ids, n > lastId'
               PROVE  snap'[n] = Empty' /\ meta'[n] = "none" /\ n \notin (dir \cup rows \cup mixed)'
    BY DEF Fresh, Ids
  <2>1. n > lastId /\ n # i
    BY <1>1, OwnerFacts DEF Ids, Fill
  <2>2. n \notin Filling
    BY <2>1, OwnerFacts DEF Ids
  <2>3. n \notin mixed'
    BY <2>1, <2>2 DEF Fill, Fresh, Owners
  <2> QED
    BY <2>1, <2>3 DEF Fill, Fresh, Empty, Owners
<1>5. Owned'
  <2>1. dir' = dir /\ rows' = rows /\ lastId' = lastId
    BY DEF Fill
  <2>2. Owned
    BY DEF Owners
  <2> QED
    BY <1>2, <2>1, <2>2 DEF Owned
<1>6. Copied'
  <2>1. ASSUME NEW q \in Procs, q # p, Fills(q)' PROVE CopiedBy(q)'
    <3>1. /\ Fills(q) /\ job'[q] = job[q] /\ pc'[q] = pc[q] /\ base' = base /\ mixed \subseteq mixed'
      BY <1>2, <2>1 DEF Fill
    <3>5. pc[q] = "copy" /\ job[q].id \notin mixed' => work' = work
      BY DEF Fill, Filling
    <3>4. job[q].id # i /\ job[q].id \in Ids
      BY <1>1, <2>1, <3>1, OwnerFacts
    <3>2. /\ snap'[job[q].id] = snap[job[q].id] /\ meta'[job[q].id] = meta[job[q].id]
          /\ gaps'[job[q].id] = gaps[job[q].id]
      BY <3>4 DEF Fill
    <3>3. Kind(q)' = Kind(q)
      BY <3>1 DEF Kind
    <3> QED
      BY <3>1, <3>2, <3>3, <3>5 DEF Copied, CopiedBy
  <2> QED
    BY <2>1 DEF Copied, Fill
<1>7. RecordedAreComplete'
  <2>1. \A n \in rows : n \in Ids /\ n # i
    BY <1>1, OwnerFacts
  <2>2. \A n \in rows : snap'[n] = snap[n] /\ meta'[n] = meta[n] /\ gaps'[n] = gaps[n]
    BY <2>1 DEF Fill
  <2> QED
    BY <2>2 DEF Fill, RecordedAreComplete
<1> QED
  BY <1>3, <1>4, <1>5, <1>6, <1>7

LEMMA CopyFileFills ==
    ASSUME WholeInv, NEW p \in Procs, NEW f \in Files, CopyFile(p, f)
    PROVE  Fill(p)
<1> USE DEF WholeInv, Owners
<1> DEFINE i == job[p].id
           k == [job[p] EXCEPT !.todo = @ \ {f}]
<1>1. Fills(p) /\ i \in Ids /\ pc[p] = "copy"
  BY DEF CopyFile, Fills, Placed
<1>2. k.id = i /\ k.plan = job[p].plan /\ k.expired = job[p].expired /\ k.todo = job[p].todo \ {f}
  BY DEF TypeOK, JobsOK, JobType
<1> HIDE DEF k
<1>3. /\ job'[p] = k /\ pc'[p] = "copy"
      /\ \A q \in Procs : q # p => job'[q] = job[q] /\ pc'[q] = pc[q]
  BY DEF CopyFile, Goto, TypeOK, JobsOK, k
<1>4. UNCHANGED <<work, mixed, dir, meta, rows, lastId, base>>
  BY DEF CopyFile, Untouched
<1>7. PICK c \in Taken(p, f) :
             /\ snap' = [snap EXCEPT ![i][f] = c]
             /\ gaps' = [gaps EXCEPT ![i] = IF c = work[f] THEN @ ELSE @ \cup {f}]
  BY DEF CopyFile
<1>5. /\ \A n \in Ids \ {i} : snap'[n] = snap[n] /\ gaps'[n] = gaps[n]
      /\ \A g \in Files \ {f} : snap'[i][g] = snap[i][g]
      /\ snap'[i][f] = c /\ gaps[i] \subseteq gaps'[i]
      /\ c = work[f] \/ (f \in gaps'[i] /\ (c = Absent \/ Head(job[p].plan) = "target"))
  BY <1>1, <1>7 DEF Taken, TypeOK, DiskOK, Tree
<1>6. CopiedBy(p)'
  <2>1. Kind(p)' = Kind(p) /\ (Head(job[p].plan) = "target" => Kind(p) = "targeted")
    BY <1>2, <1>3 DEF Kind
  <2>2. CopiedBy(p)
    BY <1>1 DEF Copied
  <2>3. snap[i][f] = Absent /\ job[p].todo \subseteq Files
    BY <2>2 DEF CopyFile, CopiedBy, TypeOK, JobsOK, JobType
  <2> QED
    BY <1>1, <1>2, <1>3, <1>4, <1>5, <2>1, <2>2, <2>3 DEF CopiedBy
<1> QED
  BY <1>1, <1>2, <1>3, <1>4, <1>5, <1>6 DEF Fill, Fills

\* The copy of a file onto itself leaves the snapshot as it is.
LEMMA CopyOntoItselfFills ==
    ASSUME WholeInv, NEW p \in Procs, NEW f \in Files, CopyOntoItself(p, f)
    PROVE  Fill(p)
<1> USE DEF WholeInv, Owners
<1> DEFINE i == job[p].id
           k == [job[p] EXCEPT !.todo = @ \ {f}]
<1>1. Fills(p) /\ i \in Ids /\ pc[p] = "copy"
  BY DEF CopyOntoItself, Fills, Placed
<1>2. k.id = i /\ k.plan = job[p].plan /\ k.expired = job[p].expired /\ k.todo = job[p].todo \ {f}
  BY DEF TypeOK, JobsOK, JobType
<1> HIDE DEF k
<1>3. /\ job'[p] = k /\ pc'[p] = "copy"
      /\ \A q \in Procs : q # p => job'[q] = job[q] /\ pc'[q] = pc[q]
  BY DEF CopyOntoItself, Goto, TypeOK, JobsOK, k
<1>4. /\ UNCHANGED <<snap, dir, meta, rows, lastId, base>>
      /\ f \in gaps'[i] /\ gaps[i] \subseteq gaps'[i] /\ \A n \in Ids \ {i} : gaps'[n] = gaps[n]
  BY <1>1 DEF CopyOntoItself, TypeOK, DiskOK
<1>5. UNCHANGED <<work, mixed>> \/ mixed' = mixed \cup Filling
  BY PutMixes DEF CopyOntoItself
<1>6. CopiedBy(p)'
  <2>1. Kind(p)' = Kind(p)
    BY <1>2, <1>3 DEF Kind
  <2>2. CopiedBy(p)
    BY <1>1 DEF Copied
  <2>3. snap[i][f] = Absent /\ job[p].todo \subseteq Files
    BY <2>2 DEF CopyOntoItself, CopiedBy, TypeOK, JobsOK, JobType
  <2>4. i \notin mixed' => i \notin mixed /\ work' = work
    BY <1>1, <1>5 DEF Filling
  <2> QED
    BY <1>1, <1>2, <1>3, <1>4, <2>1, <2>2, <2>3, <2>4 DEF CopiedBy
<1> QED
  BY <1>1, <1>2, <1>3, <1>4, <1>5, <1>6 DEF Fill, Fills

LEMMA WriteMetadataFills ==
    ASSUME WholeInv, NEW p \in Procs, WriteMetadata(p)
    PROVE  Fill(p)
<1> USE DEF WholeInv, Owners
<1> DEFINE i == job[p].id
<1>1. Fills(p) /\ i \in Ids /\ pc[p] = "copy" /\ job[p].todo = {}
  BY DEF WriteMetadata, Settled, Fills, Placed
<1>2. /\ job' = job /\ pc'[p] = "record"
      /\ \A q \in Procs : q # p => pc'[q] = pc[q]
      /\ UNCHANGED <<work, mixed, snap, dir, rows, lastId, base, gaps>>
      /\ meta'[i] = Kind(p) /\ \A n \in Ids \ {i} : meta'[n] = meta[n]
  BY <1>1 DEF WriteMetadata, Untouched, TypeOK, JobsOK, DiskOK
<1>3. CopiedBy(p)'
  <2>1. Kind(p)' = Kind(p)
    BY <1>2 DEF Kind
  <2>2. CopiedBy(p)
    BY <1>1 DEF Copied
  <2> QED
    BY <1>1, <1>2, <2>1, <2>2 DEF CopiedBy
<1> QED
  BY <1>1, <1>2, <1>3 DEF Fill, Fills

\* The row comes last.
LEMMA InsertRecordKeeps ==
    ASSUME WholeInv, NEW p \in Procs, InsertRecord(p)
    PROVE  Placed' /\ Fresh' /\ Owned' /\ Copied' /\ RecordedAreComplete'
<1> USE DEF WholeInv
<1> DEFINE i == job[p].id
           k == [job[p] EXCEPT !.plan = Tail(@)]
<1>1. Fills(p) /\ pc[p] = "record"
  BY DEF InsertRecord, Fills
<1>2. /\ i \in dir /\ i \in Ids /\ i \notin rows /\ i <= lastId
      /\ \A q \in Procs : i \notin job[q].expired /\ (q # p => job[q].id # i)
  BY <1>1, OnlyFiller
<1>3. k.id = i /\ k.expired = job[p].expired
  BY DEF Owners, TypeOK, JobsOK, JobType
<1> HIDE DEF k
<1>4. /\ job'[p] = k /\ pc'[p] = "begin"
      /\ \A q \in Procs : q # p => job'[q] = job[q] /\ pc'[q] = pc[q]
  BY DEF InsertRecord, Goto, Owners, TypeOK, JobsOK, k
<1>5. UNCHANGED <<work, mixed, snap, dir, meta, lastId, base, gaps>> /\ rows' = rows \cup {i}
  BY DEF InsertRecord, Untouched
<1>6. \A q \in Procs :
         /\ Fills(q)' => Fills(q) /\ q # p
         /\ Rewinds(q)' => Rewinds(q) /\ q # p
         /\ job'[q].id = job[q].id /\ job'[q].expired = job[q].expired
         /\ q # p => job'[q] = job[q] /\ pc'[q] = pc[q]
  BY <1>3, <1>4 DEF Fills, Rewinds
<1>7. Placed'
  BY <1>6 DEF Placed, Owners, Ids
<1>8. Fresh'
  BY <1>2, <1>5, OwnerFacts DEF Fresh, Owners, Empty, Ids
<1>9. Owned'
  <2>1. \A q \in Procs : job[q].id <= lastId /\ job[q].expired \subseteq (1..lastId) \ (rows \cup {i})
    BY <1>2 DEF Owners, Owned
  <2>2. ASSUME NEW q \in Procs, Fills(q)'
        PROVE  /\ job[q].id \in dir \ (rows \cup {i})
               /\ \A r \in Procs : job[q].id \notin job[r].expired /\ (r # q => job[r].id # job[q].id)
    BY <1>2, <1>6, <2>2 DEF Owners, Owned
  <2> QED
    BY <1>5, <1>6, <2>1, <2>2 DEF Owned
<1>10. Copied'
  <2>1. ASSUME NEW q \in Procs, Fills(q)' PROVE CopiedBy(q)'
    <3>1. Fills(q) /\ job'[q] = job[q] /\ pc'[q] = pc[q]
      BY <1>6, <2>1
    <3>2. Kind(q)' = Kind(q)
      BY <3>1 DEF Kind
    <3> QED
      BY <1>5, <3>1, <3>2 DEF Copied, CopiedBy
  <2> QED
    BY <2>1 DEF Copied
<1>11. RecordedAreComplete'
  <2>1. CopiedBy(p) /\ Kind(p) # "none"
    BY <1>1 DEF Copied, Kind
  <2> QED
    BY <1>1, <1>2, <1>5, <2>1 DEF RecordedAreComplete, CopiedBy
<1> QED
  BY <1>7, <1>8, <1>9, <1>10, <1>11

\* A process that gives up on the checkpoint it fills.
LEMMA GivesUpKeeps ==
    ASSUME WholeInv, NEW p \in Procs, CheckpointFails(p) \/ Stops(p), Fills(p)
    PROVE  Placed' /\ Fresh' /\ Owned' /\ Copied' /\ RecordedAreComplete'
<1> USE DEF WholeInv
<1> DEFINE i == job[p].id
           k == [job[p] EXCEPT !.plan = Tail(@), !.id = 0, !.todo = {}]
<1>1. /\ i \in dir /\ i \in Ids /\ i # 0 /\ i \notin rows /\ i <= lastId
      /\ \A q \in Procs : i \notin job[q].expired /\ (q # p => job[q].id # i)
  BY OnlyFiller, OwnerFacts
<1>2. Dropped(i) /\ UNCHANGED <<work, mixed>>
  BY <1>1 DEF CheckpointFails, Stops, Abandon, Unrecorded, Fills, Untouched
<1>3. k.id = 0 /\ k.expired = job[p].expired
  BY DEF Owners, TypeOK, JobsOK, JobType
<1>4. Goto(p, "begin", k) \/ Goto(p, "idle", Idle)
  BY DEF CheckpointFails, Stops, End
<1> HIDE DEF k
<1>5. /\ pc'[p] \in {"begin", "idle"} /\ job'[p].id = 0 /\ job'[p].expired \subseteq job[p].expired
      /\ \A q \in Procs : q # p => job'[q] = job[q] /\ pc'[q] = pc[q]
  BY <1>3, <1>4 DEF Goto, Owners, TypeOK, JobsOK, Idle
<1>6. \A q \in Procs :
         /\ Fills(q)' => Fills(q) /\ q # p
         /\ Rewinds(q)' => Rewinds(q) /\ q # p
         /\ job'[q].id \in {job[q].id, 0} /\ job'[q].expired \subseteq job[q].expired
         /\ q # p => job'[q] = job[q] /\ pc'[q] = pc[q]
  BY <1>5 DEF Fills, Rewinds
<1>7. /\ UNCHANGED <<rows, lastId>> /\ dir' = dir \ {i}
      /\ snap'[i] = Empty /\ meta'[i] = "none"
      /\ \A n \in Ids \ {i} : 
            snap'[n] = snap[n] /\ base'[n] = base[n] /\ meta'[n] = meta[n] /\ gaps'[n] = gaps[n]
  BY <1>1, <1>2 DEF Dropped, Owners, TypeOK, DiskOK
<1>8. Placed'
  BY <1>6 DEF Placed, Owners, Ids
<1>9. Fresh'
  <2> SUFFICES ASSUME NEW n \in Ids, n > lastId'
               PROVE  snap'[n] = Empty' /\ meta'[n] = "none" /\ n \notin (dir \cup rows \cup mixed)'
    BY DEF Fresh, Ids
  <2>1. n > lastId /\ n # i
    BY <1>1, <1>7, OwnerFacts DEF Ids
  <2> QED
    BY <1>2, <1>7, <2>1 DEF Fresh, Empty, Owners
<1>10. Owned'
  <2>1. \A q \in Procs : job'[q].id <= lastId /\ job'[q].expired \subseteq (1..lastId) \ rows
    BY <1>6, OwnerFacts DEF Owners, Owned
  <2>2. ASSUME NEW q \in Procs, Fills(q)'
        PROVE  /\ job'[q].id \in dir' \ rows
               /\ \A r \in Procs : job'[q].id \notin job'[r].expired /\ (r # q => job'[r].id # job'[q].id)
    <3>1. Fills(q) /\ job'[q] = job[q] /\ q # p /\ job[q].id # 0 /\ job[q].id # i
      BY <1>1, <1>6, <2>2, OwnerFacts
    <3>2. /\ job[q].id \in dir \ rows
          /\ \A r \in Procs : job[q].id \notin job[r].expired /\ (r # q => job[r].id # job[q].id)
      BY <3>1 DEF Owners, Owned
    <3> QED
      BY <1>6, <1>7, <3>1, <3>2
  <2> QED
    BY <1>7, <2>1, <2>2 DEF Owned
<1>11. Copied'
  <2>1. ASSUME NEW q \in Procs, Fills(q)' PROVE CopiedBy(q)'
    <3>1. Fills(q) /\ job'[q] = job[q] /\ pc'[q] = pc[q] /\ job[q].id \in Ids \ {i}
      BY <1>1, <1>6, <2>1, OwnerFacts
    <3>2. Kind(q)' = Kind(q)
      BY <3>1 DEF Kind
    <3> QED
      BY <1>2, <1>7, <3>1, <3>2 DEF Copied, CopiedBy
  <2> QED
    BY <2>1 DEF Copied
<1>12. RecordedAreComplete'
  <2>1. \A n \in rows : n \in Ids \ {i}
    BY <1>1, OwnerFacts
  <2> QED
    BY <1>2, <1>7, <2>1 DEF RecordedAreComplete
<1> QED
  BY <1>8, <1>9, <1>10, <1>11, <1>12

\* The clean-up takes rows, and then what no longer has one.
LEMMA CleanRowsKeeps ==
    ASSUME WholeInv, NEW p \in Procs, NEW S, CleanRows(p, S)
    PROVE  Placed' /\ Fresh' /\ Owned' /\ Copied' /\ RecordedAreComplete'
<1> USE DEF WholeInv
<1>1. /\ UNCHANGED <<work, mixed, snap, dir, meta, lastId, base, gaps>>
      /\ rows' = rows \ S /\ S \subseteq rows /\ pc[p] = "idle"
  BY DEF CleanRows, Begin, Old
<1>2. /\ pc'[p] = "clean" /\ job'[p].id = 0 /\ job'[p].expired = S
      /\ \A q \in Procs : q # p => job'[q] = job[q] /\ pc'[q] = pc[q]
  BY DEF CleanRows, Begin, Goto, Owners, TypeOK, JobsOK, Idle
<1>3. \A q \in Procs :
         /\ Fills(q)' => Fills(q) /\ q # p
         /\ Rewinds(q)' => Rewinds(q) /\ q # p
         /\ job'[q].id \in {job[q].id, 0} /\ job'[q].expired \subseteq job[q].expired \cup S
         /\ q # p => job'[q] = job[q] /\ pc'[q] = pc[q]
  BY <1>2 DEF Fills, Rewinds
<1>4. Placed'
  BY <1>3 DEF Placed, Owners, Ids
<1>5. Fresh'
  BY <1>1 DEF Fresh, Owners, Empty, Ids
<1>6. Owned'
  <2>1. \A q \in Procs : job'[q].id <= lastId /\ job'[q].expired \subseteq (1..lastId) \ rows'
    <3>1. S \subseteq 1..lastId
      BY <1>1, OwnerFacts DEF Ids
    <3> QED
      BY <1>1, <1>3, <3>1, OwnerFacts DEF Owners, Owned
  <2>2. ASSUME NEW q \in Procs, Fills(q)'
        PROVE  /\ job'[q].id \in dir \ rows'
               /\ \A r \in Procs : job'[q].id \notin job'[r].expired /\ (r # q => job'[r].id # job'[q].id)
    <3>1. Fills(q) /\ job'[q] = job[q] /\ job[q].id # 0
      BY <1>3, <2>2, OwnerFacts
    <3>2. /\ job[q].id \in dir \ rows
          /\ \A r \in Procs : job[q].id \notin job[r].expired /\ (r # q => job[r].id # job[q].id)
      BY <3>1 DEF Owners, Owned
    <3> QED
      BY <1>1, <1>3, <3>1, <3>2
  <2> QED
    BY <1>1, <2>1, <2>2 DEF Owned
<1>7. Copied'
  <2>1. ASSUME NEW q \in Procs, Fills(q)' PROVE CopiedBy(q)'
    <3>1. Fills(q) /\ job'[q] = job[q] /\ pc'[q] = pc[q]
      BY <1>3, <2>1
    <3>2. Kind(q)' = Kind(q)
      BY <3>1 DEF Kind
    <3> QED
      BY <1>1, <3>1, <3>2 DEF Copied, CopiedBy
  <2> QED
    BY <2>1 DEF Copied
<1>8. RecordedAreComplete'
  BY <1>1 DEF RecordedAreComplete
<1> QED
  BY <1>4, <1>5, <1>6, <1>7, <1>8

LEMMA CleanDiskKeeps ==
    ASSUME WholeInv, NEW p \in Procs, NEW i \in job[p].expired, CleanDisk(p, i)
    PROVE  Placed' /\ Fresh' /\ Owned' /\ Copied' /\ RecordedAreComplete'
<1> USE DEF WholeInv
<1>1. /\ i \in Ids /\ i <= lastId /\ i \notin rows
      /\ \A q \in Procs : Fills(q) => job[q].id # i
  <2>1. i \in (1..lastId) \ rows /\ i \in Ids
    BY DEF Owners, Owned, TypeOK, JobsOK, JobType
  <2> QED
    BY <2>1 DEF Owners, Owned
<1>2. /\ UNCHANGED <<work, mixed, rows, lastId, base, gaps, pc>>
      /\ dir' \subseteq dir /\ dir \ {i} \subseteq dir'
      /\ \A n \in Ids \ {i} : snap'[n] = snap[n] /\ meta'[n] = meta[n]
  BY <1>1 DEF CleanDisk, Untouched, Owners, TypeOK, DiskOK
<1>3. \A q \in Procs :
         /\ job'[q].id = job[q].id /\ job'[q].expired \subseteq job[q].expired
         /\ job'[q].plan = job[q].plan /\ job'[q].todo = job[q].todo
  <2>1. job' = job \/ job' = [job EXCEPT ![p].expired = @ \ {i}]
    BY DEF CleanDisk
  <2> DEFINE k == [job[p] EXCEPT !.expired = @ \ {i}]
  <2>2. k.id = job[p].id /\ k.expired \subseteq job[p].expired /\ k.plan = job[p].plan /\ k.todo = job[p].todo
    BY DEF Owners, TypeOK, JobsOK, JobType
  <2>3. [job EXCEPT ![p].expired = @ \ {i}] = [job EXCEPT ![p] = k]
    OBVIOUS
  <2> HIDE DEF k
  <2> QED
    BY <2>1, <2>2, <2>3 DEF Owners, TypeOK, JobsOK
<1>4. \A q \in Procs : (Fills(q)' <=> Fills(q)) /\ (Rewinds(q)' <=> Rewinds(q))
  BY <1>2 DEF Fills, Rewinds
<1>5. Placed'
  BY <1>3, <1>4 DEF Placed, Owners, Ids
<1>6. Fresh'
  <2> SUFFICES ASSUME NEW n \in Ids, n > lastId'
               PROVE  snap'[n] = Empty' /\ meta'[n] = "none" /\ n \notin (dir \cup rows \cup mixed)'
    BY DEF Fresh, Ids
  <2>1. n > lastId /\ n # i
    BY <1>1, <1>2, OwnerFacts DEF Ids
  <2> QED
    BY <1>2, <2>1 DEF Fresh, Empty, Owners
<1>7. Owned'
  <2>1. \A q \in Procs : job'[q].id <= lastId /\ job'[q].expired \subseteq (1..lastId) \ rows
    BY <1>3 DEF Owners, Owned
  <2>2. ASSUME NEW q \in Procs, Fills(q)'
        PROVE  /\ job'[q].id \in dir' \ rows
               /\ \A r \in Procs : job'[q].id \notin job'[r].expired /\ (r # q => job'[r].id # job'[q].id)
    <3>1. Fills(q)
      BY <1>4, <2>2
    <3>2. /\ job[q].id \in dir \ rows /\ job[q].id # i
          /\ \A r \in Procs : job[q].id \notin job[r].expired /\ (r # q => job[r].id # job[q].id)
      BY <1>1, <3>1 DEF Owners, Owned
    <3> QED
      BY <1>2, <1>3, <3>2
  <2> QED
    BY <1>2, <2>1, <2>2 DEF Owned
<1>8. Copied'
  <2>1. ASSUME NEW q \in Procs, Fills(q)' PROVE CopiedBy(q)'
    <3>1. Fills(q) /\ pc'[q] = pc[q] /\ job[q].id \in Ids \ {i}
      BY <1>1, <1>2, <1>4, <2>1, OwnerFacts
    <3>2. Kind(q)' = Kind(q)
      BY <1>3 DEF Kind
    <3> QED
      BY <1>2, <1>3, <3>1, <3>2 DEF Copied, CopiedBy
  <2> QED
    BY <2>1 DEF Copied
<1>9. RecordedAreComplete'
  <2>1. \A n \in rows : n \in Ids \ {i}
    BY <1>1, OwnerFacts
  <2> QED
    BY <1>2, <2>1 DEF RecordedAreComplete
<1> QED
  BY <1>5, <1>6, <1>7, <1>8, <1>9

LEMMA WholeInit ==
    ASSUME Init PROVE WholeInv
<1>1. TypeOK
  BY TypedInit
<1>2. Fresh
  BY DEF Init, Fresh
<1>3. Placed
  BY DEF Init, Placed, Fills, Rewinds
<1>4. Owned
  BY DEF Init, Owned, Fills, Idle
<1>5. Copied /\ RecordedAreComplete
  BY DEF Init, Copied, Fills, RecordedAreComplete
<1> QED
  BY <1>1, <1>2, <1>3, <1>4, <1>5 DEF WholeInv, Owners

LEMMA WholeStep ==
    ASSUME WholeInv, [Next]_vars PROVE WholeInv'
<1> DEFINE Rest == Placed' /\ Fresh' /\ Owned' /\ Copied' /\ RecordedAreComplete'
<1> USE DEF WholeInv, Owners
<1>1. ASSUME NEW p \in Procs, OffDisk(p) PROVE Rest
  BY <1>1, OffDiskQuiet, QuietKeeps
<1>2. ASSUME NEW p \in Procs, CheckpointFails(p) \/ Stops(p) PROVE Rest
  BY <1>2, GivesUpQuiet, GivesUpKeeps, QuietKeeps
<1>3. ASSUME NEW p \in Procs,
             \/ BeginCheckpoint(p) \/ WriteMetadata(p) \/ InsertRecord(p)
             \/ \E f \in Files : CopyFile(p, f) \/ CopyOntoItself(p, f)
      PROVE  Rest
  BY <1>3, BeginCheckpointKeeps, WriteMetadataFills, InsertRecordKeeps, CopyFileFills, CopyOntoItselfFills, FillKeeps
<1>4. ASSUME NEW p \in Procs, NEW S, CleanRows(p, S) PROVE Rest
  BY <1>4, CleanRowsKeeps
<1>5. ASSUME NEW p \in Procs, NEW i \in job[p].expired, CleanDisk(p, i) PROVE Rest
  BY <1>5, CleanDiskKeeps
<1>6. ASSUME NEW f \in Files, NEW c, OtherChange(f, c) PROVE Rest
  BY <1>6, OtherChangeQuiet, QuietKeeps
<1>7. CASE Next
  <2>1. Rest
    BY <1>1, <1>2, <1>3, <1>4, <1>5, <1>6, <1>7 DEF Next, OffDisk
  <2> QED
    BY <1>7, <2>1, TypedStep
<1>8. CASE UNCHANGED vars
  <2> USE <1>8 DEF vars, disk, counters
  <2>1. TypeOK'
    BY DEF TypeOK, DiskOK, JobsOK, CountsOK, Tree, JobType, Ids
  <2>2. Quiet
    BY DEF Quiet, Fills, Rewinds
  <2> QED
    BY <2>1, <2>2, QuietKeeps
<1> QED
  BY <1>7, <1>8

\* Types of the workspace, the checkpoints and the processes.
THEOREM CheckpointTypeCorrect == Spec => []TypeOK
<1>1. WholeInv => TypeOK
  BY DEF WholeInv, Owners
<1> QED
  BY <1>1, WholeInit, WholeStep, PTL DEF Spec

\* The row of a checkpoint exists only while its directory and metadata do, and
\* the saved files are those of its beginning: insert_checkpoint comes last,
\* delete_checkpoint first, and no step in between is anybody else's.
THEOREM RecordedAreCompleteAlways == Spec => []RecordedAreComplete
<1>1. WholeInv => RecordedAreComplete
  BY DEF WholeInv
<1> QED
  BY <1>1, WholeInit, WholeStep, PTL DEF Spec
-----------------------------------------------------------------------------
(* Rewinds *)

\* What a step of somebody else leaves to a rewind.
Spared(q) ==
    /\ pc'[q] = pc[q] /\ job'[q] = job[q] /\ seen'[q] = seen[q]
    /\ q \in steady' => q \in steady /\ work' = work
    /\ job[q].id \in rows' => job[q].id \in rows
    /\ job[q].id \in rows => snap'[job[q].id] = snap[job[q].id] /\ meta'[job[q].id] = meta[job[q].id]

\* A change of the workspace disturbs every other operation.
LEMMA PutSpares ==
    ASSUME TypeOK, NEW p, NEW f \in Files, NEW c, Put(p, f, c), NEW q \in Procs, q # p, pc[q] # "idle"
    PROVE  seen'[q] = seen[q] /\ (q \in steady' => q \in steady /\ work' = work)
<1>1. c = work[f] => work' = work
  BY DEF Put, TypeOK, DiskOK, Tree
<1> QED
  BY <1>1 DEF Put

LEMMA OffDiskSpares ==
    ASSUME TypeOK, NEW p \in Procs, OffDisk(p), NEW q \in Procs, q # p
    PROVE  /\ pc'[q] = pc[q] /\ job'[q] = job[q]
           /\ Rewinds(q) => Spared(q)
<1> USE DEF TypeOK, JobsOK, Goto, Begin, End, Untouched, disk
<1>1. pc'[q] = pc[q] /\ job'[q] = job[q]
  BY DEF OffDisk, EditStart, EditEnds, ReadMetadata, ListSnapshot, RestoreStart, RewindEnds,
     CleanEnds, DeleteFile, PassOverFile, RestoreFile, WriteFile,
     RewindStart
<1>2. UNCHANGED disk
  BY DEF OffDisk, EditStart, EditEnds, ReadMetadata, ListSnapshot, RestoreStart, RewindEnds,
     CleanEnds, DeleteFile, PassOverFile, RestoreFile, WriteFile,
     RewindStart
<1>3. ASSUME Rewinds(q)
      PROVE  seen'[q] = seen[q] /\ (q \in steady' => q \in steady /\ work' = work)
  <2>1. pc[q] # "idle"
    BY <1>3 DEF Rewinds
  <2>2. ASSUME NEW f \in Files, DeleteFile(p, f) \/ RestoreFile(p, f) \/ \E c \in Contents : WriteFile(p, f, c)
        PROVE  seen'[q] = seen[q] /\ (q \in steady' => q \in steady /\ work' = work)
    <3>1. PICK c : Put(p, f, c)
      BY <2>2 DEF DeleteFile, RestoreFile, WriteFile
    <3> QED
      BY <2>1, <3>1, PutSpares
  <2>3. CASE \/ \E S \in (SUBSET Files) \ {{}}, plan \in Plans : EditStart(p, S, plan)
             \/ EditEnds(p) \/ ReadMetadata(p) \/ ListSnapshot(p) \/ RestoreStart(p) \/ RewindEnds(p)
             \/ CleanEnds(p) \/ (\E i \in rows : RewindStart(p, i)) \/ \E f \in Files : PassOverFile(p, f)
    BY <2>3 DEF EditStart, EditEnds, ReadMetadata, ListSnapshot, RestoreStart, RewindEnds, CleanEnds, RewindStart,
       PassOverFile
  <2> QED
    BY <2>2, <2>3 DEF OffDisk
<1> QED
  BY <1>1, <1>2, <1>3 DEF Spared

LEMMA CheckpointSpares ==
    ASSUME Owners, NEW p \in Procs, OnDisk(p), NEW q \in Procs
    PROVE  /\ q # p => pc'[q] = pc[q] /\ job'[q] = job[q] /\ (Rewinds(q) => Spared(q))
           /\ q = p => ~Rewinds(q)'
<1>1. ASSUME q # p
      PROVE  /\ pc'[q] = pc[q] /\ job'[q] = job[q] /\ (pc[q] # "idle" => seen'[q] = seen[q])
             /\ pc[q] # "idle" /\ q \in steady' => q \in steady /\ work' = work
  <2>1. ASSUME NEW f \in Files, CopyOntoItself(p, f)
        PROVE  /\ pc'[q] = pc[q] /\ job'[q] = job[q] /\ (pc[q] # "idle" => seen'[q] = seen[q])
               /\ pc[q] # "idle" /\ q \in steady' => q \in steady /\ work' = work
    <3>1. q # "nobody" /\ pc'[q] = pc[q] /\ job'[q] = job[q] /\ seen' = seen
      BY <1>1, <2>1, CheckpointsAssumption DEF CopyOntoItself, Put, Goto, Owners, TypeOK, JobsOK
    <3>2. q \in steady' => q \in steady /\ (work' = work \/ pc[q] = "idle")
      BY <2>1, <3>1 DEF CopyOntoItself, Put, Owners, TypeOK, DiskOK, Tree
    <3> QED
      BY <3>1, <3>2
  <2> QED
    BY <1>1, <2>1 DEF OnDisk, Owners, TypeOK, JobsOK, Goto, Begin, End, Untouched, BeginCheckpoint, WriteMetadata,
       InsertRecord, CheckpointFails, CopyFile, CleanRows, CleanDisk, Stops
<1>2. ~Rewinds(p)'
  BY DEF OnDisk, Owners, TypeOK, JobsOK, Goto, Begin, End, Untouched, BeginCheckpoint, WriteMetadata, Rewinds,
     InsertRecord, CheckpointFails, CopyFile, CopyOntoItself, CleanRows, CleanDisk, Stops, Settled
<1>3. ASSUME q # p, job[q].id \in rows' PROVE job[q].id \in rows
  <2>1. rows' \subseteq rows \/ InsertRecord(p)
    BY DEF OnDisk, BeginCheckpoint, WriteMetadata, CheckpointFails, CopyFile, CopyOntoItself, CleanRows, CleanDisk,
       Stops, Abandon, Dropped, disk
  <2>2. CASE InsertRecord(p)
    <3>1. Fills(p) /\ rows' = rows \cup {job[p].id}
      BY <2>2 DEF InsertRecord, Fills
    <3>2. job[q].id # job[p].id
      BY <1>3, <3>1 DEF Owners, Owned
    <3> QED
      BY <1>3, <3>1, <3>2
  <2> QED
    BY <1>3, <2>1, <2>2
<1>4. ASSUME job[q].id \in rows
      PROVE  snap'[job[q].id] = snap[job[q].id] /\ meta'[job[q].id] = meta[job[q].id]
  <2> DEFINE i == job[q].id
  <2>1. /\ i \in Ids /\ \A r \in Procs : (Fills(r) => i # job[r].id) /\ i \notin job[r].expired
    BY <1>4 DEF Owners, Owned, TypeOK, DiskOK
  <2> HIDE DEF i
  <2>2. CASE \/ BeginCheckpoint(p) \/ InsertRecord(p) \/ \E S \in SUBSET Old : CleanRows(p, S)
             \/ \E f \in Files : CopyOntoItself(p, f)
    BY <2>2 DEF BeginCheckpoint, InsertRecord, CleanRows, CopyOntoItself, i
  <2>3. CASE WriteMetadata(p) \/ \E f \in Files : CopyFile(p, f)
    BY <2>1, <2>3 DEF WriteMetadata, Settled, CopyFile, Fills, Owners, TypeOK, DiskOK, i
  <2>4. CASE CheckpointFails(p) \/ Stops(p)
    BY <2>1, <2>4 DEF CheckpointFails, Stops, Abandon, Unrecorded, Dropped, Fills, disk, Owners, TypeOK, DiskOK, i
  <2>5. ASSUME NEW n \in job[p].expired, CleanDisk(p, n)
        PROVE  snap'[i] = snap[i] /\ meta'[i] = meta[i]
    BY <2>1, <2>5 DEF CleanDisk, Owners, TypeOK, DiskOK
  <2> QED
    BY <2>2, <2>3, <2>4, <2>5 DEF i, OnDisk
<1> QED
  BY <1>1, <1>2, <1>3, <1>4 DEF Spared, Rewinds

LEMMA OtherChangeSpares ==
    ASSUME TypeOK, NEW f \in Files, NEW c, OtherChange(f, c), NEW q \in Procs
    PROVE  pc' = pc /\ (Rewinds(q) => Spared(q))
<1>1. q # "nobody"
  BY CheckpointsAssumption
<1>2. ASSUME Rewinds(q) PROVE seen'[q] = seen[q] /\ (q \in steady' => q \in steady /\ work' = work)
  BY <1>1, <1>2, PutSpares DEF OtherChange, Rewinds
<1> QED
  BY <1>2 DEF OtherChange, Spared, disk

LEMMA SparedKeeps ==
    ASSUME RewindInv, NEW q \in Procs, Rewinds(q), Spared(q), (job[q].id)' \in rows'
    PROVE  Rewound(q)'
<1>1. job[q].id \in rows /\ Rewound(q)
  BY DEF RewindInv, Spared
<1>2. /\ job'[q] = job[q] /\ pc'[q] = pc[q] /\ seen'[q] = seen[q]
      /\ snap'[job[q].id] = snap[job[q].id] /\ meta'[job[q].id] = meta[job[q].id]
  BY <1>1 DEF Spared
<1>3. \A f \in Files : Reached(q, f)' = Reached(q, f)
  BY <1>2 DEF Reached, Doomed
<1>4. q \in steady' => q \in steady /\ work' = work
  BY DEF Spared
<1>5. Saved(job[q].id)' = Saved(job[q].id)
  BY <1>2 DEF Present, Saved
<1> QED
  BY <1>1, <1>2, <1>3, <1>4, <1>5 DEF Rewound

\* The steps of the rewind itself.
LEMMA RewindAdvances ==
    ASSUME TypeOK, Placed, RewindInv, NEW p \in Procs, OffDisk(p), Rewinds(p)', (job[p].id)' \in rows'
    PROVE  Rewound(p)'
<1> DEFINE i == job[p].id
<1> USE DEF TypeOK, JobsOK, Goto, Untouched, disk
<1>1. CASE \/ EditEnds(p) \/ RewindEnds(p) \/ CleanEnds(p)
           \/ \E S \in (SUBSET Files) \ {{}}, plan \in Plans : EditStart(p, S, plan)
           \/ \E f \in Files, c \in Contents : WriteFile(p, f, c)
  BY <1>1 DEF EditEnds, RewindEnds, CleanEnds, EditStart, WriteFile, Begin, End, Rewinds
<1>2. ASSUME NEW n \in rows, RewindStart(p, n) PROVE Rewound(p)'
  BY <1>2 DEF RewindStart, Begin, Rewound, Reached
<1>3. Rewinds(p) /\ job'[p].id = i /\ rows' = rows => i \in Ids /\ Rewound(p)
  BY DEF Placed, RewindInv
<1>4. CASE ReadMetadata(p)
  <2> DEFINE k == [job[p] EXCEPT !.targeted = (meta[i] = "targeted")]
  <2>1. k.id = i /\ k.targeted = (meta[i] = "targeted")
    BY DEF JobType
  <2> HIDE DEF k
  <2>2. job'[p] = k /\ pc'[p] = "list" /\ pc[p] = "metadata"
    BY <1>4 DEF ReadMetadata, k
  <2>3. UNCHANGED <<work, steady, seen, rows, meta>>
    BY <1>4 DEF ReadMetadata
  <2>4. Rewound(p)
    BY <1>3, <2>1, <2>2, <2>3 DEF Rewinds
  <2> QED
    BY <2>1, <2>2, <2>3, <2>4 DEF Rewound, Reached
<1>5. CASE ListSnapshot(p)
  <2>0. PICK list \in SUBSET Saved(i) :
               Goto(p, "delete", [job[p] EXCEPT !.list = list, !.passed = Saved(i) \ list,
                                                !.todo = Doomed(job[p].targeted, list)])
    BY <1>5 DEF ListSnapshot
  <2> DEFINE todo == Doomed(job[p].targeted, list)
             k == [job[p] EXCEPT !.list = list, !.passed = Saved(i) \ list, !.todo = todo]
  <2>1. /\ k.id = i /\ k.targeted = job[p].targeted /\ k.list = list /\ k.todo = todo
        /\ k.passed = Saved(i) \ list
    BY DEF JobType
  <2> HIDE DEF k
  <2>2. job'[p] = k /\ pc'[p] = "delete" /\ pc[p] = "list"
    BY <1>5, <2>0 DEF ListSnapshot, k
  <2>3. UNCHANGED <<work, steady, seen, rows, meta, snap>>
    BY <1>5 DEF ListSnapshot
  <2>4. Rewound(p)
    BY <1>3, <2>1, <2>2, <2>3 DEF Rewinds
  <2>5. Doomed(job'[p].targeted, job'[p].list) = job'[p].todo
    BY <2>1, <2>2
  <2>6. \A f \in Files : Reached(p, f)' = seen[p][f] /\ Reached(p, f) = seen[p][f]
    BY <2>2, <2>3, <2>5 DEF Reached
  <2>7. /\ Saved(i)' = Saved(i)
        /\ job'[p].list \subseteq Saved(i) /\ Saved(i) \subseteq job'[p].list \cup job'[p].passed
    BY <2>1, <2>2, <2>3 DEF Saved, Present
  <2>8. p \in steady => \A f \in Files : work[f] = seen[p][f]
    BY <2>4, <2>6 DEF Rewound
  <2> QED
    BY <2>1, <2>2, <2>3, <2>4, <2>5, <2>6, <2>7, <2>8 DEF Rewound
<1>6. CASE RestoreStart(p)
  <2> DEFINE k == [job[p] EXCEPT !.todo = job[p].list]
  <2>1. /\ k.id = i /\ k.targeted = job[p].targeted /\ k.list = job[p].list /\ k.todo = job[p].list
        /\ k.passed = job[p].passed
    BY DEF JobType
  <2> HIDE DEF k
  <2>2. job'[p] = k /\ pc'[p] = "restore" /\ pc[p] = "delete" /\ job[p].todo = {}
    BY <1>6 DEF RestoreStart, k
  <2>3. UNCHANGED <<work, steady, seen, rows, meta, snap>>
    BY <1>6 DEF RestoreStart
  <2>4. Rewound(p)
    BY <1>3, <2>1, <2>2, <2>3 DEF Rewinds
  <2>5. ASSUME NEW f \in Files PROVE Reached(p, f)' = Reached(p, f)
    <3> DEFINE doomed == Doomed(job[p].targeted, job[p].list)
    <3>1. Doomed(job'[p].targeted, job'[p].list) = doomed
      BY <2>1, <2>2 DEF Doomed
    <3> HIDE DEF doomed
    <3>2. Reached(p, f) = IF f \in doomed THEN Absent ELSE seen[p][f]
      BY <2>2 DEF Reached, doomed
    <3>3. Reached(p, f)' = IF f \in doomed THEN Absent ELSE seen[p][f]
      BY <2>1, <2>2, <2>3, <3>1 DEF Reached
    <3> QED
      BY <3>2, <3>3
  <2> QED
    BY <2>1, <2>2, <2>3, <2>4, <2>5 DEF Rewound, Saved, Present
<1>7. ASSUME NEW f \in Files, DeleteFile(p, f) \/ RestoreFile(p, f)
      PROVE  Rewound(p)'
  <2> DEFINE k == [job[p] EXCEPT !.todo = @ \ {f}]
             c == IF pc[p] = "delete" THEN Absent ELSE snap[i][f]
  <2>1. /\ k.id = i /\ k.targeted = job[p].targeted /\ k.list = job[p].list /\ k.todo = job[p].todo \ {f}
        /\ k.passed = job[p].passed
    BY DEF JobType
  <2> HIDE DEF k
  <2>2. job'[p] = k /\ pc'[p] = pc[p] /\ pc[p] \in {"delete", "restore"} /\ f \in job[p].todo
    BY <1>7 DEF DeleteFile, RestoreFile, k
  <2>3. UNCHANGED <<seen, rows, meta, snap>>
    BY <1>7 DEF DeleteFile, RestoreFile, Put
  <2>4. Rewound(p)
    BY <1>3, <2>1, <2>2, <2>3 DEF Rewinds
  <2>5. /\ work'[f] = c /\ \A g \in Files \ {f} : work'[g] = work[g]
        /\ p \in steady' => p \in steady
    BY <1>7 DEF DeleteFile, RestoreFile, Put, DiskOK, Tree
  <2>6. \A g \in Files \ {f} : Reached(p, g)' = Reached(p, g)
    BY <2>1, <2>2, <2>3 DEF Reached, Doomed
  <2>7. Reached(p, f)' = c
    <3>1. pc[p] = "restore" => f \in job[p].list
      BY <2>2, <2>4 DEF Rewound
    <3>2. pc[p] = "delete" => f \in Doomed(job[p].targeted, job[p].list)
      BY <2>2, <2>4 DEF Rewound
    <3> QED
      BY <2>1, <2>2, <2>3, <3>1, <3>2 DEF Reached, Doomed
  <2> QED
    BY <2>1, <2>2, <2>3, <2>4, <2>5, <2>6, <2>7 DEF Rewound, Saved, Present
<1>10. ASSUME NEW f \in Files, PassOverFile(p, f) PROVE Rewound(p)'
  <2> DEFINE k == [job[p] EXCEPT !.todo = @ \ {f}, !.passed = @ \cup {f}]
  <2>1. /\ k.id = i /\ k.targeted = job[p].targeted /\ k.list = job[p].list /\ k.todo = job[p].todo \ {f}
        /\ k.passed = job[p].passed \cup {f}
    BY DEF JobType
  <2> HIDE DEF k
  <2>2. job'[p] = k /\ pc'[p] = "delete" /\ pc[p] = "delete" /\ f \in job[p].todo
    BY <1>10 DEF PassOverFile, k
  <2>3. UNCHANGED <<work, steady, seen, rows, meta, snap>>
    BY <1>10 DEF PassOverFile
  <2>4. Rewound(p)
    BY <1>3, <2>1, <2>2, <2>3 DEF Rewinds
  <2>5. \A g \in Files \ {f} : Reached(p, g)' = Reached(p, g)
    BY <2>1, <2>2, <2>3 DEF Reached, Doomed
  <2>6. Reached(p, f) = seen[p][f]
    BY <2>2 DEF Reached
  <2>7. p \in steady => \A g \in Files :
             work[g] = Reached(p, g) \/ (g \in job[p].passed /\ work[g] = seen[p][g])
    BY <2>4 DEF Rewound
  <2>8. p \in steady => \A g \in Files :
             work[g] = Reached(p, g)' \/ (g \in k.passed /\ work[g] = seen[p][g])
    BY <2>1, <2>5, <2>6, <2>7
  <2>9. Saved(i)' = Saved(i)
    BY <2>1, <2>2, <2>3 DEF Saved, Present
  <2>10. Doomed(k.targeted, k.list) = Doomed(job[p].targeted, job[p].list)
    BY <2>1 DEF Doomed
  <2> QED
    BY <2>1, <2>2, <2>3, <2>4, <2>8, <2>9, <2>10 DEF Rewound
<1> HIDE DEF TypeOK, JobsOK, Goto, Untouched, disk
<1>8. CASE \E f \in Files : DeleteFile(p, f) \/ RestoreFile(p, f)
  BY <1>7, <1>8
<1>9. CASE \E n \in rows : RewindStart(p, n)
  BY <1>2, <1>9
<1>11. CASE \E f \in Files : PassOverFile(p, f)
  BY <1>10, <1>11
<1> QED
  BY <1>1, <1>4, <1>5, <1>6, <1>8, <1>9, <1>11 DEF OffDisk

LEMMA RewindStep ==
    ASSUME WholeInv, RewindInv, [Next]_vars PROVE RewindInv'
<1> USE DEF WholeInv, Owners
<1> SUFFICES ASSUME NEW q \in Procs, Rewinds(q)', (job[q].id)' \in rows' PROVE Rewound(q)'
  BY DEF RewindInv
<1>1. ASSUME NEW p \in Procs, OffDisk(p) PROVE Rewound(q)'
  <2>1. CASE q = p
    BY <1>1, <2>1, RewindAdvances
  <2>2. CASE q # p
    <3>1. Rewinds(q) /\ Spared(q)
      BY <1>1, <2>2, OffDiskSpares DEF Rewinds
    <3> QED
      BY <3>1, SparedKeeps
  <2> QED
    BY <2>1, <2>2
<1>2. ASSUME NEW p \in Procs, OnDisk(p)
      PROVE  Rewound(q)'
  <2>1. q # p
    BY <1>2, CheckpointSpares
  <2>2. Rewinds(q) /\ Spared(q)
    BY <1>2, <2>1, CheckpointSpares DEF Rewinds
  <2> QED
    BY <2>2, SparedKeeps
<1>3. ASSUME NEW f \in Files, NEW c, OtherChange(f, c) PROVE Rewound(q)'
  <2>1. Rewinds(q) /\ Spared(q)
    BY <1>3, OtherChangeSpares DEF Rewinds
  <2> QED
    BY <2>1, SparedKeeps
<1>4. CASE UNCHANGED vars
  <2>1. Rewinds(q) /\ Spared(q)
    BY <1>4 DEF vars, disk, Rewinds, Spared
  <2> QED
    BY <2>1, SparedKeeps
<1> QED
  BY <1>1, <1>2, <1>3, <1>4 DEF Next, OffDisk, OnDisk

LEMMA RewindInit ==
    ASSUME Init PROVE RewindInv
  BY DEF Init, RewindInv

\* No matter where a rewind to a targeted checkpoint is stopped, no file outside
\* the checkpoint has changed, and those of the checkpoint are as before, gone,
\* or restored: the files that rewind_to_checkpoint deletes are those it lists.
THEOREM RewindStaysInScopeAlways == Spec => []RewindStaysInScope
<1>1. WholeInv /\ RewindInv => RewindStaysInScope
  <2> SUFFICES ASSUME WholeInv, RewindInv, NEW p \in Procs, pc[p] \in {"delete", "restore"}, p \in steady,
                      job[p].id \in rows, NEW f \in Files
               PROVE  \/ work[f] = seen[p][f]
                      \/ /\ meta[job[p].id] = "targeted" => f \in job[p].list
                         /\ work[f] \in {Absent, snap[job[p].id][f]}
    BY DEF RewindStaysInScope
  <2>1. Rewound(p)
    BY DEF RewindInv, Rewinds
  <2>2. /\ work[f] = Reached(p, f) \/ work[f] = seen[p][f]
        /\ job[p].targeted = (meta[job[p].id] = "targeted")
    BY <2>1 DEF Rewound
  <2> QED
    BY <2>2 DEF Reached, Doomed
<1> QED
  BY <1>1, WholeInit, WholeStep, RewindInit, RewindStep, PTL DEF Spec

\* A rewind that nobody disturbs restores the workspace of the checkpoint, for
\* any files, but for those that were passed over or taken from elsewhere, and
\* for metadata.json at the root.
THEOREM RewindRestoresAlways == Spec => []RewindRestores
<1>1. WholeInv /\ RewindInv => RewindRestores
  <2> SUFFICES ASSUME WholeInv, RewindInv, NEW p \in Procs, pc[p] = "restore", job[p].todo = {}, p \in steady,
                      job[p].id \in rows \ mixed,
                      NEW f \in Files \ (gaps[job[p].id] \cup job[p].passed)
               PROVE  work[f] = IF f \in job[p].list THEN base[job[p].id][f]
                                ELSE IF meta[job[p].id] = "targeted" THEN seen[p][f] ELSE
                                IF f \in Unlisted THEN Absent ELSE base[job[p].id][f]
    BY DEF RewindRestores
  <2> DEFINE i == job[p].id
  <2>1. Rewound(p)
    BY DEF RewindInv, Rewinds
  <2>2. /\ work[f] = Reached(p, f) /\ job[p].targeted = (meta[i] = "targeted")
        /\ job[p].list \subseteq Saved(i) /\ Saved(i) \subseteq job[p].list \cup job[p].passed
    BY <2>1 DEF Rewound
  <2>3. snap[i][f] = base[i][f] \/ (meta[i] = "targeted" /\ snap[i][f] = Absent)
    BY DEF WholeInv, RecordedAreComplete
  <2>4. f \in Saved(i) <=> snap[i][f] # Absent /\ f \notin Unlisted
    BY DEF Saved, Present
  <2> QED
    BY <2>2, <2>3, <2>4 DEF Reached, Doomed
<1> QED
  BY <1>1, WholeInit, WholeStep, RewindInit, RewindStep, PTL DEF Spec
-----------------------------------------------------------------------------
(* Edits can be undone *)

\* What a step of somebody else leaves to an edit.
Leaves(q) ==
    /\ pc'[q] = pc[q] /\ job'[q] = job[q] /\ seen'[q] = seen[q]
    /\ q \in steady' => q \in steady /\ UNCHANGED <<work, mixed>>
    /\ Fills(q) => base'[job[q].id] = base[job[q].id]
    /\ job[q].id \in rows =>
          job[q].id \in rows' /\ snap'[job[q].id] = snap[job[q].id] /\ gaps'[job[q].id] = gaps[job[q].id]

LEMMA LeavesKeeps ==
    ASSUME NEW q \in Procs, EditedBy(q), Leaves(q)
    PROVE  EditedBy(q)'
<1>1. Fills(q)' <=> Fills(q)
  BY DEF Leaves, Fills
<1> QED
  BY <1>1 DEF EditedBy, Leaves

LEMMA PutLeaves ==
    ASSUME TypeOK, NEW p, NEW f \in Files, NEW c, Put(p, f, c), NEW q \in Procs, q # p, pc[q] # "idle"
    PROVE  seen'[q] = seen[q] /\ (q \in steady' => q \in steady /\ UNCHANGED <<work, mixed>>)
<1>1. c = work[f] => UNCHANGED <<work, mixed>>
  BY DEF Put, TypeOK, DiskOK, Tree
<1> QED
  BY <1>1 DEF Put

LEMMA OffDiskLeaves ==
    ASSUME TypeOK, NEW p \in Procs, OffDisk(p), NEW q \in Procs, q # p, Edits(q)
    PROVE  Leaves(q)
<1> USE DEF TypeOK, JobsOK, Goto, Begin, End, Untouched
<1>1. pc'[q] = pc[q] /\ job'[q] = job[q] /\ UNCHANGED disk
  BY OffDiskSpares DEF OffDisk, EditStart, EditEnds, ReadMetadata, ListSnapshot, RestoreStart, RewindEnds,
     CleanEnds, DeleteFile, PassOverFile, RestoreFile, WriteFile,
     RewindStart
<1>2. seen'[q] = seen[q] /\ (q \in steady' => q \in steady /\ UNCHANGED <<work, mixed>>)
  <2>1. pc[q] # "idle"
    BY DEF Edits
  <2>2. ASSUME NEW f \in Files, DeleteFile(p, f) \/ RestoreFile(p, f) \/ \E c \in Contents : WriteFile(p, f, c)
        PROVE  <1>2!:
    <3>1. PICK c : Put(p, f, c)
      BY <2>2 DEF DeleteFile, RestoreFile, WriteFile
    <3> QED
      BY <2>1, <3>1, PutLeaves
  <2>3. CASE \/ \E S \in (SUBSET Files) \ {{}}, plan \in Plans : EditStart(p, S, plan)
             \/ EditEnds(p) \/ ReadMetadata(p) \/ ListSnapshot(p) \/ RestoreStart(p) \/ RewindEnds(p)
             \/ CleanEnds(p) \/ (\E i \in rows : RewindStart(p, i)) \/ \E f \in Files : PassOverFile(p, f)
    BY <2>3 DEF EditStart, EditEnds, ReadMetadata, ListSnapshot, RestoreStart, RewindEnds, CleanEnds, RewindStart,
       PassOverFile
  <2> QED
    BY <2>2, <2>3 DEF OffDisk
<1> QED
  BY <1>1, <1>2 DEF Leaves, disk

LEMMA CheckpointLeaves ==
    ASSUME Owners, NEW p \in Procs, OnDisk(p), NEW q \in Procs, q # p, Edits(q)
    PROVE  Leaves(q)
<1> DEFINE i == job[q].id
<1>1. /\ pc'[q] = pc[q] /\ job'[q] = job[q] /\ seen'[q] = seen[q]
      /\ q \in steady' => q \in steady /\ UNCHANGED <<work, mixed>>
  <2>1. ASSUME NEW f \in Files, CopyOntoItself(p, f) PROVE <1>1!:
    <3>1. pc'[q] = pc[q] /\ job'[q] = job[q] /\ Put("nobody", f, Blank) /\ q # "nobody" /\ pc[q] # "idle"
      BY <2>1, CheckpointsAssumption DEF CopyOntoItself, Goto, Owners, TypeOK, JobsOK, Edits
    <3> QED
      BY <3>1, PutLeaves DEF Owners
  <2> QED
    BY <2>1 DEF OnDisk, Owners, TypeOK, JobsOK, Goto, Begin, End, Untouched, BeginCheckpoint, WriteMetadata,
       InsertRecord, CheckpointFails, CopyFile, CleanRows, CleanDisk, Stops
<1>2. ASSUME i \in rows PROVE i \in rows'
  BY <1>2 DEF OnDisk, BeginCheckpoint, WriteMetadata, InsertRecord, CheckpointFails, CopyFile, CopyOntoItself,
     CleanRows, CleanDisk, Stops, Abandon, Dropped, disk, Old, Edits
<1>3. ASSUME i \in rows PROVE snap'[i] = snap[i] /\ gaps'[i] = gaps[i]
  <2>1. /\ i \in Ids /\ \A r \in Procs : (Fills(r) => i # job[r].id) /\ i \notin job[r].expired
    BY <1>3 DEF Owners, Owned, TypeOK, DiskOK
  <2> HIDE DEF i
  <2>2. CASE BeginCheckpoint(p) \/ InsertRecord(p) \/ WriteMetadata(p) \/ \E S \in SUBSET Old : CleanRows(p, S)
    BY <2>2 DEF BeginCheckpoint, InsertRecord, WriteMetadata, CleanRows
  <2>3. CASE \E f \in Files : CopyFile(p, f) \/ CopyOntoItself(p, f)
    BY <2>1, <2>3 DEF CopyFile, CopyOntoItself, Fills, Owners, TypeOK, DiskOK
  <2>4. CASE CheckpointFails(p) \/ Stops(p)
    BY <2>1, <2>4 DEF CheckpointFails, Stops, Abandon, Unrecorded, Dropped, Fills, disk, Owners, TypeOK, DiskOK
  <2>5. ASSUME NEW n \in job[p].expired, CleanDisk(p, n)
        PROVE  snap'[i] = snap[i] /\ gaps'[i] = gaps[i]
    BY <2>1, <2>5 DEF CleanDisk, Owners, TypeOK, DiskOK
  <2> QED
    BY <2>2, <2>3, <2>4, <2>5 DEF OnDisk
<1>4. ASSUME Fills(q) PROVE base'[i] = base[i]
  <2>1. /\ i \in Ids /\ i <= lastId /\ job[p].id # i
    BY <1>4, OnlyFiller
  <2> HIDE DEF i
  <2>2. i # lastId + 1
    BY <2>1, OwnerFacts
  <2>3. CASE BeginCheckpoint(p)
    BY <2>1, <2>2, <2>3 DEF BeginCheckpoint, Owners, TypeOK, DiskOK
  <2>4. CASE CheckpointFails(p) \/ Stops(p)
    BY <2>1, <2>4 DEF CheckpointFails, Stops, Abandon, Dropped, disk, Owners, TypeOK, DiskOK
  <2>5. CASE \/ WriteMetadata(p) \/ InsertRecord(p)
             \/ \E f \in Files : CopyFile(p, f) \/ CopyOntoItself(p, f)
             \/ \E S \in SUBSET Old : CleanRows(p, S)
             \/ \E n \in job[p].expired : CleanDisk(p, n)
    BY <2>5 DEF WriteMetadata, InsertRecord, CopyFile, CopyOntoItself, CleanRows, CleanDisk
  <2> QED
    BY <2>3, <2>4, <2>5 DEF OnDisk
<1> QED
  BY <1>1, <1>2, <1>3, <1>4 DEF Leaves

LEMMA OtherChangeLeaves ==
    ASSUME TypeOK, NEW f \in Files, NEW c, OtherChange(f, c), NEW q \in Procs, Edits(q)
    PROVE  Leaves(q)
<1>1. q # "nobody" /\ pc[q] # "idle"
  BY CheckpointsAssumption DEF Edits
<1>2. seen'[q] = seen[q] /\ (q \in steady' => q \in steady /\ UNCHANGED <<work, mixed>>)
  BY <1>1, PutLeaves DEF OtherChange
<1> QED
  BY <1>2 DEF OtherChange, Leaves, disk

LEMMA PlanTail ==
    ASSUME NEW S, NEW plan \in Seq(S), plan # <<>>
    PROVE  /\ Tail(plan) = <<>> => Head(plan) = plan[Len(plan)]
           /\ Tail(plan) # <<>> => Tail(plan)[Len(Tail(plan))] = plan[Len(plan)]
<1>1. Len(plan) \in Nat \ {0} /\ Len(Tail(plan)) = Len(plan) - 1 /\ Head(plan) = plan[1] /\ Tail(plan) \in Seq(S)
  OBVIOUS
<1>2. Tail(plan) = <<>> => Len(plan) = 1
  BY <1>1
<1>3. Tail(plan) # <<>> => Len(Tail(plan)) >= 1
  BY <1>1
<1>4. \A n \in 1..Len(Tail(plan)) : Tail(plan)[n] = plan[n + 1]
  BY <1>1
<1> QED
  BY <1>1, <1>2, <1>3, <1>4

\* The steps of the edit itself.
LEMMA EditAdvances ==
    ASSUME TypeOK, EditInv, NEW p \in Procs, OffDisk(p), Edits(p)'
    PROVE  EditedBy(p)'
<1>1. ASSUME NEW S \in (SUBSET Files) \ {{}}, NEW plan \in Plans, EditStart(p, S, plan)
      PROVE  EditedBy(p)'
  <2> DEFINE k == [Idle EXCEPT !.plan = plan, !.files = S, !.must = plan[Len(plan)] = "must"]
  <2>1. k.plan = plan /\ k.must = (plan[Len(plan)] = "must") /\ plan # <<>>
    BY PlanTypes DEF Idle
  <2> HIDE DEF k
  <2>2. job'[p] = k /\ pc'[p] = "begin" /\ seen'[p] = work /\ work' = work
    BY <1>1 DEF EditStart, Begin, Goto, TypeOK, JobsOK, k
  <2> QED
    BY <2>1, <2>2 DEF EditedBy, Fills
<1>2. ASSUME NEW f \in Files, NEW c \in Contents, WriteFile(p, f, c)
      PROVE  EditedBy(p)'
  <2> DEFINE k == [job[p] EXCEPT !.files = @ \ {f}]
  <2>1. k.id = job[p].id /\ k.plan = job[p].plan /\ k.must = job[p].must
    BY DEF TypeOK, JobsOK, JobType
  <2> HIDE DEF k
  <2>2. /\ job'[p] = k /\ pc'[p] = "begin" /\ pc[p] = "begin" /\ job[p].plan = <<>>
        /\ UNCHANGED <<seen, rows, snap, gaps>> /\ (p \in steady' => p \in steady)
    BY <1>2 DEF WriteFile, Put, Goto, TypeOK, JobsOK, k, disk
  <2>3. EditedBy(p)
    BY <2>2 DEF EditInv, Edits
  <2> QED
    BY <2>1, <2>2, <2>3 DEF EditedBy
<1>3. CASE \/ EditEnds(p) \/ ReadMetadata(p) \/ ListSnapshot(p) \/ RestoreStart(p) \/ RewindEnds(p)
           \/ CleanEnds(p) \/ \E f \in Files : DeleteFile(p, f) \/ PassOverFile(p, f) \/ RestoreFile(p, f)
           \/ \E i \in rows : RewindStart(p, i)
  BY <1>3 DEF EditEnds, ReadMetadata, ListSnapshot, RestoreStart, RewindEnds, CleanEnds, DeleteFile, PassOverFile,
     RestoreFile, RewindStart, Begin, End, Goto, TypeOK, JobsOK, Edits
<1>4. CASE \E S \in (SUBSET Files) \ {{}}, plan \in Plans : EditStart(p, S, plan)
  BY <1>1, <1>4
<1>5. CASE \E f \in Files, c \in Contents : WriteFile(p, f, c)
  BY <1>2, <1>5
<1> QED
  BY <1>3, <1>4, <1>5 DEF OffDisk

LEMMA EditCheckpoints ==
    ASSUME WholeInv, EditInv, NEW p \in Procs, Edits(p)', OnDisk(p)
    PROVE  EditedBy(p)'
<1> DEFINE i == job[p].id
<1>1. job[p] \in JobType
  BY DEF WholeInv, Owners, TypeOK, JobsOK
<1>2. CASE (\E S \in SUBSET Old : CleanRows(p, S)) \/ (\E n \in job[p].expired : CleanDisk(p, n)) \/ Stops(p)
  BY <1>2 DEF CleanRows, CleanDisk, Stops, Begin, End, Goto, WholeInv, Owners, TypeOK, JobsOK, Edits
<1>3. CASE BeginCheckpoint(p)
  <2> DEFINE n == lastId + 1
             k == [job[p] EXCEPT !.id = n, !.todo = Scope(job[p].plan, job[p].files)]
  <2>1. k.id = n /\ k.plan = job[p].plan /\ k.must = job[p].must /\ job[p].plan # <<>>
    BY <1>1, <1>3 DEF JobType, BeginCheckpoint
  <2>2. n \in Ids /\ n > lastId
    BY <1>3, CheckpointsAssumption DEF BeginCheckpoint, WholeInv, Owners, TypeOK, DiskOK, Ids
  <2> HIDE DEF k, n
  <2>3. /\ job'[p] = k /\ base'[n] = work /\ UNCHANGED <<work, mixed, seen, steady>>
    BY <1>3, <2>2 DEF BeginCheckpoint, Untouched, Goto, WholeInv, Owners, TypeOK, JobsOK, DiskOK, k, n
  <2>4. EditedBy(p) /\ n \notin mixed
    BY <1>3, <2>2 DEF BeginCheckpoint, EditInv, Edits, WholeInv, Owners, Fresh
  <2> QED
    BY <2>1, <2>3, <2>4 DEF EditedBy
<1>4. ASSUME NEW f \in Files, CopyFile(p, f) PROVE EditedBy(p)'
  <2> DEFINE k == [job[p] EXCEPT !.todo = @ \ {f}]
  <2>1. k.id = i /\ k.plan = job[p].plan /\ k.must = job[p].must
    BY <1>1 DEF JobType
  <2> HIDE DEF k
  <2>2. job'[p] = k /\ UNCHANGED <<work, mixed, seen, steady, base>> /\ Fills(p)
    BY <1>4 DEF CopyFile, Untouched, Goto, WholeInv, Owners, TypeOK, JobsOK, k, Fills
  <2>3. EditedBy(p) /\ job[p].plan # <<>>
    BY <2>2 DEF EditInv, Edits, Fills, WholeInv, Owners, Placed
  <2> QED
    BY <2>1, <2>2, <2>3 DEF EditedBy
<1>9. ASSUME NEW f \in Files, CopyOntoItself(p, f) PROVE EditedBy(p)'
  <2> DEFINE k == [job[p] EXCEPT !.todo = @ \ {f}]
  <2>1. k.id = i /\ k.plan = job[p].plan /\ k.must = job[p].must
    BY <1>1 DEF JobType
  <2> HIDE DEF k
  <2>2. /\ job'[p] = k /\ base' = base /\ Fills(p) /\ Put("nobody", f, Blank)
        /\ p # "nobody" /\ pc[p] # "idle"
    BY <1>9, CheckpointsAssumption DEF CopyOntoItself, Goto, WholeInv, Owners, TypeOK, JobsOK, k, Fills
  <2>3. EditedBy(p) /\ job[p].plan # <<>>
    BY <2>2 DEF EditInv, Edits, Fills, WholeInv, Owners, Placed
  <2>4. seen'[p] = seen[p] /\ (p \in steady' => p \in steady /\ UNCHANGED <<work, mixed>>)
    BY <2>2, PutLeaves DEF WholeInv, Owners
  <2> QED
    BY <2>1, <2>2, <2>3, <2>4 DEF EditedBy
<1>5. CASE WriteMetadata(p)
  <2>1. job' = job /\ UNCHANGED <<work, mixed, seen, steady, base>> /\ Fills(p)
    BY <1>5 DEF WriteMetadata, Untouched, Settled, Fills
  <2>2. EditedBy(p) /\ job[p].plan # <<>>
    BY <2>1 DEF EditInv, Edits, Fills, WholeInv, Owners, Placed
  <2> QED
    BY <2>1, <2>2 DEF EditedBy
<1>6. CASE InsertRecord(p)
  <2> DEFINE k == [job[p] EXCEPT !.plan = Tail(@)]
  <2>1. k.id = i /\ k.plan = Tail(job[p].plan) /\ k.must = job[p].must
    BY <1>1 DEF JobType
  <2> HIDE DEF k
  <2>2. /\ job'[p] = k /\ UNCHANGED <<work, mixed, seen, steady, base, snap, gaps>> /\ rows' = rows \cup {i}
        /\ Fills(p) /\ pc[p] = "record" /\ pc'[p] = "begin"
    BY <1>6 DEF InsertRecord, Untouched, Goto, WholeInv, Owners, TypeOK, JobsOK, k, Fills
  <2>3. EditedBy(p) /\ job[p].plan # <<>> /\ i \in Ids /\ CopiedBy(p)
    BY <2>2 DEF EditInv, Edits, Fills, WholeInv, Owners, Placed, Copied
  <2>4. /\ Tail(job[p].plan) = <<>> => Head(job[p].plan) = job[p].plan[Len(job[p].plan)]
        /\ Tail(job[p].plan) # <<>> => Tail(job[p].plan)[Len(Tail(job[p].plan))] = job[p].plan[Len(job[p].plan)]
    BY <1>1, <2>3, PlanTail DEF JobType
  <2>5. ASSUME p \in steady, Tail(job[p].plan) = <<>>, job[p].must, NEW f \in Files
        PROVE  snap[i][f] = seen[p][f] \/ (f \in gaps[i] /\ snap[i][f] = Absent)
    <3>1. Kind(p) = "full" /\ i \notin mixed /\ base[i] = seen[p]
      BY <2>2, <2>3, <2>4, <2>5 DEF EditedBy, Kind
    <3> QED
      BY <2>2, <2>3, <3>1 DEF CopiedBy
  <2> QED
    BY <2>1, <2>2, <2>3, <2>4, <2>5 DEF EditedBy, Fills
<1>7. CASE CheckpointFails(p)
  <2> DEFINE k == [job[p] EXCEPT !.plan = Tail(@), !.id = 0, !.todo = {}]
  <2>1. k.plan = Tail(job[p].plan) /\ k.must = job[p].must
    BY <1>1 DEF JobType
  <2> HIDE DEF k
  <2>2. /\ job'[p] = k /\ UNCHANGED <<work, mixed, seen, steady>> /\ pc'[p] = "begin"
        /\ job[p].plan # <<>> /\ Head(job[p].plan) # "must" /\ Edits(p)
    BY <1>7 DEF CheckpointFails, Checkpointing, Untouched, Goto, WholeInv, Owners, TypeOK, JobsOK, k, Edits
  <2>3. EditedBy(p)
    BY <2>2 DEF EditInv
  <2>4. /\ Tail(job[p].plan) = <<>> => Head(job[p].plan) = job[p].plan[Len(job[p].plan)]
        /\ Tail(job[p].plan) # <<>> => Tail(job[p].plan)[Len(Tail(job[p].plan))] = job[p].plan[Len(job[p].plan)]
    BY <1>1, <2>2, PlanTail DEF JobType
  <2> QED
    BY <2>1, <2>2, <2>3, <2>4 DEF EditedBy, Fills
<1>8. CASE \E f \in Files : CopyFile(p, f) \/ CopyOntoItself(p, f)
  BY <1>4, <1>8, <1>9
<1> QED
  BY <1>2, <1>3, <1>5, <1>6, <1>7, <1>8 DEF OnDisk

LEMMA EditStep ==
    ASSUME WholeInv, EditInv, [Next]_vars PROVE EditInv'
<1> USE DEF WholeInv, Owners
<1> SUFFICES ASSUME NEW q \in Procs, Edits(q)' PROVE EditedBy(q)'
  BY DEF EditInv
<1>0. ASSUME Edits(q), Leaves(q) PROVE EditedBy(q)'
  BY <1>0, LeavesKeeps DEF EditInv
<1>1. ASSUME NEW p \in Procs, OffDisk(p) PROVE EditedBy(q)'
  <2>1. CASE q = p
    BY <1>1, <2>1, EditAdvances
  <2>2. CASE q # p
    <3>1. Edits(q)
      BY <1>1, <2>2, OffDiskSpares DEF Edits
    <3> QED
      BY <1>0, <1>1, <2>2, <3>1, OffDiskLeaves
  <2> QED
    BY <2>1, <2>2
<1>2. ASSUME NEW p \in Procs, OnDisk(p)
      PROVE  EditedBy(q)'
  <2>1. CASE q = p
    BY <1>2, <2>1, EditCheckpoints
  <2>2. CASE q # p
    <3>1. Edits(q)
      BY <1>2, <2>2, CheckpointSpares DEF Edits
    <3> QED
      BY <1>0, <1>2, <2>2, <3>1, CheckpointLeaves
  <2> QED
    BY <2>1, <2>2
<1>3. ASSUME NEW f \in Files, NEW c, OtherChange(f, c) PROVE EditedBy(q)'
  <2>1. Edits(q)
    BY <1>3, OtherChangeSpares DEF Edits
  <2> QED
    BY <1>0, <1>3, <2>1, OtherChangeLeaves
<1>4. CASE UNCHANGED vars
  <2>1. Edits(q) /\ Leaves(q)
    BY <1>4 DEF vars, disk, Edits, Leaves
  <2> QED
    BY <1>0, <2>1
<1> QED
  BY <1>1, <1>2, <1>3, <1>4 DEF Next, OffDisk, OnDisk

\* While a tool that makes its own checkpoint changes its files, the store has
\* the workspace of before: that checkpoint is the last of the plan, the edit
\* stops when it fails, and the clean-up leaves recent checkpoints alone.
THEOREM EditsUndoableAlways == Spec => []EditsUndoable
<1>1. Init => EditInv
  BY DEF Init, EditInv, Edits
<1>2. EditInv => EditsUndoable
  BY DEF EditInv, EditedBy, Edits, EditsUndoable
<1> QED
  BY <1>1, <1>2, WholeInit, WholeStep, EditStep, PTL DEF Spec

=============================================================================
