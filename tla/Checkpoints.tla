------------------------------ MODULE Checkpoints ------------------------------
(***************************************************************************)
(* File checkpoints: edits that take them, rewinds that restore them, and  *)
(* the clean-up that removes them when another engine starts.              *)
(*                                                                         *)
(* A checkpoint is a directory fs/ with copied files, a metadata.json next *)
(* to it, and a row of the store that makes it known.  It is filled file   *)
(* by file and the row comes last; a rewind reads the metadata, deletes    *)
(* the files it is going to replace, and copies the saved ones back; the   *)
(* clean-up deletes the rows first and then the directories.               *)
(*                                                                         *)
(* What a walk of the disk cannot read it passes over in silence, and a    *)
(* checkpoint of chosen files finds relative paths in the current directory*)
(* of the process.  So what is saved need not be what the workspace holds. *)
(*                                                                         *)
(* Every step may fail or be the last one of its process, and other        *)
(* processes and the user change the same workspace.                       *)
(***************************************************************************)
EXTENDS Integers, Sequences, FiniteSets

CONSTANTS
    Procs,        \* processes that use the workspace
    Editors,      \* bound: those of them that edit
    Elsewhere,    \* processes whose current directory is not the workspace as they spell it
    Files,        \* files of the workspace, outside the ignored directories
    Unlisted,     \* of these, the ones that rewinds leave out: metadata.json at the root
    Contents,     \* what a file may hold
    Blank,        \* the content of an emptied file
    Absent,       \* no such file
    Trees,        \* bound: the workspaces a run begins with
    MaxIds,       \* bound: checkpoints that are begun
    MaxOps,       \* bound: edits, rewinds and clean-ups that are begun
    MaxChanges    \* bound: changes made by hand or by shell commands

ASSUME CheckpointsAssumption ==
    /\ Editors \subseteq Procs /\ "nobody" \notin Procs
    /\ Absent \notin Contents /\ Blank \in Contents
    /\ Unlisted \subseteq Files /\ Trees \subseteq [Files -> Contents]
    /\ MaxIds \in Nat /\ MaxOps \in Nat /\ MaxChanges \in Nat

VARIABLES
    work,      \* the workspace
    snap,      \* per checkpoint: the files below fs/
    dir,       \* checkpoints whose fs/ exists
    meta,      \* per checkpoint: what metadata.json says
    rows,      \* checkpoints in the store
    lastId,    \* identifiers are given out in order
    pc, job,   \* per process: its next step and its local state
    base,      \* per checkpoint: the workspace when it was begun (history variable)
    gaps,      \* per checkpoint: files it does not hold as they were (history variable)
    mixed,     \* checkpoints during whose creation the workspace changed (history variable)
    seen,      \* per process: the workspace when its operation began (history variable)
    steady,    \* processes whose operation nobody disturbed (history variable)
    ops,       \* counts the operations
    changes    \* counts the changes by hand

disk == <<snap, dir, meta, rows, lastId, base, gaps>>
counters == <<ops, changes>>
vars == <<work, disk, pc, job, mixed, seen, steady, counters>>

Ids == 1..MaxIds
Empty == [f \in Files |-> Absent]

\* What an edit saves first.  The callback of the tool loop makes a full
\* checkpoint when git has none to offer, then one of the files to be changed,
\* and ignores errors; most tools that write then make a full one themselves.
Plans == { <<"must">>, <<"save", "target">>, <<"save", "target", "must">> }

\* id: the checkpoint at hand; todo: files still to be copied, deleted or
\* restored; list: the saved files; passed: files the walks of a rewind passed
\* over; must: the edit makes a checkpoint of its own; expired: checkpoints
\* whose directory is to be removed.
Idle == [id |-> 0, todo |-> {}, list |-> {}, passed |-> {}, targeted |-> FALSE, plan |-> <<>>, files |-> {},
         must |-> FALSE, expired |-> {}]

Init ==
    /\ work \in Trees
    /\ snap = [i \in Ids |-> Empty] /\ dir = {} /\ meta = [i \in Ids |-> "none"]
    /\ rows = {} /\ lastId = 0
    /\ pc = [p \in Procs |-> "idle"] /\ job = [p \in Procs |-> Idle]
    /\ base = [i \in Ids |-> Empty] /\ gaps = [i \in Ids |-> {}] /\ mixed = {}
    /\ seen = [p \in Procs |-> Empty] /\ steady = Procs
    /\ ops = 0 /\ changes = 0

Present(tree) == {f \in Files : tree[f] # Absent}

\* The checkpoints that are being filled.
Filling == {job[q].id : q \in {r \in Procs : pc[r] = "copy"}}

Goto(p, l, j) == pc' = [pc EXCEPT ![p] = l] /\ job' = [job EXCEPT ![p] = j]

\* Changes the workspace on behalf of p, or of nobody, and notes whom that disturbs.
Put(p, f, c) ==
    /\ work' = [work EXCEPT ![f] = c]
    /\ IF c = work[f] THEN UNCHANGED <<steady, mixed>>
       ELSE /\ steady' = {q \in steady : q = p \/ pc[q] = "idle"}
            /\ mixed' = mixed \cup Filling
    /\ UNCHANGED seen

Untouched == UNCHANGED <<work, mixed, seen, steady>>

\* A new operation of p.
Begin(p, l, j) ==
    /\ pc[p] = "idle" /\ ops < MaxOps
    /\ Goto(p, l, j)
    /\ ops' = ops + 1 /\ seen' = [seen EXCEPT ![p] = work]
    /\ UNCHANGED <<work, mixed, steady, changes>>

\* The operation of p is over.
End(p) ==
    /\ Goto(p, "idle", Idle)
    /\ seen' = [seen EXCEPT ![p] = Empty] /\ steady' = steady \cup {p}
    /\ UNCHANGED counters

-----------------------------------------------------------------------------
(* Checkpoints *)

\* A tool is about to change the files S.
EditStart(p, S, plan) ==
    /\ Begin(p, "begin", [Idle EXCEPT !.plan = plan, !.files = S, !.must = plan[Len(plan)] = "must"])
    /\ UNCHANGED disk

\* The files that the first checkpoint of a plan goes through.
Scope(plan, S) == IF Head(plan) = "target" THEN S ELSE Files

\* create_checkpoint, create_checkpoint_for_files: a new directory.
BeginCheckpoint(p) ==
    /\ pc[p] = "begin" /\ job[p].plan # <<>> /\ lastId < MaxIds
    /\ LET i == lastId + 1
       IN  /\ lastId' = i
           /\ dir' = dir \cup {i}
           /\ base' = [base EXCEPT ![i] = work]
           /\ Goto(p, "copy", [job[p] EXCEPT !.id = i, !.todo = Scope(job[p].plan, job[p].files)])
    /\ Untouched /\ UNCHANGED <<snap, meta, rows, gaps, counters>>

\* What a checkpoint may take for the file f.  A full one passes over what
\* it cannot walk or stat.  One of chosen files also passes over binary files,
\* keeps what a failing copy has written, and finds a relative path in the
\* current directory of the process, whatever is there.
Taken(p, f) ==
    {work[f], Absent}
    \cup {c \in Contents : Head(job[p].plan) = "target" /\ (work[f] # Absent \/ p \in Elsewhere)}

CopyFile(p, f) ==
    /\ pc[p] = "copy" /\ f \in job[p].todo
    /\ \E c \in Taken(p, f) :
          /\ snap' = [snap EXCEPT ![job[p].id][f] = c]
          /\ gaps' = [gaps EXCEPT ![job[p].id] = IF c = work[f] THEN @ ELSE @ \cup {f}]
    /\ Goto(p, "copy", [job[p] EXCEPT !.todo = @ \ {f}])
    /\ Untouched /\ UNCHANGED <<dir, meta, rows, lastId, base, counters>>

\* An absolute path that does not begin with the workspace as the process
\* spells it is joined to the snapshot as it is: the file is copied onto
\* itself, which empties it.
CopyOntoItself(p, f) ==
    /\ pc[p] = "copy" /\ f \in job[p].todo
    /\ Head(job[p].plan) = "target" /\ p \in Elsewhere /\ work[f] # Absent
    /\ Put("nobody", f, Blank)
    /\ gaps' = [gaps EXCEPT ![job[p].id] = @ \cup {f}]
    /\ Goto(p, "copy", [job[p] EXCEPT !.todo = @ \ {f}])
    /\ UNCHANGED <<snap, dir, meta, rows, lastId, base, counters>>

Kind(p) == IF Head(job[p].plan) = "target" THEN "targeted" ELSE "full"

Settled(p) == pc[p] = "copy" /\ job[p].todo = {}

\* A mistake the checks of this definition must notice: WriteMetadata.
WriteMetadataEarly(p) ==
    /\ pc[p] = "copy" /\ meta[job[p].id] = "none"
    /\ meta' = [meta EXCEPT ![job[p].id] = Kind(p)]
    /\ rows' = rows \cup {job[p].id}
    /\ pc' = [pc EXCEPT ![p] = IF job[p].todo = {} THEN "record" ELSE "copy"]
    /\ Untouched /\ UNCHANGED <<snap, dir, lastId, base, gaps, job, counters>>

WriteMetadata(p) ==
    /\ Settled(p)
    /\ meta' = [meta EXCEPT ![job[p].id] = Kind(p)]
    /\ pc' = [pc EXCEPT ![p] = "record"]
    /\ Untouched /\ UNCHANGED <<snap, dir, rows, lastId, base, gaps, job, counters>>

\* insert_checkpoint; the plan goes on to its next checkpoint.
InsertRecord(p) ==
    /\ pc[p] = "record"
    /\ rows' = rows \cup {job[p].id}
    /\ Goto(p, "begin", [job[p] EXCEPT !.plan = Tail(@)])
    /\ Untouched /\ UNCHANGED <<snap, dir, meta, lastId, base, gaps, counters>>

\* What a checkpoint without a row leaves on the disk is never read again.
Dropped(i) ==
    /\ snap' = [snap EXCEPT ![i] = Empty] /\ base' = [base EXCEPT ![i] = Empty]
    /\ dir' = dir \ {i} /\ meta' = [meta EXCEPT ![i] = "none"]
    /\ gaps' = [gaps EXCEPT ![i] = {}]
    /\ UNCHANGED <<rows, lastId>>

Unrecorded(p) == job[p].id # 0 /\ pc[p] \in {"copy", "record"}

Abandon(p) == IF Unrecorded(p) THEN Dropped(job[p].id) ELSE UNCHANGED disk

Checkpointing(p) == pc[p] \in {"begin", "copy", "record"} /\ job[p].plan # <<>>

\* A mistake the checks of this definition must notice: CheckpointFails.
CheckpointFailsIgnored(p) ==
    /\ Checkpointing(p)
    /\ Abandon(p)
    /\ Goto(p, "begin", [job[p] EXCEPT !.plan = Tail(@), !.id = 0, !.todo = {}])
    /\ Untouched /\ UNCHANGED counters

\* The edit goes on without a checkpoint of the callback; when the one of the
\* tool itself fails the edit stops, see Stops.
CheckpointFails(p) ==
    /\ Checkpointing(p) /\ Head(job[p].plan) # "must"
    /\ Abandon(p)
    /\ Goto(p, "begin", [job[p] EXCEPT !.plan = Tail(@), !.id = 0, !.todo = {}])
    /\ Untouched /\ UNCHANGED counters

\* The tool changes one of its files.
WriteFile(p, f, c) ==
    /\ pc[p] = "begin" /\ job[p].plan = <<>> /\ f \in job[p].files
    /\ Put(p, f, c)
    /\ Goto(p, "begin", [job[p] EXCEPT !.files = @ \ {f}])
    /\ UNCHANGED <<disk, counters>>

EditEnds(p) ==
    /\ pc[p] = "begin" /\ job[p].plan = <<>> /\ job[p].files = {}
    /\ End(p)
    /\ UNCHANGED <<work, mixed, disk>>

\* The user, a shell command or another program changes a file.
OtherChange(f, c) ==
    /\ changes < MaxChanges /\ c # work[f]
    /\ Put("nobody", f, c)
    /\ changes' = changes + 1
    /\ UNCHANGED <<disk, pc, job, ops>>

-----------------------------------------------------------------------------
(* Rewinding *)

\* rewind_to_checkpoint: the row is loaded and fs/ is there.
RewindStart(p, i) ==
    /\ i \in rows \cap dir
    /\ Begin(p, "metadata", [Idle EXCEPT !.id = i])
    /\ UNCHANGED disk

\* Metadata that cannot be read counts as that of a full checkpoint.
ReadMetadata(p) ==
    /\ pc[p] = "metadata"
    /\ Goto(p, "list", [job[p] EXCEPT !.targeted = (meta[job[p].id] = "targeted")])
    /\ Untouched /\ UNCHANGED <<disk, counters>>

\* A mistake the checks of this definition must notice: Doomed.
DoomedListed(targeted, list) == list

\* A mistake the checks of this definition must notice: Doomed.
DoomedAlways(targeted, list) == Files

\* The files that are deleted before the saved ones are copied back.
Doomed(targeted, list) == IF targeted THEN list ELSE Files

Saved(i) == Present(snap[i]) \ Unlisted

\* The walk of fs/ passes over what it cannot read.
ListSnapshot(p) ==
    /\ pc[p] = "list"
    /\ \E list \in SUBSET Saved(job[p].id) :
          Goto(p, "delete", [job[p] EXCEPT !.list = list, !.passed = Saved(job[p].id) \ list,
                                           !.todo = Doomed(job[p].targeted, list)])
    /\ Untouched /\ UNCHANGED <<disk, counters>>

DeleteFile(p, f) ==
    /\ pc[p] = "delete" /\ f \in job[p].todo
    /\ Put(p, f, Absent)
    /\ Goto(p, "delete", [job[p] EXCEPT !.todo = @ \ {f}])
    /\ UNCHANGED <<disk, counters>>

\* The walk of the workspace, or exists(), passes over what it cannot stat.
PassOverFile(p, f) ==
    /\ pc[p] = "delete" /\ f \in job[p].todo /\ work[f] # Absent
    /\ Goto(p, "delete", [job[p] EXCEPT !.todo = @ \ {f}, !.passed = @ \cup {f}])
    /\ Untouched /\ UNCHANGED <<disk, counters>>

RestoreStart(p) ==
    /\ pc[p] = "delete" /\ job[p].todo = {}
    /\ Goto(p, "restore", [job[p] EXCEPT !.todo = job[p].list])
    /\ Untouched /\ UNCHANGED <<disk, counters>>

RestoreFile(p, f) ==
    /\ pc[p] = "restore" /\ f \in job[p].todo /\ snap[job[p].id][f] # Absent
    /\ Put(p, f, snap[job[p].id][f])
    /\ Goto(p, "restore", [job[p] EXCEPT !.todo = @ \ {f}])
    /\ UNCHANGED <<disk, counters>>

RewindEnds(p) ==
    /\ pc[p] = "restore" /\ job[p].todo = {}
    /\ End(p)
    /\ UNCHANGED <<work, mixed, disk>>

\* An error, or the end of the process, at any point.
Stops(p) ==
    /\ pc[p] # "idle"
    /\ Abandon(p)
    /\ End(p)
    /\ UNCHANGED <<work, mixed>>

-----------------------------------------------------------------------------
(* Clean-up *)

\* An edit that is still going on has made its checkpoints lately.
Old == rows \ {job[q].id : q \in {r \in Procs : pc[r] \in {"begin", "copy", "record"}}}

\* delete_old_checkpoints: the rows of the checkpoints that have expired.
CleanRows(p, S) ==
    /\ S # {} /\ S \subseteq Old
    /\ rows' = rows \ S
    /\ Begin(p, "clean", [Idle EXCEPT !.expired = S])
    /\ UNCHANGED <<snap, dir, meta, lastId, base, gaps>>

\* remove_dir_all takes metadata.json, the saved files and fs/ as it finds
\* them; what it fails to remove stays.
CleanDisk(p, i) ==
    /\ pc[p] = "clean" /\ i \in job[p].expired
    /\ \/ /\ meta[i] # "none" /\ meta' = [meta EXCEPT ![i] = "none"]
          /\ UNCHANGED <<snap, dir, job>>
       \/ \E f \in Present(snap[i]) :
            /\ snap' = [snap EXCEPT ![i][f] = Absent]
            /\ UNCHANGED <<dir, meta, job>>
       \/ /\ Present(snap[i]) = {} /\ dir' = dir \ {i}
          /\ job' = [job EXCEPT ![p].expired = @ \ {i}]
          /\ UNCHANGED <<snap, meta>>
       \/ job' = [job EXCEPT ![p].expired = @ \ {i}] /\ UNCHANGED <<snap, dir, meta>>
    /\ Untouched /\ UNCHANGED <<rows, lastId, base, gaps, pc, counters>>

CleanEnds(p) ==
    /\ pc[p] = "clean" /\ job[p].expired = {}
    /\ End(p)
    /\ UNCHANGED <<work, mixed, disk>>

Next ==
    \/ \E p \in Procs :
         \/ p \in Editors /\ \E S \in (SUBSET Files) \ {{}}, plan \in Plans : EditStart(p, S, plan)
         \/ BeginCheckpoint(p) \/ WriteMetadata(p) \/ InsertRecord(p) \/ CheckpointFails(p) \/ EditEnds(p)
         \/ \E f \in Files :
              \/ CopyFile(p, f) \/ CopyOntoItself(p, f)
              \/ DeleteFile(p, f) \/ PassOverFile(p, f) \/ RestoreFile(p, f)
         \/ \E f \in Files, c \in Contents : WriteFile(p, f, c)
         \/ \E i \in rows : RewindStart(p, i)
         \/ ReadMetadata(p) \/ ListSnapshot(p) \/ RestoreStart(p) \/ RewindEnds(p)
         \/ \E S \in SUBSET Old : CleanRows(p, S)
         \/ \E i \in job[p].expired : CleanDisk(p, i)
         \/ CleanEnds(p) \/ Stops(p)
    \/ \E f \in Files, c \in Contents \cup {Absent} : OtherChange(f, c)

Spec == Init /\ [][Next]_vars

-----------------------------------------------------------------------------
(* Properties *)

\* Every checkpoint of the store is what its making took for the workspace,
\* whatever failed or stopped while it was made, during earlier rewinds or
\* during a clean-up: its directory and metadata are there, and each file is
\* the one at its beginning, unless the workspace changed under it.  A full one
\* lacks at most files that its walk passed over; a targeted one may lack any
\* file, and hold another content only of one it took from elsewhere or copied
\* in part.  So a rewind that stopped half-way can be repeated.
RecordedAreComplete ==
    \A i \in rows :
        /\ i \in dir /\ meta[i] # "none"
        /\ i \notin mixed => \A f \in Files :
              \/ snap[i][f] = base[i][f]
              \/ f \in gaps[i] /\ snap[i][f] = Absent
              \/ meta[i] = "targeted" /\ (f \in gaps[i] \/ snap[i][f] = Absent)

\* A rewind that ends undisturbed leaves the workspace of the checkpoint, or its
\* files of a targeted one; a metadata.json at the root is gone.  Not so the
\* files that the checkpoint does not hold as they were, nor those the rewind
\* itself passed over.
RewindRestores ==
    \A p \in Procs : LET i == job[p].id IN
        pc[p] = "restore" /\ job[p].todo = {} /\ p \in steady /\ i \in rows \ mixed =>
            \A f \in Files \ (gaps[i] \cup job[p].passed) :
                work[f] = IF f \in job[p].list THEN base[i][f]
                          ELSE IF meta[i] = "targeted" THEN seen[p][f] ELSE
                          IF f \in Unlisted THEN Absent ELSE base[i][f]

\* At no moment of a rewind to a targeted checkpoint has a file outside the
\* checkpoint changed, and the others are as they were, gone or restored, as
\* long as the checkpoint is not cleaned away under the rewind.
RewindStaysInScope ==
    \A p \in Procs : LET i == job[p].id IN
        pc[p] \in {"delete", "restore"} /\ p \in steady /\ i \in rows =>
            \A f \in Files :
                \/ work[f] = seen[p][f]
                \/ /\ meta[i] = "targeted" => f \in job[p].list
                   /\ work[f] \in {Absent, snap[i][f]}

\* While a tool with a checkpoint of its own changes its files, the store has
\* a checkpoint of the workspace before the edit, unless somebody else, or the
\* copy of a file onto itself, changed the workspace meanwhile; it lacks at
\* most files that its walk passed over.
EditsUndoable ==
    \A p \in Procs : LET i == job[p].id IN
        pc[p] = "begin" /\ job[p].plan = <<>> /\ job[p].must /\ p \in steady =>
            /\ i \in rows
            /\ \A f \in Files :
                  \/ snap[i][f] = seen[p][f]
                  \/ f \in gaps[i] /\ snap[i][f] = Absent
=============================================================================
