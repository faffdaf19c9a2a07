----------------------------- MODULE SubagentRuns -----------------------------
(***************************************************************************)
(* One delegated run: the rows of the run, its task and its background     *)
(* job, and the processes that write them without a transaction.           *)
(*                                                                         *)
(* The parent (spawn_task) runs the child in a thread, for at most a       *)
(* minute, or starts a process of its own for it and then registers its    *)
(* job.  A background child records its result itself.  Users stop the     *)
(* task or only the job, attach to the job, or update or cancel the task.  *)
(* Every write may fail and every process may end between two of them.     *)
(***************************************************************************)
EXTENDS Integers

CONSTANTS
    Stoppers,      \* processes that stop the task or the job, or update the task
    MaxOps,        \* bound: what the users do with the run
    MaxFailures    \* bound: failed writes and kills, and ends of processes

ASSUME SubagentRunsAssumption ==
    /\ "parent" \notin Stoppers /\ "child" \notin Stoppers
    /\ MaxOps \in Nat /\ MaxFailures \in Nat

VARIABLES
    runRow,    \* subagent_runs: status, and which of output and error are set
    taskRow,   \* task_queue: status, and whose text outcome is
    jobRow,    \* background_jobs: status, and whether the metadata has the pid
    at,        \* the next step of every process
    copies,    \* the records a process has loaded
    ending,    \* how the child has ended, as the parent and as the child record it
    past,      \* what has happened (history variable)
    overlap,   \* two processes were in the middle of their writes (history variable)
    ops,       \* counts what the users do
    failures   \* counts failures

runVars == <<runRow, taskRow, jobRow, at, copies, ending, past, overlap, ops, failures>>

Procs == {"parent", "child"} \cup Stoppers

NoRun == [status |-> "none", output |-> FALSE, error |-> FALSE]
NoTask == [status |-> "none", outcome |-> "none"]
NoJob == [status |-> "none", pid |-> FALSE]
NoCopy == [run |-> NoRun, job |-> NoJob]

RunInit ==
    /\ runRow = NoRun /\ taskRow = NoTask /\ jobRow = NoJob
    /\ at = [p \in Procs |-> CASE p = "parent" -> "task" [] p = "child" -> "none" [] OTHER -> "idle"]
    /\ copies = [p \in Procs |-> NoCopy]
    /\ ending = [p \in {"parent", "child"} |-> "open"]
    /\ past = {} /\ overlap = FALSE /\ ops = 0 /\ failures = 0

IsAt(p, l) == at[p] = l
GoesTo(p, l) == at' = [at EXCEPT ![p] = l]
Forget(p) == copies' = [copies EXCEPT ![p] = NoCopy]

Ends(p, e) == ending' = [ending EXCEPT ![p] = e]

Act == ops < MaxOps /\ ops' = ops + 1
MayFail == failures < MaxFailures /\ failures' = failures + 1

Result(status) == [status |-> status, output |-> status = "completed", error |-> status = "failed"]
Running == [status |-> "running", output |-> FALSE, error |-> FALSE]
Answer(status) == [status |-> status, outcome |-> IF status = "completed" THEN "answer" ELSE "error"]

-----------------------------------------------------------------------------
(* spawn_task *)

InsertTask ==
    /\ IsAt("parent", "task") /\ GoesTo("parent", "run")
    /\ taskRow' = [status |-> "in_progress", outcome |-> "none"]
    /\ UNCHANGED <<runRow, jobRow, copies, ending, past, ops, failures>>

\* The row of the run, the events of the spawn and the choice of the worker;
\* a context without a worker fails the run.
InsertRun ==
    /\ IsAt("parent", "run")
    /\ runRow' = Running
    /\ \/ GoesTo("parent", "start") /\ UNCHANGED <<ending, past>>
       \/ at' = [at EXCEPT !["parent"] = "wait", !["child"] = "thread"] /\ UNCHANGED <<ending, past>>
       \/ GoesTo("parent", "settle task") /\ Ends("parent", "failed") /\ UNCHANGED past
    /\ UNCHANGED <<taskRow, jobRow, copies, ops, failures>>

\* The worker's thread ends; recv_timeout returns what it has sent.
ThreadEnds ==
    /\ IsAt("child", "thread")
    /\ IF IsAt("parent", "wait")
       THEN /\ \E e \in {"completed", "failed"} : Ends("parent", e)
            /\ at' = [at EXCEPT !["child"] = "done", !["parent"] = "settle task"]
       ELSE GoesTo("child", "done") /\ UNCHANGED ending
    /\ UNCHANGED <<runRow, taskRow, jobRow, copies, past, ops, failures>>

\* After 60 seconds: the task and the run stay open and the thread goes on,
\* with nobody to take its result; the writes are best effort.
Promote ==
    /\ IsAt("parent", "wait") /\ IsAt("child", "thread")
    /\ GoesTo("parent", "promoted") /\ past' = past \cup {"promoted"}
    /\ \/ taskRow' = [status |-> "running", outcome |-> "none"] /\ UNCHANGED failures
       \/ MayFail /\ UNCHANGED taskRow
    /\ UNCHANGED <<runRow, jobRow, copies, ending, ops>>

Promoted ==
    /\ IsAt("parent", "promoted") /\ GoesTo("parent", "done")
    /\ \/ runRow' = Running /\ UNCHANGED failures
       \/ MayFail /\ UNCHANGED runRow
    /\ UNCHANGED <<taskRow, jobRow, copies, ending, past, ops>>

\* The process of a background child starts before its job has a row.
StartChild ==
    /\ IsAt("parent", "start")
    /\ at' = [at EXCEPT !["parent"] = "job", !["child"] = "working"]
    /\ UNCHANGED <<runRow, taskRow, jobRow, copies, ending, past, ops, failures>>

NewJob == [status |-> "running", pid |-> TRUE]

InsertChildJob ==
    /\ IsAt("parent", "job") /\ GoesTo("parent", "started")
    /\ jobRow' = NewJob
    /\ UNCHANGED <<runRow, taskRow, copies, ending, past, ops, failures>>

\* BackgroundJobStarted: its projection replaces the row.
JobStarted ==
    /\ IsAt("parent", "started") /\ GoesTo("parent", "job again")
    /\ jobRow' = [status |-> "running", pid |-> FALSE]
    /\ UNCHANGED <<runRow, taskRow, copies, ending, past, ops, failures>>

InsertJobAgain ==
    /\ IsAt("parent", "job again") /\ GoesTo("parent", "load")
    /\ jobRow' = NewJob
    /\ UNCHANGED <<runRow, taskRow, copies, ending, past, ops, failures>>

\* The worker loads the run to link the job, and writes it back as running.
ParentLoads ==
    /\ IsAt("parent", "load") /\ GoesTo("parent", "link")
    /\ copies' = [copies EXCEPT !["parent"].run = runRow]
    /\ UNCHANGED <<runRow, taskRow, jobRow, ending, past, ops, failures>>

ParentLinks ==
    /\ IsAt("parent", "link") /\ GoesTo("parent", "running")
    /\ runRow' = [copies["parent"].run EXCEPT !.status = "running"]
    /\ Forget("parent")
    /\ UNCHANGED <<taskRow, jobRow, ending, past, ops, failures>>

\* spawn_task writes the run once more, without an output, and returns.
ParentReturns ==
    /\ IsAt("parent", "running") /\ GoesTo("parent", "done")
    /\ runRow' = Running
    /\ UNCHANGED <<taskRow, jobRow, copies, ending, past, ops, failures>>

\* A write of the parent fails: starting and registering the child end as a
\* failure of the worker, the others end the handler.  It may also end itself,
\* and a thread with it.
ParentFails ==
    /\ at["parent"] \notin {"wait", "promoted", "done"} /\ MayFail
    /\ IF at["parent"] \in {"start", "job", "started", "job again", "load", "link"}
       THEN GoesTo("parent", "settle task") /\ Ends("parent", "failed")
       ELSE GoesTo("parent", "done") /\ UNCHANGED ending
    /\ UNCHANGED <<runRow, taskRow, jobRow, copies, past, ops>>

ParentEnds ==
    /\ ~ IsAt("parent", "done") /\ MayFail
    /\ at' = [at EXCEPT !["parent"] = "done", !["child"] = IF @ = "thread" THEN "done" ELSE @]
    /\ Forget("parent")
    /\ UNCHANGED <<runRow, taskRow, jobRow, ending, past, ops>>

-----------------------------------------------------------------------------
(* How a run ends: spawn_task and finalize_background_subagent_run *)

\* Something ends while spawn_task is still registering the child.
Early == IF IsAt("parent", "done") THEN {} ELSE {"early"}

\* A background child has an answer or an error.
ChildFinishes ==
    /\ IsAt("child", "working") /\ GoesTo("child", "load")
    /\ \E e \in {"completed", "failed"} : Ends("child", e)
    /\ UNCHANGED <<runRow, taskRow, jobRow, copies, past, ops, failures>>

ChildLoads ==
    /\ IsAt("child", "load") /\ GoesTo("child", "settle task")
    /\ copies' = [copies EXCEPT !["child"].job = jobRow]
    /\ past' = past \cup Early
    /\ UNCHANGED <<runRow, taskRow, jobRow, ending, ops, failures>>

\* A mistake the checks of this definition must notice: SettleTask.
SettleTaskWithoutOutcome(p) ==
    /\ IsAt(p, "settle task") /\ GoesTo(p, "settle run")
    /\ taskRow' = [taskRow EXCEPT !.status = ending[p]]
    /\ past' = past \cup (IF ending[p] = "completed" THEN {"answered"} ELSE {})
    /\ UNCHANGED <<runRow, jobRow, copies, ending, ops, failures>>

SettleTask(p) ==
    /\ IsAt(p, "settle task") /\ GoesTo(p, "settle run")
    /\ taskRow' = Answer(ending[p])
    /\ past' = past \cup (IF ending[p] = "completed" THEN {"answered"} ELSE {})
    /\ UNCHANGED <<runRow, jobRow, copies, ending, ops, failures>>

SettleRun(p) ==
    /\ IsAt(p, "settle run")
    /\ runRow' = Result(ending[p])
    /\ GoesTo(p, IF copies[p].job = NoJob THEN "settle task event" ELSE "settle job")
    /\ UNCHANGED <<taskRow, jobRow, copies, ending, past, ops, failures>>

\* The child writes the job it has loaded, then BackgroundJobStopped, whose
\* projection replaces status and metadata.
SettleJob(p) ==
    /\ IsAt(p, "settle job") /\ GoesTo(p, "settle job event")
    /\ jobRow' = [copies[p].job EXCEPT !.status = ending[p]]
    /\ Forget(p)
    /\ UNCHANGED <<runRow, taskRow, ending, past, ops, failures>>

JobStopped == [status |-> "stopped", pid |-> FALSE]

SettleJobEvent(p) ==
    /\ IsAt(p, "settle job event") /\ GoesTo(p, "settle task event")
    /\ jobRow' = JobStopped
    /\ UNCHANGED <<runRow, taskRow, copies, ending, past, ops, failures>>

SettleTaskEvent(p) ==
    /\ IsAt(p, "settle task event") /\ GoesTo(p, "settle run event")
    /\ taskRow' = [taskRow EXCEPT !.status = ending[p]]
    /\ UNCHANGED <<runRow, jobRow, copies, ending, past, ops, failures>>

\* SubagentCompleted, SubagentFailed.
SettleRunEvent(p) ==
    /\ IsAt(p, "settle run event") /\ GoesTo(p, "done")
    /\ runRow' = Result(ending[p])
    /\ UNCHANGED <<taskRow, jobRow, copies, ending, past, ops, failures>>

\* The child ends without recording, or without recording everything.
ChildEnds ==
    /\ at["child"] \notin {"none", "thread", "done"} /\ MayFail
    /\ GoesTo("child", "done")
    /\ Forget("child")
    /\ UNCHANGED <<runRow, taskRow, jobRow, ending, past, ops>>

-----------------------------------------------------------------------------
(* task_stop, background stop and attach, task_update, tasks cancel *)

\* The run first; there must be a job.
StopLoads(q) ==
    /\ Act
    /\ IsAt(q, "idle") /\ runRow # NoRun /\ GoesTo(q, "load job")
    /\ copies' = [copies EXCEPT ![q].run = runRow]
    /\ UNCHANGED <<runRow, taskRow, jobRow, ending, past, failures>>

StopLoadsJob(q) ==
    /\ IsAt(q, "load job")
    /\ IF jobRow = NoJob
       THEN GoesTo(q, "idle") /\ Forget(q)
       ELSE GoesTo(q, "kill") /\ copies' = [copies EXCEPT ![q].job = jobRow]
    /\ UNCHANGED <<runRow, taskRow, jobRow, ending, past, ops, failures>>

\* background stop knows the job only.
JobStopLoads(q) ==
    /\ Act
    /\ IsAt(q, "idle") /\ jobRow # NoJob /\ GoesTo(q, "kill only job")
    /\ copies' = [copies EXCEPT ![q].job = jobRow]
    /\ UNCHANGED <<runRow, taskRow, jobRow, ending, past, failures>>

\* A mistake the checks of this definition must notice: Terminated.
TerminatedNever(q, next) == GoesTo(q, next)

\* kill -TERM, with the pid of the loaded metadata.
Terminated(q, next) ==
    at' = [at EXCEPT ![q] = next,
                     !["child"] = IF copies[q].job.pid /\ @ \notin {"none", "thread"} THEN "done" ELSE @]

Kill(q, from, next) ==
    /\ IsAt(q, from)
    /\ \/ Terminated(q, next) /\ UNCHANGED failures
       \/ MayFail /\ GoesTo(q, next)
    /\ past' = past \cup {from} \cup Early
    /\ UNCHANGED <<runRow, taskRow, jobRow, copies, ending, ops>>

StopChildJob(q) ==
    /\ IsAt(q, "stop job") /\ GoesTo(q, "stop task")
    /\ jobRow' = [copies[q].job EXCEPT !.status = "stopped"]
    /\ UNCHANGED <<runRow, taskRow, copies, ending, past, ops, failures>>

StopTask(q) ==
    /\ IsAt(q, "stop task") /\ GoesTo(q, "stop run")
    /\ taskRow' = [status |-> "cancelled", outcome |-> "stop"]
    /\ UNCHANGED <<runRow, jobRow, copies, ending, past, ops, failures>>

\* A mistake the checks of this definition must notice: StopRun.
StopRunForgotten(q) ==
    /\ IsAt(q, "stop run") /\ GoesTo(q, "stop job event")
    /\ Forget(q)
    /\ UNCHANGED <<runRow, taskRow, jobRow, ending, past, ops, failures>>

\* The run as it was loaded, with its output.
StopRun(q) ==
    /\ IsAt(q, "stop run") /\ GoesTo(q, "stop job event")
    /\ runRow' = [copies[q].run EXCEPT !.status = "stopped", !.error = TRUE]
    /\ Forget(q)
    /\ UNCHANGED <<taskRow, jobRow, ending, past, ops, failures>>

StopJobEvent(q) ==
    /\ IsAt(q, "stop job event") /\ GoesTo(q, "stop task event")
    /\ jobRow' = JobStopped
    /\ UNCHANGED <<runRow, taskRow, copies, ending, past, ops, failures>>

StopTaskEvent(q) ==
    /\ IsAt(q, "stop task event") /\ GoesTo(q, "idle")
    /\ taskRow' = [taskRow EXCEPT !.status = "cancelled"]
    /\ UNCHANGED <<runRow, jobRow, copies, ending, past, ops, failures>>

\* background stop replaces the metadata, then the event does.
StopOnlyJob(q) ==
    /\ \/ IsAt(q, "stop only job") /\ GoesTo(q, "stop only job event")
       \/ IsAt(q, "stop only job event") /\ GoesTo(q, "idle")
    /\ jobRow' = JobStopped
    /\ Forget(q)
    /\ UNCHANGED <<runRow, taskRow, ending, past, ops, failures>>

\* A write fails, or the process ends.
StopperEnds(q) ==
    /\ ~ IsAt(q, "idle") /\ MayFail
    /\ GoesTo(q, "idle")
    /\ Forget(q)
    /\ UNCHANGED <<runRow, taskRow, jobRow, ending, past, ops>>

\* BackgroundJobResumed, whatever the job is doing.
Attach ==
    /\ Act
    /\ jobRow # NoJob
    /\ jobRow' = [jobRow EXCEPT !.status = "running"]
    /\ past' = past \cup {"attached"}
    /\ UNCHANGED <<runRow, taskRow, at, copies, ending, failures>>

\* task_update: status and outcome of the task alone; without an outcome the old
\* one is gone.  TaskUpdated follows, but not over JSON-RPC or without listeners.
UpdateTask(q) ==
    /\ Act
    /\ IsAt(q, "idle") /\ taskRow # NoTask
    /\ GoesTo(q, "update event") \/ UNCHANGED at
    /\ \E outcome \in {"none", "note"} : taskRow' = [status |-> "updated", outcome |-> outcome]
    /\ past' = past \cup {"updated"}
    /\ UNCHANGED <<runRow, jobRow, copies, ending, failures>>

UpdateTaskEvent(q) ==
    /\ IsAt(q, "update event") /\ GoesTo(q, "idle")
    /\ taskRow' = [taskRow EXCEPT !.status = "updated"]
    /\ past' = past \cup {"updated"}
    /\ UNCHANGED <<runRow, jobRow, copies, ending, ops, failures>>

\* tasks cancel: the task alone.
CancelTask ==
    /\ Act
    /\ taskRow # NoTask
    /\ taskRow' = [status |-> "cancelled", outcome |-> "stop"]
    /\ past' = past \cup {"cancelled"}
    /\ UNCHANGED <<runRow, jobRow, at, copies, ending, failures>>

-----------------------------------------------------------------------------
\* The processes in the middle of their writes.
Writing == {p \in Procs : at[p] \notin {"idle", "none", "working", "thread", "wait", "done"}}

Step ==
    \/ InsertTask \/ InsertRun \/ ThreadEnds \/ Promote \/ Promoted
    \/ StartChild \/ InsertChildJob \/ JobStarted \/ InsertJobAgain
    \/ ParentLoads \/ ParentLinks \/ ParentReturns \/ ParentFails \/ ParentEnds
    \/ ChildFinishes \/ ChildLoads \/ ChildEnds
    \/ \E p \in {"parent", "child"} :
         \/ SettleTask(p) \/ SettleRun(p) \/ SettleJob(p) \/ SettleJobEvent(p)
         \/ SettleTaskEvent(p) \/ SettleRunEvent(p)
    \/ \E q \in Stoppers :
         \/ StopLoads(q) \/ StopLoadsJob(q) \/ JobStopLoads(q)
         \/ Kill(q, "kill", "stop job") \/ Kill(q, "kill only job", "stop only job")
         \/ StopChildJob(q) \/ StopTask(q) \/ StopRun(q) \/ StopJobEvent(q) \/ StopTaskEvent(q)
         \/ StopOnlyJob(q) \/ StopperEnds(q) \/ UpdateTask(q) \/ UpdateTaskEvent(q)
    \/ Attach \/ CancelTask

RunNext == Step /\ overlap' = (overlap \/ \E p, o \in Writing' : p # o)

RunSpec == RunInit /\ [][RunNext]_runVars

-----------------------------------------------------------------------------
(* Properties *)

AtRest == Writing = {} /\ at["child"] \notin {"working", "thread"}

\* When every process has finished and nothing has failed, the run and its job
\* are open only for one of the known reasons: the child was promoted, or its
\* job alone was stopped, or the child ended or was stopped before spawn_task
\* wrote "running" for the last time, or somebody attached to the finished job.
RunsSettle ==
    AtRest /\ failures = 0 =>
        /\ runRow.status = "running" => past \cap {"promoted", "kill only job", "early"} # {}
        /\ jobRow.status = "running" => past \cap {"attached", "early"} # {}

\* When every process has finished, nothing has failed and no two processes
\* were writing at the same time, the task says what the run says, unless a user
\* has written the task alone.
RecordsAgree ==
    AtRest /\ failures = 0 /\ ~overlap /\ past \cap {"cancelled", "updated"} = {} /\ runRow # NoRun =>
        CASE runRow.status = "running" -> taskRow.status \in {"in_progress", "running"}
          [] runRow.status = "stopped" -> taskRow.status = "cancelled"
          [] OTHER                  -> taskRow.status = runRow.status

\* task_output: the output of the run, or else its error, or else, if it was asked
\* for by the id of the task, the outcome of the task.
TaskOutput(byTask) ==
    CASE runRow.output -> "answer"
      [] ~runRow.output /\ runRow.error -> "error"
      [] ~runRow.output /\ ~runRow.error -> IF byTask THEN taskRow.outcome ELSE "none"

\* An answer that was recorded can be read with task_output until somebody stops,
\* cancels or updates the task: by the id of the task always, even when spawn_task
\* writes the run after the child; by the id of the run once the writers are done,
\* unless spawn_task did so or the job alone was stopped.
AnswersStay ==
    "answered" \in past /\ failures = 0 /\ past \cap {"kill", "cancelled", "updated"} = {} =>
        /\ TaskOutput(TRUE) = "answer"
        /\ AtRest /\ past \cap {"early", "kill only job"} = {} => TaskOutput(FALSE) = "answer"

\* A run that was stopped stays stopped, unless processes were writing at the
\* same time or the kill failed.
StoppedStays ==
    [][runRow.status = "stopped" /\ failures = 0 /\ ~overlap => runRow'.status = "stopped"]_runVars
=============================================================================
