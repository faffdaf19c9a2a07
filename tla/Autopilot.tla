------------------------------- MODULE Autopilot -------------------------------
(***************************************************************************)
(* Autopilot runs and the commands that steer them.                        *)
(*                                                                         *)
(* A run is a process that repeats one prompt.  Other processes talk to it *)
(* through a stop file and a pause file, which it looks at once a round,   *)
(* and learn of it through its row and the row of its job; the row also    *)
(* holds the name of the stop file.  The pause file's name is derived from *)
(* the stop file's.  Nothing removes a stop file; a pause file is      *)
(* removed by resume and by stop.                                          *)
(***************************************************************************)
EXTENDS Integers, FiniteSets

CONSTANTS
    MaxRuns,          \* bound: runs; they are numbered as they start
    MaxStarts,        \* bound: runs that are not started by a resume
    Users,
    StopFiles, PauseFiles,
    NoFile,           \* the empty name the first event leaves in the row
    DefaultStop,      \* autopilot.stop in the runtime directory
    PauseOf,          \* autopilot_pause_path
    Options,          \* what a run may be started with
    MaxIterations,    \* --max-iterations of a limited run
    MaxConsecutive,   \* --max-consecutive-failures
    MaxRequests,      \* bound: commands
    MaxCrashes        \* bound: runs that die

Option == [stop : StopFiles, limited : BOOLEAN, timed : BOOLEAN, keepGoing : BOOLEAN]

ASSUME AutopilotAssumption ==
    /\ NoFile \notin StopFiles /\ DefaultStop \in StopFiles
    /\ StopFiles \cap PauseFiles = {}
    /\ PauseOf \in [StopFiles \cup {NoFile} -> PauseFiles]
    /\ Options \subseteq Option /\ Options # {}
    /\ MaxIterations \in Nat \ {0} /\ MaxConsecutive \in Nat \ {0}
    /\ MaxRuns \in Nat \ {0} /\ MaxStarts \in Nat /\ MaxRequests \in Nat /\ MaxCrashes \in Nat

VARIABLES
    files,      \* the stop and pause files that exist
    row,        \* autopilot_runs: status and stop_file
    job,        \* background_jobs: status
    attached,   \* jobs that were attached to since they were written otherwise (history variable)
    pc,         \* the next step of a run
    option,     \* its arguments
    told,       \* paused_state
    count,      \* completed_iterations + failed_iterations of a limited run
    failing,    \* consecutive_failures
    late,       \* iterations begun while its stop file existed (history variable)
    user,       \* the command a user runs, and the row it has loaded
    requests, crashes

run == <<pc, option, told, count, failing, late>>
jobs == <<job, attached>>
vars == <<files, row, jobs, run, user, requests, crashes>>

Runs == 1..MaxRuns

NoRow == [status |-> "none", stop |-> NoFile]
NoCommand == [do |-> "none", run |-> 1, copy |-> NoRow]
Before == {"job", "events"}
Looping == {"head", "check", "pauseJob", "wakeJob", "work", "save"}
Ending == {"endRow", "endJob"}

Init ==
    /\ files = {}
    /\ row = [r \in Runs |-> NoRow] 
    /\ job = [r \in Runs |-> "none"] /\ attached = {}
    /\ pc = [r \in Runs |-> "none"] /\ option = [r \in Runs |-> CHOOSE o \in Options : TRUE]
    /\ told = [r \in Runs |-> FALSE]
    /\ count = [r \in Runs |-> 0] /\ failing = [r \in Runs |-> 0] /\ late = [r \in Runs |-> 0]
    /\ user = [q \in Users |-> NoCommand] /\ requests = 0 /\ crashes = 0

At(r, l) == pc[r] = l
Goto(r, l) == pc' = [pc EXCEPT ![r] = l]
StopFile(r) == option[r].stop
PauseFile(r) == PauseOf[StopFile(r)]
Recorded(r, status) == row' = [row EXCEPT ![r] = [status |-> status, stop |-> StopFile(r)]]
JobIs(r, status) == job' = [job EXCEPT ![r] = status] /\ attached' = attached \ {r}
Unsteered == UNCHANGED <<user, requests, crashes>>

-----------------------------------------------------------------------------
(* run_autopilot *)

\* The arguments are those of the command line, or those resume chooses.
Begin(r, o) ==
    /\ At(r, "none") /\ (\A b \in 1..(r - 1) : ~At(b, "none")) /\ Goto(r, "job")
    /\ option' = [option EXCEPT ![r] = o]
    /\ row' = [row EXCEPT ![r] = [status |-> "running", stop |-> o.stop]]
    /\ UNCHANGED <<files, jobs, told, count, failing, late>>

Start(r) == r <= MaxStarts /\ (\E o \in Options : Begin(r, o)) /\ Unsteered

InsertJob(r) ==
    /\ At(r, "job") /\ Goto(r, "events") /\ JobIs(r, "running")
    /\ UNCHANGED <<files, row, option, told, count, failing, late>> /\ Unsteered

\* The projection of AutopilotRunStarted writes the row again, without its files;
\* that of BackgroundJobStarted says what the job's row says already.
StartEvents(r) ==
    /\ At(r, "events") /\ Goto(r, "head") /\ JobIs(r, "running")
    /\ row' = [row EXCEPT ![r] = [status |-> "running", stop |-> NoFile]]
    /\ UNCHANGED <<files, option, told, count, failing, late>> /\ Unsteered

\* The head of the loop: the limit, the deadline, and the stop file.
Over(r) ==
    \/ option[r].limited /\ count[r] >= MaxIterations
    \/ option[r].timed
    \/ StopFile(r) \in files

MustEnd(r) ==
    \/ option[r].limited /\ count[r] >= MaxIterations
    \/ StopFile(r) \in files

\* A mistake the checks of this definition must notice: LoopHead.
LoopHeadPauseFirst(r) ==
    /\ At(r, "head")
    /\ \/ Over(r) /\ PauseFile(r) \notin files /\ Goto(r, "endRow")
       \/ (~MustEnd(r) \/ PauseFile(r) \in files) /\ Goto(r, "check")
    /\ UNCHANGED <<files, row, jobs, option, told, count, failing, late>> /\ Unsteered

LoopHead(r) ==
    /\ At(r, "head")
    /\ \/ Over(r) /\ Goto(r, "endRow")
       \/ ~MustEnd(r) /\ Goto(r, "check")
    /\ UNCHANGED <<files, row, jobs, option, told, count, failing, late>> /\ Unsteered

Work(r) ==
    /\ Goto(r, "work")
    /\ late' = [late EXCEPT ![r] = IF StopFile(r) \in files /\ @ < 2 THEN @ + 1 ELSE @]

Pause(r) ==
    /\ At(r, "check") /\ PauseFile(r) \in files
    /\ IF told[r]
       THEN Goto(r, "head") /\ UNCHANGED <<row, told>>
       ELSE Goto(r, "pauseJob") /\ Recorded(r, "paused") /\ told' = [told EXCEPT ![r] = TRUE]
    /\ UNCHANGED <<files, jobs, option, count, failing, late>> /\ Unsteered

PauseJob(r) ==
    /\ At(r, "pauseJob") /\ Goto(r, "head") /\ JobIs(r, "paused")
    /\ UNCHANGED <<files, row, option, told, count, failing, late>> /\ Unsteered

GoOn(r) ==
    /\ At(r, "check") /\ PauseFile(r) \notin files
    /\ IF told[r]
       THEN /\ Goto(r, "wakeJob") /\ Recorded(r, "running")
            /\ told' = [told EXCEPT ![r] = FALSE] /\ UNCHANGED late
       ELSE Work(r) /\ UNCHANGED <<row, told>>
    /\ UNCHANGED <<files, jobs, option, count, failing>> /\ Unsteered

\* A mistake the checks of this definition must notice: WakeJob.
WakeJobForgotten(r) ==
    /\ At(r, "wakeJob") /\ Work(r)
    /\ UNCHANGED <<files, row, jobs, option, told, count, failing>> /\ Unsteered

WakeJob(r) ==
    /\ At(r, "wakeJob") /\ Work(r) /\ JobIs(r, "running")
    /\ UNCHANGED <<files, row, option, told, count, failing>> /\ Unsteered

Counted(r) == count' = [count EXCEPT ![r] = IF option[r].limited THEN @ + 1 ELSE @]

Succeed(r) ==
    /\ At(r, "work") /\ Goto(r, "save") /\ Counted(r)
    /\ failing' = [failing EXCEPT ![r] = 0]
    /\ UNCHANGED <<files, row, jobs, option, told, late>> /\ Unsteered

Fail(r) ==
    /\ At(r, "work") /\ Counted(r)
    /\ failing' = [failing EXCEPT ![r] = @ + 1]
    /\ Goto(r, IF option[r].keepGoing /\ failing'[r] < MaxConsecutive THEN "save" ELSE "endRow")
    /\ UNCHANGED <<files, row, jobs, option, told, late>> /\ Unsteered

\* A mistake the checks of this definition must notice: Save.
SaveThenWork(r) ==
    /\ At(r, "save") /\ Recorded(r, "running")
    /\ IF failing[r] > 0 THEN Work(r) ELSE Goto(r, "head") /\ UNCHANGED late
    /\ UNCHANGED <<files, jobs, option, told, count, failing>> /\ Unsteered

Save(r) ==
    /\ At(r, "save") /\ Recorded(r, "running") /\ Goto(r, "head")
    /\ UNCHANGED <<files, jobs, option, told, count, failing, late>> /\ Unsteered

EndRow(r) ==
    /\ At(r, "endRow") /\ Goto(r, "endJob") /\ Recorded(r, "stopped")
    /\ UNCHANGED <<files, jobs, option, told, count, failing, late>> /\ Unsteered

\* The job's row, and AutopilotRunStopped and BackgroundJobStopped, which say the same.
EndJob(r) ==
    /\ At(r, "endJob") /\ Goto(r, "over") /\ JobIs(r, "stopped")
    /\ row' = [row EXCEPT ![r].status = "stopped"]
    /\ UNCHANGED <<files, option, told, count, failing, late>> /\ Unsteered

RunStep(r) ==
    \/ InsertJob(r) \/ StartEvents(r)
    \/ LoopHead(r) \/ Pause(r) \/ PauseJob(r) \/ GoOn(r) \/ WakeJob(r)
    \/ Succeed(r) \/ Fail(r) \/ Save(r)
    \/ EndRow(r) \/ EndJob(r)

\* The process dies, or a write fails and its error leaves run_autopilot.
Die(r) ==
    /\ pc[r] \in Before \cup Looping \cup Ending /\ Goto(r, "dead")
    /\ crashes < MaxCrashes /\ crashes' = crashes + 1
    /\ UNCHANGED <<files, row, jobs, option, told, count, failing, late, user, requests>>

-----------------------------------------------------------------------------
(* autopilot stop, pause and resume, and background stop and attach *)

Command(q, r) ==
    /\ user[q].do = "none" /\ row[r].status # "none"
    /\ requests < MaxRequests /\ requests' = requests + 1
    /\ \E do \in {"stop", "pause", "resume"} \cup (IF job[r] = "none" THEN {} ELSE {"stopJob", "attach"}) :
           user' = [user EXCEPT ![q] = [do |-> do, run |-> r, copy |-> row[r]]]
    /\ UNCHANGED <<files, row, jobs, run, crashes>>

Doing(q, do) == user[q].do = do
Then(q, do) == user' = [user EXCEPT ![q].do = do]
Done(q) == user' = [user EXCEPT ![q] = NoCommand]
Steered == UNCHANGED <<requests, crashes>>

StopTarget(q) == IF user[q].copy.stop = NoFile THEN DefaultStop ELSE user[q].copy.stop
CopiedPause(q) == PauseOf[user[q].copy.stop]

WriteStopFile(q) ==
    /\ \/ Doing(q, "stop") /\ Then(q, "unpause")
       \/ Doing(q, "stopJob") /\ Then(q, "jobStopped")
    /\ files' = files \cup {StopTarget(q)}
    /\ UNCHANGED <<row, jobs, run>> /\ Steered

RemovePauseFile(q) ==
    /\ Doing(q, "unpause") /\ Done(q)
    /\ files' = files \ {PauseOf[StopTarget(q)]}
    /\ UNCHANGED <<row, jobs, run>> /\ Steered

StopJob(q) ==
    /\ Doing(q, "jobStopped") /\ Done(q) /\ JobIs(user[q].run, "stopped")
    /\ UNCHANGED <<files, row, run>> /\ Steered

\* background attach takes any job, and its event sets the row to running.
AttachJob(q) ==
    /\ Doing(q, "attach") /\ Done(q)
    /\ job' = [job EXCEPT ![user[q].run] = "running"] /\ attached' = attached \cup {user[q].run}
    /\ UNCHANGED <<files, row, run>> /\ Steered

WritePauseFile(q) ==
    /\ Doing(q, "pause") /\ Done(q)
    /\ files' = files \cup {CopiedPause(q)}
    /\ UNCHANGED <<row, jobs, run>> /\ Steered

\* A pause file that exists is removed; that wakes a run that is said to run or
\* to be paused.
Wake(q) ==
    /\ Doing(q, "resume") /\ CopiedPause(q) \in files
    /\ files' = files \ {CopiedPause(q)}
    /\ IF user[q].copy.status \in {"running", "paused"} THEN Done(q) ELSE Then(q, "start")
    /\ UNCHANGED <<row, jobs, run>> /\ Steered

\* A mistake the checks of this definition must notice: Refuse.
RefuseUnchecked(q) ==
    /\ Doing(q, "resume") /\ CopiedPause(q) \notin files
    /\ Then(q, "start")
    /\ UNCHANGED <<files, row, jobs, run>> /\ Steered

\* Without a pause file, a run that is said to run is not resumed.
Refuse(q) ==
    /\ Doing(q, "resume") /\ CopiedPause(q) \notin files
    /\ IF user[q].copy.status = "running" THEN Done(q) ELSE Then(q, "start")
    /\ UNCHANGED <<files, row, jobs, run>> /\ Steered

ResumedOption(q) == [stop |-> StopTarget(q), limited |-> FALSE, timed |-> TRUE, keepGoing |-> TRUE]

Resume(q) ==
    /\ Doing(q, "start") /\ Done(q) /\ Steered
    /\ \E r \in Runs : Begin(r, ResumedOption(q))

UserStep(q) ==
    \/ WriteStopFile(q) \/ RemovePauseFile(q) \/ StopJob(q) \/ AttachJob(q)
    \/ WritePauseFile(q) \/ Wake(q) \/ Refuse(q) \/ Resume(q)

Next ==
    \/ \E r \in Runs : Start(r) \/ RunStep(r) \/ Die(r)
    \/ \E q \in Users : UserStep(q) \/ \E r \in Runs : Command(q, r)

Spec == Init /\ [][Next]_vars

\* A run and a command are processes that go on by themselves.
FairSpec ==
    /\ Spec
    /\ \A r \in Runs : WF_vars(RunStep(r))
    /\ \A q \in Users : WF_vars(UserStep(q))

-----------------------------------------------------------------------------
(* Properties *)

Statuses == {"none", "running", "paused", "stopped"}
Row == [status : Statuses, stop : StopFiles \cup {NoFile}]
Commands == {"none", "stop", "unpause", "stopJob", "jobStopped", "attach", "pause", "resume", "start"}

\* Types, and a run has a row from its first step on.
TypeOK ==
    /\ files \subseteq StopFiles \cup PauseFiles
    /\ row \in [Runs -> Row] /\ job \in [Runs -> Statuses] /\ attached \subseteq Runs
    /\ pc \in [Runs -> Before \cup Looping \cup Ending \cup {"none", "over", "dead"}]
    /\ option \in [Runs -> Option] /\ told \in [Runs -> BOOLEAN]
    /\ count \in [Runs -> Nat] /\ failing \in [Runs -> Nat] /\ late \in [Runs -> 0..2]
    /\ user \in [Users -> [do : Commands, run : Runs, copy : Row]]
    /\ requests \in Nat /\ crashes \in Nat
    /\ \A r \in Runs : row[r].status = "none" <=> pc[r] = "none"

Live(r) == pc[r] \in Before \cup Looping

\* After its stop file appears, a run begins at most one iteration: the one it
\* was about to begin when it last looked (the loop of run_autopilot).
StopStops == \A r \in Runs : late[r] <= 1

\* What the row of a job says: one of S, or running since a user attached to it.
JobSays(r, S) == IF r \in attached THEN job[r] = "running" ELSE job[r] \in S

\* The rows follow the run.  When it looks at the stop file its row says whether
\* it is paused, a paused run's row names its stop file, and after the run its
\* row says stopped.  Its job says so too, unless a user has stopped the job, or
\* has attached to it since: background attach sets any job to running.
RowsFollowRun ==
    \A r \in Runs :
        /\ At(r, "head") =>
              LET status == IF told[r] THEN "paused" ELSE "running" IN
              row[r].status = status /\ JobSays(r, {status, "stopped"})
        /\ pc[r] \in {"work", "save"} => row[r].status = "running" /\ JobSays(r, {"running", "stopped"})
        /\ told[r] \/ At(r, "over") => row[r].stop = StopFile(r)
        /\ At(r, "over") => row[r].status = "stopped" /\ JobSays(r, {"stopped"})

\* A user whose resume starts a run beside the live one it names has found that
\* run paused, and its pause file gone: another command had just asked it to wake.
TwinsOnlyWhileWaking ==
    \A q \in Users :
        Doing(q, "start") /\ Live(user[q].run) => user[q].copy.status = "paused"

\* A run whose own stop file is written ends, paused or not, with or without a
\* limit: a stop that named the right file is never lost (run_autopilot,
\* run_autopilot_stop, background stop).
StopEnds ==
    \A r \in Runs : (Live(r) /\ StopFile(r) \in files) ~> pc[r] \in {"over", "dead"}
=============================================================================
