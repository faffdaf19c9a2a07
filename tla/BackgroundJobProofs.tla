------------------------- MODULE BackgroundJobProofs -------------------------
(***************************************************************************)
(* What runs in the background, for any number of processes: Autopilot,    *)
(* and delegated runs (SubagentRuns).                                      *)
(*                                                                         *)
(* Autopilot.  Nothing removes a stop file, so a run that has begun an     *)
(* iteration after its stop file appeared finds the file when it looks     *)
(* again.  A row says "stopped" only of a run that has left its loop, and  *)
(* a run that has left its loop never enters it again; so what a command   *)
(* has read of such a row stays true while the command goes on.            *)
(*                                                                         *)
(* Delegated runs.  Three rows are written by parent, child and stoppers   *)
(* without a transaction.  While nothing fails, parent and child hand the  *)
(* run over: only one of them records the ending, and a stop that was not  *)
(* early finds the parent returned.  While moreover only one process       *)
(* writes at a time, the kill of a stop finds a pid, so the stop is the    *)
(* last to write, and run and task agree except between two writes.        *)
(***************************************************************************)
EXTENDS Autopilot, SubagentRuns, TLAPS

-----------------------------------------------------------------------------
(* Autopilot: the inductive invariant *)

Quiet == {"none", "job", "events", "check", "pauseJob", "wakeJob"}
Left == {"endJob", "over", "dead"}

\* An iteration begun late was begun once, and by a run whose stop file is there.
LateOnce(r) == late[r] > 0 => late[r] = 1 /\ StopFile(r) \in files /\ pc[r] \notin Quiet

\* What the rows say at each place of the loop.
RowsAt(r) ==
    /\ row[r].status = "none" <=> pc[r] = "none"
    /\ pc[r] \in {"none"} \cup Before => ~told[r]
    /\ pc[r] \in {"head", "check"} =>
          row[r].status = (IF told[r] THEN "paused" ELSE "running") /\ JobSays(r, {row[r].status, "stopped"})
    /\ pc[r] = "pauseJob" => told[r] /\ row[r].status = "paused"
    /\ pc[r] = "wakeJob" => ~told[r] /\ row[r].status = "running"
    /\ pc[r] \in {"work", "save"} =>
          ~told[r] /\ row[r].status = "running" /\ JobSays(r, {"running", "stopped"})
    /\ told[r] \/ pc[r] \in {"endJob", "over"} => row[r].stop = StopFile(r)
    /\ pc[r] \in {"endJob", "over"} => row[r].status = "stopped"
    /\ pc[r] = "over" => JobSays(r, {"stopped"})
    /\ row[r].status = "stopped" => pc[r] \in Left

\* What a command has read: a run that was stopped then is stopped now, and a
\* resume starts a run only for one that was paused or stopped.
ReadingHolds(q) ==
    user[q].do # "none" =>
        /\ user[q].copy.status # "none"
        /\ user[q].copy.status = "stopped" => pc[user[q].run] \in Left
        /\ user[q].do = "start" => user[q].copy.status # "running"

IInv ==
    /\ TypeOK
    /\ \A r \in Runs : LateOnce(r) /\ RowsAt(r)
    /\ \A q \in Users : ReadingHolds(q)

LEMMA InitIInv == Init => IInv
<1> SUFFICES ASSUME Init PROVE IInv
  OBVIOUS
<1>1. \A r \in Runs : option[r] \in Option
  BY AutopilotAssumption DEF Init
<1>2. 1 \in Runs
  BY AutopilotAssumption DEF Runs
<1>3. TypeOK
  BY <1>1, <1>2, AutopilotAssumption DEF Init, TypeOK, Row, Statuses, Commands, NoRow, NoCommand
<1>4. ASSUME NEW r \in Runs PROVE LateOnce(r) /\ RowsAt(r)
  <2>1. late[r] = 0 /\ pc[r] = "none" /\ ~told[r] /\ row[r].status = "none"
    BY DEF Init, NoRow
  <2> QED
    BY <2>1 DEF LateOnce, RowsAt, JobSays
<1>5. ASSUME NEW q \in Users PROVE ReadingHolds(q)
  BY DEF Init, ReadingHolds, NoCommand
<1> QED
  BY <1>3, <1>4, <1>5 DEF IInv

-----------------------------------------------------------------------------
(* Autopilot: the steps of one run *)

Labels == Before \cup Looping \cup Ending \cup {"none", "over", "dead"}

\* The variables of all runs keep their types.
RunTypes ==
    /\ row \in [Runs -> Row] /\ job \in [Runs -> Statuses] /\ attached \subseteq Runs
    /\ pc \in [Runs -> Labels]
    /\ option \in [Runs -> Option] /\ told \in [Runs -> BOOLEAN]
    /\ count \in [Runs -> Nat] /\ failing \in [Runs -> Nat] /\ late \in [Runs -> 0..2]

\* The other runs stay where they are.
Alone(r) ==
    \A s \in Runs \ {r} :
        /\ row'[s] = row[s] /\ job'[s] = job[s] /\ pc'[s] = pc[s]
        /\ option'[s] = option[s] /\ told'[s] = told[s] /\ late'[s] = late[s]
        /\ (s \in attached') <=> (s \in attached)

\* A run that satisfies the invariant for itself, without a step back into the
\* loop, keeps the invariant of all.
StepOf(r) ==
    /\ RunTypes' /\ Alone(r) /\ LateOnce(r)' /\ RowsAt(r)'
    /\ pc[r] \in Left => pc'[r] \in Left
    /\ files' = files

LEMMA StepKeepsRuns ==
    ASSUME IInv, NEW r \in Runs, StepOf(r)
    PROVE  \A s \in Runs : LateOnce(s)' /\ RowsAt(s)'
<1> SUFFICES ASSUME NEW s \in Runs, s # r PROVE LateOnce(s)' /\ RowsAt(s)'
  BY DEF StepOf
<1>1. /\ row'[s] = row[s] /\ job'[s] = job[s] /\ pc'[s] = pc[s]
      /\ option'[s] = option[s] /\ told'[s] = told[s] /\ late'[s] = late[s] /\ files' = files
      /\ (s \in attached') <=> (s \in attached)
  BY DEF StepOf, Alone
<1>2. LateOnce(s) /\ RowsAt(s)
  BY DEF IInv
<1> QED
  BY <1>1, <1>2 DEF LateOnce, RowsAt, JobSays, StopFile

LEMMA StepKeepsIInv ==
    ASSUME IInv, NEW r \in Runs, StepOf(r), user' = user, requests' \in Nat, crashes' \in Nat
    PROVE  IInv'
<1>1. \A s \in Runs : LateOnce(s)' /\ RowsAt(s)'
  BY StepKeepsRuns
<1>2. TypeOK'
  BY <1>1 DEF IInv, TypeOK, StepOf, RunTypes, Labels, RowsAt
<1>3. ASSUME NEW q \in Users PROVE ReadingHolds(q)'
  <2>1. ReadingHolds(q) /\ user[q].run \in Runs
    BY DEF IInv, TypeOK
  <2>2. pc[user[q].run] \in Left => pc'[user[q].run] \in Left
    BY <2>1 DEF StepOf, Alone
  <2> QED
    BY <2>1, <2>2 DEF ReadingHolds
<1> QED
  BY <1>1, <1>2, <1>3 DEF IInv

\* What beginning an iteration does to the count of late iterations.
LEMMA WorkCounts ==
    ASSUME TypeOK, NEW r \in Runs, Work(r)
    PROVE  \E n \in 0..2 :
               /\ late' = [late EXCEPT ![r] = n]
               /\ n = late[r] \/ (StopFile(r) \in files /\ n = late[r] + 1)
<1>1. late[r] \in 0..2
  BY DEF TypeOK
<1>2. CASE StopFile(r) \in files /\ late[r] < 2
  <2>1. late[r] + 1 \in 0..2 /\ late' = [late EXCEPT ![r] = late[r] + 1]
    BY <1>1, <1>2 DEF Work
  <2> QED
    BY <1>2, <2>1
<1>3. CASE ~(StopFile(r) \in files /\ late[r] < 2)
  <2>1. late' = [late EXCEPT ![r] = late[r]]
    BY <1>3 DEF Work
  <2> WITNESS late[r] \in 0..2
  <2> QED
    BY <2>1
<1> QED
  BY <1>2, <1>3

\* An iteration is counted with a natural number.
LEMMA CountedNat ==
    ASSUME TypeOK, NEW r \in Runs, Counted(r)
    PROVE  count' \in [Runs -> Nat]
<1>1. count \in [Runs -> Nat] /\ count[r] + 1 \in Nat /\ count[r] \in Nat
  BY DEF TypeOK
<1>2. CASE option[r].limited
  BY <1>1, <1>2 DEF Counted
<1>3. CASE ~option[r].limited
  BY <1>1, <1>3 DEF Counted
<1> QED
  BY <1>2, <1>3

LEMMA InsertJobKeeps ==
    ASSUME IInv, NEW r \in Runs, InsertJob(r)
    PROVE  IInv'
<1> USE DEF At, Goto, JobIs, jobs
<1>a. TypeOK /\ RunTypes /\ LateOnce(r) /\ RowsAt(r)
  BY DEF IInv, TypeOK, RunTypes, Labels
<1>1. RunTypes'
  BY <1>a DEF RunTypes, Labels, Before, Looping, Ending, Row, Statuses, Option, InsertJob
<1>2. Alone(r)
  BY <1>a DEF RunTypes, Alone, InsertJob
<1>3. LateOnce(r)'
  BY <1>a DEF RunTypes, LateOnce, Quiet, StopFile, InsertJob
<1>4. RowsAt(r)'
  BY <1>a DEF RunTypes, Row, RowsAt, JobSays, Before, Left, StopFile, InsertJob
<1>5. (pc[r] \in Left => pc'[r] \in Left) /\ files' = files /\ user' = user
  BY <1>a DEF RunTypes, Left, Unsteered, InsertJob
<1>6. requests' \in Nat /\ crashes' \in Nat
  BY <1>a DEF TypeOK, Unsteered, InsertJob
<1> QED
  BY <1>1, <1>2, <1>3, <1>4, <1>5, <1>6, StepKeepsIInv DEF StepOf

LEMMA StartEventsKeeps ==
    ASSUME IInv, NEW r \in Runs, StartEvents(r)
    PROVE  IInv'
<1> USE DEF At, Goto, JobIs, jobs
<1>a. TypeOK /\ RunTypes /\ LateOnce(r) /\ RowsAt(r)
  BY DEF IInv, TypeOK, RunTypes, Labels
<1>1. RunTypes'
  BY <1>a DEF RunTypes, Labels, Before, Looping, Ending, Row, Statuses, Option, StartEvents
<1>2. Alone(r)
  BY <1>a DEF RunTypes, Alone, StartEvents
<1>3. LateOnce(r)'
  BY <1>a DEF RunTypes, LateOnce, Quiet, StopFile, StartEvents
<1>4. RowsAt(r)'
  BY <1>a DEF RunTypes, Row, RowsAt, JobSays, Before, Left, StopFile, StartEvents
<1>5. (pc[r] \in Left => pc'[r] \in Left) /\ files' = files /\ user' = user
  BY <1>a DEF RunTypes, Left, Unsteered, StartEvents
<1>6. requests' \in Nat /\ crashes' \in Nat
  BY <1>a DEF TypeOK, Unsteered, StartEvents
<1> QED
  BY <1>1, <1>2, <1>3, <1>4, <1>5, <1>6, StepKeepsIInv DEF StepOf

LEMMA LoopHeadKeeps ==
    ASSUME IInv, NEW r \in Runs, LoopHead(r)
    PROVE  IInv'
<1> USE DEF At, Goto, JobIs, jobs
<1>a. TypeOK /\ RunTypes /\ LateOnce(r) /\ RowsAt(r)
  BY DEF IInv, TypeOK, RunTypes, Labels
<1>1. RunTypes'
  BY <1>a DEF RunTypes, Labels, Before, Looping, Ending, Row, Statuses, Option, LoopHead, Over, MustEnd,
     StopFile
<1>2. Alone(r)
  BY <1>a DEF RunTypes, Alone, LoopHead, Over, MustEnd, StopFile
<1>3. LateOnce(r)'
  BY <1>a DEF RunTypes, LateOnce, Quiet, StopFile, LoopHead, Over, MustEnd
<1>4. RowsAt(r)'
  BY <1>a DEF RunTypes, Row, RowsAt, JobSays, Before, Left, StopFile, LoopHead, Over, MustEnd
<1>5. (pc[r] \in Left => pc'[r] \in Left) /\ files' = files /\ user' = user
  BY <1>a DEF RunTypes, Left, Unsteered, LoopHead, Over, MustEnd, StopFile
<1>6. requests' \in Nat /\ crashes' \in Nat
  BY <1>a DEF TypeOK, Unsteered, LoopHead, Over, MustEnd, StopFile
<1> QED
  BY <1>1, <1>2, <1>3, <1>4, <1>5, <1>6, StepKeepsIInv DEF StepOf

LEMMA PauseKeeps ==
    ASSUME IInv, NEW r \in Runs, Pause(r)
    PROVE  IInv'
<1> USE DEF At, Goto, JobIs, jobs
<1>a. TypeOK /\ RunTypes /\ LateOnce(r) /\ RowsAt(r)
  BY DEF IInv, TypeOK, RunTypes, Labels
<1>b. pc[r] = "check" /\ [status |-> "paused", stop |-> StopFile(r)] \in Row
  BY <1>a DEF Pause, RunTypes, Option, Row, Statuses, StopFile
<1>1. CASE told[r]
  <2>0. /\ pc' = [pc EXCEPT ![r] = "head"]
        /\ UNCHANGED <<files, row, job, attached, option, told, count, failing, late, user, requests, crashes>>
    BY <1>a, <1>b, <1>1 DEF Pause, Unsteered
  <2>1. RunTypes'
    BY <1>a, <1>b, <2>0, <1>1 DEF RunTypes, Labels, Before, Looping, Ending, Statuses
  <2>2. Alone(r)
    BY <1>a, <1>b, <2>0, <1>1 DEF RunTypes, Alone
  <2>3. LateOnce(r)'
    BY <1>a, <1>b, <2>0, <1>1 DEF RunTypes, LateOnce, Quiet, StopFile
  <2>4. RowsAt(r)'
    BY <1>a, <1>b, <2>0, <1>1 DEF RunTypes, Row, RowsAt, JobSays, Before, Left, StopFile
  <2>5. (pc[r] \in Left => pc'[r] \in Left) /\ files' = files /\ user' = user
    BY <1>a, <1>b, <2>0, <1>1 DEF RunTypes, Left, Unsteered, Pause, Unsteered
  <2>6. requests' \in Nat /\ crashes' \in Nat
    BY <1>a, <1>b, <2>0, <1>1 DEF TypeOK, Unsteered, Pause, Unsteered
  <2> QED
    BY <2>1, <2>2, <2>3, <2>4, <2>5, <2>6, StepKeepsIInv DEF StepOf
<1>2. CASE ~told[r]
  <2>0. /\ pc' = [pc EXCEPT ![r] = "pauseJob"]
        /\ row' = [row EXCEPT ![r] = [status |-> "paused", stop |-> StopFile(r)]]
        /\ told' = [told EXCEPT ![r] = TRUE]
        /\ UNCHANGED <<files, job, attached, option, count, failing, late, user, requests, crashes>>
    BY <1>a, <1>b, <1>2 DEF Pause, Recorded, Unsteered
  <2>1. RunTypes'
    BY <1>a, <1>b, <2>0, <1>2 DEF RunTypes, Labels, Before, Looping, Ending, Statuses
  <2>2. Alone(r)
    BY <1>a, <1>b, <2>0, <1>2 DEF RunTypes, Alone
  <2>3. LateOnce(r)'
    BY <1>a, <1>b, <2>0, <1>2 DEF RunTypes, LateOnce, Quiet, StopFile
  <2>4. RowsAt(r)'
    BY <1>a, <1>b, <2>0, <1>2 DEF RunTypes, Row, RowsAt, JobSays, Before, Left, StopFile
  <2>5. (pc[r] \in Left => pc'[r] \in Left) /\ files' = files /\ user' = user
    BY <1>a, <1>b, <2>0, <1>2 DEF RunTypes, Left, Unsteered, Pause, Recorded, Unsteered
  <2>6. requests' \in Nat /\ crashes' \in Nat
    BY <1>a, <1>b, <2>0, <1>2 DEF TypeOK, Unsteered, Pause, Recorded, Unsteered
  <2> QED
    BY <2>1, <2>2, <2>3, <2>4, <2>5, <2>6, StepKeepsIInv DEF StepOf
<1> QED
  BY <1>1, <1>2

LEMMA PauseJobKeeps ==
    ASSUME IInv, NEW r \in Runs, PauseJob(r)
    PROVE  IInv'
<1> USE DEF At, Goto, JobIs, jobs
<1>a. TypeOK /\ RunTypes /\ LateOnce(r) /\ RowsAt(r)
  BY DEF IInv, TypeOK, RunTypes, Labels
<1>1. RunTypes'
  BY <1>a DEF RunTypes, Labels, Before, Looping, Ending, Row, Statuses, Option, PauseJob
<1>2. Alone(r)
  BY <1>a DEF RunTypes, Alone, PauseJob
<1>3. LateOnce(r)'
  BY <1>a DEF RunTypes, LateOnce, Quiet, StopFile, PauseJob
<1>4. RowsAt(r)'
  BY <1>a DEF RunTypes, Row, RowsAt, JobSays, Before, Left, StopFile, PauseJob
<1>5. (pc[r] \in Left => pc'[r] \in Left) /\ files' = files /\ user' = user
  BY <1>a DEF RunTypes, Left, Unsteered, PauseJob
<1>6. requests' \in Nat /\ crashes' \in Nat
  BY <1>a DEF TypeOK, Unsteered, PauseJob
<1> QED
  BY <1>1, <1>2, <1>3, <1>4, <1>5, <1>6, StepKeepsIInv DEF StepOf

LEMMA GoOnKeeps ==
    ASSUME IInv, NEW r \in Runs, GoOn(r)
    PROVE  IInv'
<1> USE DEF At, Goto, JobIs, jobs
<1>a. TypeOK /\ RunTypes /\ LateOnce(r) /\ RowsAt(r)
  BY DEF IInv, TypeOK, RunTypes, Labels
<1>b. pc[r] = "check" /\ [status |-> "running", stop |-> StopFile(r)] \in Row
  BY <1>a DEF GoOn, RunTypes, Option, Row, Statuses, StopFile
<1>1. CASE told[r]
  <2>0. /\ pc' = [pc EXCEPT ![r] = "wakeJob"]
        /\ row' = [row EXCEPT ![r] = [status |-> "running", stop |-> StopFile(r)]]
        /\ told' = [told EXCEPT ![r] = FALSE]
        /\ UNCHANGED <<files, job, attached, option, count, failing, late, user, requests, crashes>>
    BY <1>a, <1>b, <1>1 DEF GoOn, Recorded, Unsteered
  <2>1. RunTypes'
    BY <1>a, <1>b, <2>0, <1>1 DEF RunTypes, Labels, Before, Looping, Ending, Statuses
  <2>2. Alone(r)
    BY <1>a, <1>b, <2>0, <1>1 DEF RunTypes, Alone
  <2>3. LateOnce(r)'
    BY <1>a, <1>b, <2>0, <1>1 DEF RunTypes, LateOnce, Quiet, StopFile
  <2>4. RowsAt(r)'
    BY <1>a, <1>b, <2>0, <1>1 DEF RunTypes, Row, RowsAt, JobSays, Before, Left, StopFile
  <2>5. (pc[r] \in Left => pc'[r] \in Left) /\ files' = files /\ user' = user
    BY <1>a, <1>b, <2>0, <1>1 DEF RunTypes, Left, Unsteered, GoOn, Recorded, Unsteered
  <2>6. requests' \in Nat /\ crashes' \in Nat
    BY <1>a, <1>b, <2>0, <1>1 DEF TypeOK, Unsteered, GoOn, Recorded, Unsteered
  <2> QED
    BY <2>1, <2>2, <2>3, <2>4, <2>5, <2>6, StepKeepsIInv DEF StepOf
<1>2. CASE ~told[r]
  <2>n. PICK n \in 0..2 :
          /\ late' = [late EXCEPT ![r] = n]
          /\ n = late[r] \/ (StopFile(r) \in files /\ n = late[r] + 1)
    BY <1>a, <1>2, WorkCounts DEF GoOn
  <2>0. /\ pc' = [pc EXCEPT ![r] = "work"]
        /\ UNCHANGED <<files, row, job, attached, option, told, count, failing, user, requests, crashes>>
    BY <1>a, <1>b, <2>n, <1>2 DEF GoOn, Work, Unsteered
  <2>1. RunTypes'
    BY <1>a, <1>b, <2>n, <2>0, <1>2 DEF RunTypes, Labels, Before, Looping, Ending, Statuses
  <2>2. Alone(r)
    BY <1>a, <1>b, <2>n, <2>0, <1>2 DEF RunTypes, Alone
  <2>3. LateOnce(r)'
    BY <1>a, <1>b, <2>n, <2>0, <1>2 DEF RunTypes, LateOnce, Quiet, StopFile
  <2>4. RowsAt(r)'
    BY <1>a, <1>b, <2>n, <2>0, <1>2 DEF RunTypes, Row, RowsAt, JobSays, Before, Left, StopFile
  <2>5. (pc[r] \in Left => pc'[r] \in Left) /\ files' = files /\ user' = user
    BY <1>a, <1>b, <2>n, <2>0, <1>2 DEF RunTypes, Left, Unsteered, GoOn, Work, Unsteered
  <2>6. requests' \in Nat /\ crashes' \in Nat
    BY <1>a, <1>b, <2>n, <2>0, <1>2 DEF TypeOK, Unsteered, GoOn, Work, Unsteered
  <2> QED
    BY <2>1, <2>2, <2>3, <2>4, <2>5, <2>6, StepKeepsIInv DEF StepOf
<1> QED
  BY <1>1, <1>2

LEMMA WakeJobKeeps ==
    ASSUME IInv, NEW r \in Runs, WakeJob(r)
    PROVE  IInv'
<1> USE DEF At, Goto, JobIs, jobs
<1>a. TypeOK /\ RunTypes /\ LateOnce(r) /\ RowsAt(r)
  BY DEF IInv, TypeOK, RunTypes, Labels
<1>b. pc[r] = "wakeJob" /\ late[r] = 0
  <2>1. pc[r] = "wakeJob"
    BY DEF WakeJob
  <2>2. late[r] \in 0..2 /\ ~(late[r] > 0)
    BY <1>a, <2>1 DEF RunTypes, LateOnce, Quiet
  <2>3. late[r] = 0
    BY <2>2
  <2> QED
    BY <2>1, <2>3
<1>n. PICK n \in 0..2 :
        /\ late' = [late EXCEPT ![r] = n]
        /\ n = late[r] \/ (StopFile(r) \in files /\ n = late[r] + 1)
  BY <1>a, WorkCounts DEF WakeJob
<1>0. /\ pc' = [pc EXCEPT ![r] = "work"]
      /\ job' = [job EXCEPT ![r] = "running"] /\ attached' = attached \ {r}
      /\ UNCHANGED <<files, row, option, told, count, failing, user, requests, crashes>>
  BY <1>a, <1>b, <1>n DEF WakeJob, Work, Unsteered
<1>1. RunTypes'
  BY <1>a, <1>b, <1>n, <1>0 DEF RunTypes, Labels, Before, Looping, Ending, Statuses
<1>2. Alone(r)
  BY <1>a, <1>b, <1>n, <1>0 DEF RunTypes, Alone
<1>3. LateOnce(r)'
  <2>1. late'[r] = n /\ pc'[r] = "work" /\ StopFile(r)' = StopFile(r) /\ files' = files
    BY <1>a, <1>n, <1>0 DEF RunTypes, StopFile
  <2>2. n = 0 \/ (StopFile(r) \in files /\ n = 1)
    BY <1>b, <1>n
  <2>3. "work" \notin Quiet
    BY DEF Quiet
  <2> QED
    BY <2>1, <2>2, <2>3 DEF LateOnce
<1>4. RowsAt(r)'
  BY <1>a, <1>b, <1>n, <1>0 DEF RunTypes, Row, RowsAt, JobSays, Before, Left, StopFile
<1>5. (pc[r] \in Left => pc'[r] \in Left) /\ files' = files /\ user' = user
  BY <1>a, <1>b, <1>n, <1>0 DEF RunTypes, Left, Unsteered, WakeJob, Work, Unsteered
<1>6. requests' \in Nat /\ crashes' \in Nat
  BY <1>a, <1>b, <1>n, <1>0 DEF TypeOK, Unsteered, WakeJob, Work, Unsteered
<1> QED
  BY <1>1, <1>2, <1>3, <1>4, <1>5, <1>6, StepKeepsIInv DEF StepOf

LEMMA SucceedKeeps ==
    ASSUME IInv, NEW r \in Runs, Succeed(r)
    PROVE  IInv'
<1> USE DEF At, Goto, JobIs, jobs
<1>a. TypeOK /\ RunTypes /\ LateOnce(r) /\ RowsAt(r)
  BY DEF IInv, TypeOK, RunTypes, Labels
<1>b. pc[r] = "work" /\ failing[r] + 1 \in Nat /\ count' \in [Runs -> Nat]
  BY <1>a, CountedNat DEF Succeed, RunTypes
<1>0. /\ pc' = [pc EXCEPT ![r] = "save"]
      /\ failing' = [failing EXCEPT ![r] = 0]
      /\ UNCHANGED <<files, row, job, attached, option, told, late, user, requests, crashes>>
  BY <1>a, <1>b DEF Succeed, Unsteered
<1>1. RunTypes'
  BY <1>a, <1>b, <1>0 DEF RunTypes, Labels, Before, Looping, Ending, Statuses
<1>2. Alone(r)
  BY <1>a, <1>b, <1>0 DEF RunTypes, Alone
<1>3. LateOnce(r)'
  BY <1>a, <1>b, <1>0 DEF RunTypes, LateOnce, Quiet, StopFile
<1>4. RowsAt(r)'
  BY <1>a, <1>b, <1>0 DEF RunTypes, Row, RowsAt, JobSays, Before, Left, StopFile
<1>5. (pc[r] \in Left => pc'[r] \in Left) /\ files' = files /\ user' = user
  BY <1>a, <1>b, <1>0 DEF RunTypes, Left, Unsteered, Succeed, Unsteered
<1>6. requests' \in Nat /\ crashes' \in Nat
  BY <1>a, <1>b, <1>0 DEF TypeOK, Unsteered, Succeed, Unsteered
<1> QED
  BY <1>1, <1>2, <1>3, <1>4, <1>5, <1>6, StepKeepsIInv DEF StepOf

LEMMA FailKeeps ==
    ASSUME IInv, NEW r \in Runs, Fail(r)
    PROVE  IInv'
<1> USE DEF At, Goto, JobIs, jobs
<1>a. TypeOK /\ RunTypes /\ LateOnce(r) /\ RowsAt(r)
  BY DEF IInv, TypeOK, RunTypes, Labels
<1>b. pc[r] = "work" /\ failing[r] + 1 \in Nat /\ count' \in [Runs -> Nat]
  <2>1. pc[r] = "work" /\ Counted(r)
    BY DEF Fail
  <2> QED
    BY <1>a, <2>1, CountedNat DEF RunTypes
<1>l. PICK l \in {"save", "endRow"} : pc' = [pc EXCEPT ![r] = l]
  BY DEF Fail
<1>0. /\ failing' = [failing EXCEPT ![r] = failing[r] + 1]
      /\ UNCHANGED <<files, row, job, attached, option, told, late, user, requests, crashes>>
  BY <1>a, <1>b, <1>l DEF Fail, Unsteered
<1>1. RunTypes'
  BY <1>a, <1>b, <1>l, <1>0 DEF RunTypes, Labels, Before, Looping, Ending, Statuses
<1>2. Alone(r)
  BY <1>a, <1>b, <1>l, <1>0 DEF RunTypes, Alone
<1>3. LateOnce(r)'
  BY <1>a, <1>b, <1>l, <1>0 DEF RunTypes, LateOnce, Quiet, StopFile
<1>4. RowsAt(r)'
  BY <1>a, <1>b, <1>l, <1>0 DEF RunTypes, Row, RowsAt, JobSays, Before, Left, StopFile
<1>5. (pc[r] \in Left => pc'[r] \in Left) /\ files' = files /\ user' = user
  BY <1>a, <1>b, <1>l, <1>0 DEF RunTypes, Left, Unsteered, Fail, Unsteered
<1>6. requests' \in Nat /\ crashes' \in Nat
  BY <1>a, <1>b, <1>l, <1>0 DEF TypeOK, Unsteered, Fail, Unsteered
<1> QED
  BY <1>1, <1>2, <1>3, <1>4, <1>5, <1>6, StepKeepsIInv DEF StepOf

LEMMA SaveKeeps ==
    ASSUME IInv, NEW r \in Runs, Save(r)
    PROVE  IInv'
<1> USE DEF At, Goto, JobIs, jobs
<1>a. TypeOK /\ RunTypes /\ LateOnce(r) /\ RowsAt(r)
  BY DEF IInv, TypeOK, RunTypes, Labels
<1>1. RunTypes'
  BY <1>a DEF RunTypes, Labels, Before, Looping, Ending, Row, Statuses, Option, Save, Recorded, StopFile
<1>2. Alone(r)
  BY <1>a DEF RunTypes, Alone, Save, Recorded, StopFile
<1>3. LateOnce(r)'
  BY <1>a DEF RunTypes, LateOnce, Quiet, StopFile, Save, Recorded
<1>4. RowsAt(r)'
  BY <1>a DEF RunTypes, Row, RowsAt, JobSays, Before, Left, StopFile, Save, Recorded
<1>5. (pc[r] \in Left => pc'[r] \in Left) /\ files' = files /\ user' = user
  BY <1>a DEF RunTypes, Left, Unsteered, Save, Recorded, StopFile
<1>6. requests' \in Nat /\ crashes' \in Nat
  BY <1>a DEF TypeOK, Unsteered, Save, Recorded, StopFile
<1> QED
  BY <1>1, <1>2, <1>3, <1>4, <1>5, <1>6, StepKeepsIInv DEF StepOf

LEMMA EndRowKeeps ==
    ASSUME IInv, NEW r \in Runs, EndRow(r)
    PROVE  IInv'
<1> USE DEF At, Goto, JobIs, jobs
<1>a. TypeOK /\ RunTypes /\ LateOnce(r) /\ RowsAt(r)
  BY DEF IInv, TypeOK, RunTypes, Labels
<1>1. RunTypes'
  BY <1>a DEF RunTypes, Labels, Before, Looping, Ending, Row, Statuses, Option, EndRow, Recorded, StopFile
<1>2. Alone(r)
  BY <1>a DEF RunTypes, Alone, EndRow, Recorded, StopFile
<1>3. LateOnce(r)'
  BY <1>a DEF RunTypes, LateOnce, Quiet, StopFile, EndRow, Recorded
<1>4. RowsAt(r)'
  BY <1>a DEF RunTypes, Row, RowsAt, JobSays, Before, Left, StopFile, EndRow, Recorded
<1>5. (pc[r] \in Left => pc'[r] \in Left) /\ files' = files /\ user' = user
  BY <1>a DEF RunTypes, Left, Unsteered, EndRow, Recorded, StopFile
<1>6. requests' \in Nat /\ crashes' \in Nat
  BY <1>a DEF TypeOK, Unsteered, EndRow, Recorded, StopFile
<1> QED
  BY <1>1, <1>2, <1>3, <1>4, <1>5, <1>6, StepKeepsIInv DEF StepOf

LEMMA EndJobKeeps ==
    ASSUME IInv, NEW r \in Runs, EndJob(r)
    PROVE  IInv'
<1> USE DEF At, Goto, JobIs, jobs
<1>a. TypeOK /\ RunTypes /\ LateOnce(r) /\ RowsAt(r)
  BY DEF IInv, TypeOK, RunTypes, Labels
<1>1. RunTypes'
  BY <1>a DEF RunTypes, Labels, Before, Looping, Ending, Row, Statuses, Option, EndJob
<1>2. Alone(r)
  BY <1>a DEF RunTypes, Alone, EndJob
<1>3. LateOnce(r)'
  BY <1>a DEF RunTypes, LateOnce, Quiet, StopFile, EndJob
<1>4. RowsAt(r)'
  BY <1>a DEF RunTypes, Row, RowsAt, JobSays, Before, Left, StopFile, EndJob
<1>5. (pc[r] \in Left => pc'[r] \in Left) /\ files' = files /\ user' = user
  BY <1>a DEF RunTypes, Left, Unsteered, EndJob
<1>6. requests' \in Nat /\ crashes' \in Nat
  BY <1>a DEF TypeOK, Unsteered, EndJob
<1> QED
  BY <1>1, <1>2, <1>3, <1>4, <1>5, <1>6, StepKeepsIInv DEF StepOf

-----------------------------------------------------------------------------
(* Runs that begin and runs that die *)

LEMMA BeginIsStep ==
    ASSUME IInv, NEW r \in Runs, NEW o \in Option, Begin(r, o)
    PROVE  StepOf(r)
<1> USE DEF At, Goto, jobs
<1>a. RunTypes /\ LateOnce(r) /\ RowsAt(r) /\ pc[r] = "none"
  BY DEF IInv, TypeOK, RunTypes, Labels, Begin
<1>1. RunTypes'
  BY <1>a DEF RunTypes, Labels, Before, Looping, Ending, Row, Statuses, Option, Begin
<1>2. Alone(r)
  BY <1>a DEF RunTypes, Alone, Begin
<1>3. LateOnce(r)'
  BY <1>a DEF RunTypes, LateOnce, Quiet, Begin
<1>4. RowsAt(r)'
  BY <1>a DEF RunTypes, RowsAt, JobSays, Before, Left, Begin
<1>5. (pc[r] \in Left => pc'[r] \in Left) /\ files' = files
  BY <1>a DEF Left, Begin
<1> QED
  BY <1>1, <1>2, <1>3, <1>4, <1>5 DEF StepOf

LEMMA StartKeeps ==
    ASSUME IInv, NEW r \in Runs, Start(r)
    PROVE  IInv'
<1>1. PICK o \in Options : Begin(r, o)
  BY DEF Start
<1>2. o \in Option
  BY AutopilotAssumption
<1>3. StepOf(r)
  BY <1>1, <1>2, BeginIsStep
<1>4. user' = user /\ requests' \in Nat /\ crashes' \in Nat
  BY DEF IInv, TypeOK, Start, Unsteered
<1> QED
  BY <1>3, <1>4, StepKeepsIInv

LEMMA DieKeeps ==
    ASSUME IInv, NEW r \in Runs, Die(r)
    PROVE  IInv'
<1> USE DEF Goto, jobs
<1>a. TypeOK /\ RunTypes /\ LateOnce(r) /\ RowsAt(r) /\ pc[r] # "none"
  BY DEF IInv, TypeOK, RunTypes, Labels, Die, Before, Looping, Ending
<1>1. RunTypes'
  BY <1>a DEF RunTypes, Labels, Die
<1>2. Alone(r)
  BY <1>a DEF RunTypes, Alone, Die
<1>3. LateOnce(r)'
  BY <1>a DEF RunTypes, LateOnce, Quiet, StopFile, Die
<1>4. RowsAt(r)'
  BY <1>a DEF RunTypes, RowsAt, JobSays, Before, Left, StopFile, Die
<1>5. (pc[r] \in Left => pc'[r] \in Left) /\ files' = files /\ user' = user
  BY <1>a DEF RunTypes, Left, Die
<1>6. requests' \in Nat /\ crashes' \in Nat
  BY <1>a DEF TypeOK, Die
<1> QED
  BY <1>1, <1>2, <1>3, <1>4, <1>5, <1>6, StepKeepsIInv DEF StepOf

-----------------------------------------------------------------------------
(* The commands *)

Asked == [do : Commands, run : Runs, copy : Row]

\* A command leaves the jobs alone, calls one stopped, or attaches to one.
JobOf ==
    \/ UNCHANGED jobs
    \/ \E r \in Runs : job' = [job EXCEPT ![r] = "stopped"] /\ attached' = attached \ {r}
    \/ \E r \in Runs : job' = [job EXCEPT ![r] = "running"] /\ attached' = attached \cup {r}

\* A command leaves the runs alone, removes no stop file, may change what a job
\* says, and goes on from what it has read.
CommandOf(q, u) ==
    /\ u \in Asked /\ user' = [user EXCEPT ![q] = u]
    /\ u.do # "none" =>
          /\ u.copy.status # "none"
          /\ u.copy.status = "stopped" => pc[u.run] \in Left
          /\ u.do = "start" => u.copy.status # "running"
    /\ files' \subseteq StopFiles \cup PauseFiles /\ files \cap StopFiles \subseteq files'
    /\ row' = row /\ UNCHANGED run
    /\ JobOf
    /\ requests' \in Nat /\ crashes' \in Nat

LEMMA CommandKeepsIInv ==
    ASSUME IInv, NEW q \in Users, NEW u, CommandOf(q, u)
    PROVE  IInv'
<1>a. TypeOK /\ row' = row /\ job \in [Runs -> Statuses] /\ user \in [Users -> Asked]
  BY DEF IInv, TypeOK, CommandOf, Asked
<1>b. /\ pc' = pc /\ option' = option /\ told' = told
      /\ count' = count /\ failing' = failing /\ late' = late
  BY DEF CommandOf, run
<1>1. /\ job' \in [Runs -> Statuses] /\ attached' \subseteq Runs
      /\ \A r \in Runs :
             \/ job'[r] = job[r] /\ ((r \in attached') <=> (r \in attached))
             \/ job'[r] = "stopped" /\ r \notin attached'
             \/ job'[r] = "running" /\ r \in attached'
  <2>0. attached \subseteq Runs /\ "stopped" \in Statuses /\ "running" \in Statuses
    BY DEF IInv, TypeOK, Statuses
  <2>1. CASE UNCHANGED jobs
    BY <1>a, <2>0, <2>1 DEF jobs
  <2>2. CASE \E s \in Runs : job' = [job EXCEPT ![s] = "stopped"] /\ attached' = attached \ {s}
    BY <1>a, <2>0, <2>2
  <2>3. CASE \E s \in Runs : job' = [job EXCEPT ![s] = "running"] /\ attached' = attached \cup {s}
    BY <1>a, <2>0, <2>3
  <2> QED
    BY <2>1, <2>2, <2>3 DEF CommandOf, JobOf
<1>2. TypeOK'
  BY <1>a, <1>b, <1>1 DEF TypeOK, CommandOf, Asked
<1>3. ASSUME NEW r \in Runs PROVE LateOnce(r)' /\ RowsAt(r)'
  <2>1. LateOnce(r) /\ RowsAt(r) /\ option[r].stop \in StopFiles
    BY <1>a DEF IInv, TypeOK, Option
  <2>2. LateOnce(r)'
    BY <2>1, <1>b DEF LateOnce, StopFile, CommandOf
  <2>3. RowsAt(r)'
    BY <2>1, <1>a, <1>b, <1>1 DEF RowsAt, JobSays, StopFile
  <2> QED
    BY <2>2, <2>3
<1>4. ASSUME NEW p \in Users PROVE ReadingHolds(p)'
  <2>1. ReadingHolds(p)
    BY DEF IInv
  <2>2. CASE p = q
    <3>1. user'[p] = u
      BY <1>a, <2>2 DEF CommandOf
    <3> QED
      BY <3>1, <1>b DEF ReadingHolds, CommandOf
  <2>3. CASE p # q
    <3>1. user'[p] = user[p]
      BY <1>a, <2>3 DEF CommandOf
    <3> QED
      BY <3>1, <2>1, <1>b DEF ReadingHolds
  <2> QED
    BY <2>2, <2>3
<1> QED
  BY <1>2, <1>3, <1>4 DEF IInv

\* What a command has read may be carried on as it is.
LEMMA CarriedOn ==
    ASSUME IInv, NEW q \in Users, user[q].do # "none", NEW do \in Commands,
           do = "start" => user[q].copy.status # "running",
           user' = [user EXCEPT ![q].do = do]
    PROVE  LET u == [do |-> do, run |-> user[q].run, copy |-> user[q].copy] IN
           /\ u \in Asked /\ user' = [user EXCEPT ![q] = u]
           /\ u.copy.status # "none"
           /\ u.copy.status = "stopped" => pc[u.run] \in Left
           /\ u.do = "start" => u.copy.status # "running"
<1>1. user \in [Users -> Asked] /\ user[q] \in Asked /\ ReadingHolds(q)
  BY DEF IInv, TypeOK, Asked
<1>2. [user[q] EXCEPT !.do = do] = [do |-> do, run |-> user[q].run, copy |-> user[q].copy]
  BY <1>1 DEF Asked
<1>3. user' = [user EXCEPT ![q] = [user[q] EXCEPT !.do = do]]
  BY <1>1
<1> QED
  BY <1>1, <1>2, <1>3 DEF Asked, ReadingHolds

LEMMA NoCommandTyped == NoCommand \in Asked /\ NoCommand.do = "none"
  BY AutopilotAssumption DEF NoCommand, NoRow, Asked, Commands, Row, Statuses, Runs

LEMMA Targets ==
    ASSUME IInv, NEW q \in Users
    PROVE  /\ StopTarget(q) \in StopFiles /\ CopiedPause(q) \in PauseFiles
           /\ PauseOf[StopTarget(q)] \in PauseFiles
<1>1. user[q].copy.stop \in StopFiles \cup {NoFile}
  BY DEF IInv, TypeOK, Row
<1> QED
  BY <1>1, AutopilotAssumption DEF StopTarget, CopiedPause

LEMMA CommandKeeps ==
    ASSUME IInv, NEW q \in Users, NEW r \in Runs, Command(q, r)
    PROVE  IInv'
<1>1. PICK do \in {"stop", "pause", "resume", "stopJob", "attach"} :
          user' = [user EXCEPT ![q] = [do |-> do, run |-> r, copy |-> row[r]]]
  BY DEF Command
<1> DEFINE u == [do |-> do, run |-> r, copy |-> row[r]]
<1>2. u \in Asked /\ u.copy.status # "none" /\ u.do # "start"
  BY <1>1 DEF IInv, TypeOK, Asked, Commands, Command
<1>3. u.copy.status = "stopped" => pc[u.run] \in Left
  BY DEF IInv, RowsAt
<1>4. requests' \in Nat /\ crashes' \in Nat /\ files' \subseteq StopFiles \cup PauseFiles
  BY DEF IInv, TypeOK, Command
<1>5. CommandOf(q, u)
  BY <1>1, <1>2, <1>3, <1>4 DEF CommandOf, JobOf, Command
<1> QED
  BY <1>5, CommandKeepsIInv

\* A command that is done, or goes on, changes a file and perhaps a job.
LEMMA EndsOrGoesOn ==
    ASSUME IInv, NEW q \in Users, user[q].do # "none", Steered, row' = row, UNCHANGED run,
           files' \subseteq StopFiles \cup PauseFiles, files \cap StopFiles \subseteq files',
           JobOf,
           \/ Done(q)
           \/ \E do \in Commands : Then(q, do) /\ (do = "start" => user[q].copy.status # "running")
    PROVE  IInv'
<1>1. requests' \in Nat /\ crashes' \in Nat
  BY DEF IInv, TypeOK, Steered
<1>2. CASE Done(q)
  <2>1. CommandOf(q, NoCommand)
    BY <1>1, <1>2, NoCommandTyped DEF CommandOf, Done
  <2> QED
    BY <2>1, CommandKeepsIInv
<1>3. CASE \E do \in Commands : Then(q, do) /\ (do = "start" => user[q].copy.status # "running")
  <2>1. PICK do \in Commands : Then(q, do) /\ (do = "start" => user[q].copy.status # "running")
    BY <1>3
  <2> DEFINE u == [do |-> do, run |-> user[q].run, copy |-> user[q].copy]
  <2>2. /\ u \in Asked /\ user' = [user EXCEPT ![q] = u]
        /\ u.copy.status # "none"
        /\ u.copy.status = "stopped" => pc[u.run] \in Left
        /\ u.do = "start" => u.copy.status # "running"
    BY <2>1, CarriedOn DEF Then
  <2> HIDE DEF u
  <2>3. CommandOf(q, u)
    BY <1>1, <2>2 DEF CommandOf
  <2> QED
    BY <2>3, CommandKeepsIInv
<1> QED
  BY <1>2, <1>3

LEMMA WriteStopFileKeeps ==
    ASSUME IInv, NEW q \in Users, WriteStopFile(q)
    PROVE  IInv'
<1>1. user[q].do # "none" /\ Steered /\ row' = row /\ JobOf /\ UNCHANGED run
  BY DEF WriteStopFile, Doing, JobOf
<1>2. files' \subseteq StopFiles \cup PauseFiles /\ files \cap StopFiles \subseteq files'
  BY Targets DEF IInv, TypeOK, WriteStopFile
<1>3. Then(q, "unpause") \/ Then(q, "jobStopped")
  BY DEF WriteStopFile
<1>4. \E do \in Commands : Then(q, do) /\ (do = "start" => user[q].copy.status # "running")
  BY <1>3 DEF Commands
<1> QED
  BY <1>1, <1>2, <1>4, EndsOrGoesOn

LEMMA RemovePauseFileKeeps ==
    ASSUME IInv, NEW q \in Users, RemovePauseFile(q)
    PROVE  IInv'
<1>1. user[q].do # "none" /\ Steered /\ row' = row /\ JobOf /\ UNCHANGED run /\ Done(q)
  BY DEF RemovePauseFile, Doing, JobOf
<1>2. files' \subseteq StopFiles \cup PauseFiles /\ files \cap StopFiles \subseteq files'
  BY Targets, AutopilotAssumption DEF IInv, TypeOK, RemovePauseFile
<1> QED
  BY <1>1, <1>2, EndsOrGoesOn

LEMMA StopJobKeeps ==
    ASSUME IInv, NEW q \in Users, StopJob(q)
    PROVE  IInv'
<1>1. user[q].do # "none" /\ Steered /\ row' = row /\ files' = files /\ UNCHANGED run /\ Done(q)
  BY DEF StopJob, Doing
<1>2. user[q].run \in Runs /\ files' \subseteq StopFiles \cup PauseFiles
  BY <1>1 DEF IInv, TypeOK
<1>3. JobOf
  BY <1>2 DEF StopJob, JobIs, JobOf
<1> QED
  BY <1>1, <1>2, <1>3, EndsOrGoesOn

LEMMA AttachJobKeeps ==
    ASSUME IInv, NEW q \in Users, AttachJob(q)
    PROVE  IInv'
<1>1. user[q].do # "none" /\ Steered /\ row' = row /\ files' = files /\ UNCHANGED run /\ Done(q)
  BY DEF AttachJob, Doing
<1>2. user[q].run \in Runs /\ files' \subseteq StopFiles \cup PauseFiles
  BY <1>1 DEF IInv, TypeOK
<1>3. JobOf
  BY <1>2 DEF AttachJob, JobOf
<1> QED
  BY <1>1, <1>2, <1>3, EndsOrGoesOn

LEMMA WritePauseFileKeeps ==
    ASSUME IInv, NEW q \in Users, WritePauseFile(q)
    PROVE  IInv'
<1>1. user[q].do # "none" /\ Steered /\ row' = row /\ JobOf /\ UNCHANGED run /\ Done(q)
  BY DEF WritePauseFile, Doing, JobOf
<1>2. files' \subseteq StopFiles \cup PauseFiles /\ files \cap StopFiles \subseteq files'
  BY Targets DEF IInv, TypeOK, WritePauseFile
<1> QED
  BY <1>1, <1>2, EndsOrGoesOn

LEMMA WakeKeeps ==
    ASSUME IInv, NEW q \in Users, Wake(q)
    PROVE  IInv'
<1>1. user[q].do # "none" /\ Steered /\ row' = row /\ JobOf /\ UNCHANGED run
  BY DEF Wake, Doing, JobOf
<1>2. files' \subseteq StopFiles \cup PauseFiles /\ files \cap StopFiles \subseteq files'
  BY Targets, AutopilotAssumption DEF IInv, TypeOK, Wake
<1>3. Done(q) \/ (Then(q, "start") /\ user[q].copy.status # "running")
  BY DEF Wake
<1>4. Done(q) \/ \E do \in Commands : Then(q, do) /\ (do = "start" => user[q].copy.status # "running")
  BY <1>3 DEF Commands
<1> QED
  BY <1>1, <1>2, <1>4, EndsOrGoesOn

LEMMA RefuseKeeps ==
    ASSUME IInv, NEW q \in Users, Refuse(q)
    PROVE  IInv'
<1>1. user[q].do # "none" /\ Steered /\ row' = row /\ JobOf /\ files' = files /\ UNCHANGED run
  BY DEF Refuse, Doing, JobOf
<1>2. files' \subseteq StopFiles \cup PauseFiles /\ files \cap StopFiles \subseteq files'
  BY <1>1 DEF IInv, TypeOK
<1>3. Done(q) \/ (Then(q, "start") /\ user[q].copy.status # "running")
  BY DEF Refuse
<1>4. Done(q) \/ \E do \in Commands : Then(q, do) /\ (do = "start" => user[q].copy.status # "running")
  BY <1>3 DEF Commands
<1> QED
  BY <1>1, <1>2, <1>4, EndsOrGoesOn

\* A resume that starts a run is a step of that run and the end of the command.
LEMMA ResumeKeeps ==
    ASSUME IInv, NEW q \in Users, Resume(q)
    PROVE  IInv'
<1>1. PICK r \in Runs : Begin(r, ResumedOption(q))
  BY DEF Resume
<1>2. ResumedOption(q) \in Option
  BY Targets DEF ResumedOption, Option
<1>3. StepOf(r)
  BY <1>1, <1>2, BeginIsStep
<1>4. \A s \in Runs : LateOnce(s)' /\ RowsAt(s)'
  BY <1>3, StepKeepsRuns
<1>5. user' = [user EXCEPT ![q] = NoCommand] /\ user \in [Users -> Asked]
  BY DEF Resume, Done, IInv, TypeOK, Asked
<1>6. user' \in [Users -> Asked]
  BY <1>5, NoCommandTyped
<1>7. requests' \in Nat /\ crashes' \in Nat
  BY DEF IInv, TypeOK, Resume, Steered
<1>8. TypeOK'
  BY <1>3, <1>4, <1>6, <1>7 DEF IInv, TypeOK, StepOf, RunTypes, Labels, RowsAt, Asked
<1>9. ASSUME NEW p \in Users PROVE ReadingHolds(p)'
  <2>1. CASE p = q
    BY <1>5, <2>1, NoCommandTyped DEF ReadingHolds
  <2>2. CASE p # q
    <3>1. user'[p] = user[p] /\ user[p].run \in Runs /\ ReadingHolds(p)
      BY <1>5, <2>2 DEF IInv, Asked
    <3>2. pc[user[p].run] \in Left => pc'[user[p].run] \in Left
      BY <1>3, <3>1 DEF StepOf, Alone
    <3> QED
      BY <3>1, <3>2 DEF ReadingHolds
  <2> QED
    BY <2>1, <2>2
<1> QED
  BY <1>4, <1>8, <1>9 DEF IInv

-----------------------------------------------------------------------------
(* The theorems *)

LEMMA NextKeepsIInv == IInv /\ [Next]_vars => IInv'
<1> SUFFICES ASSUME IInv, [Next]_vars PROVE IInv'
  OBVIOUS
<1>1. ASSUME NEW r \in Runs, Start(r) \/ RunStep(r) \/ Die(r) PROVE IInv'
  <2>1. CASE Start(r)
    BY <2>1, StartKeeps
  <2>2. CASE Die(r)
    BY <2>2, DieKeeps
  <2>3. CASE InsertJob(r)
    BY <2>3, InsertJobKeeps
  <2>4. CASE StartEvents(r)
    BY <2>4, StartEventsKeeps
  <2>5. CASE LoopHead(r)
    BY <2>5, LoopHeadKeeps
  <2>6. CASE Pause(r)
    BY <2>6, PauseKeeps
  <2>7. CASE PauseJob(r)
    BY <2>7, PauseJobKeeps
  <2>8. CASE GoOn(r)
    BY <2>8, GoOnKeeps
  <2>9. CASE WakeJob(r)
    BY <2>9, WakeJobKeeps
  <2>10. CASE Succeed(r)
    BY <2>10, SucceedKeeps
  <2>11. CASE Fail(r)
    BY <2>11, FailKeeps
  <2>12. CASE Save(r)
    BY <2>12, SaveKeeps
  <2>13. CASE EndRow(r)
    BY <2>13, EndRowKeeps
  <2>14. CASE EndJob(r)
    BY <2>14, EndJobKeeps
  <2> QED
    BY <1>1, <2>1, <2>2, <2>3, <2>4, <2>5, <2>6, <2>7, <2>8, <2>9, <2>10, <2>11, <2>12, <2>13, <2>14
       DEF RunStep
<1>2. ASSUME NEW q \in Users, UserStep(q) PROVE IInv'
  BY <1>2, WriteStopFileKeeps, RemovePauseFileKeeps, StopJobKeeps, AttachJobKeeps, WritePauseFileKeeps,
     WakeKeeps, RefuseKeeps, ResumeKeeps DEF UserStep
<1>3. ASSUME NEW q \in Users, NEW r \in Runs, Command(q, r) PROVE IInv'
  BY <1>3, CommandKeeps
<1>4. CASE UNCHANGED vars
  BY <1>4 DEF vars, run, jobs, IInv, TypeOK, LateOnce, RowsAt, JobSays, ReadingHolds, StopFile
<1> QED
  BY <1>1, <1>2, <1>3, <1>4 DEF Next

LEMMA IInvAlways == Spec => []IInv
<1> QED
  BY InitIInv, NextKeepsIInv, PTL DEF Spec

\* The variables have their types and every run that has begun has a row
\* (autopilot.rs, the autopilot_runs and background_jobs tables of the store).
THEOREM AutopilotTypeCorrect == Spec => []TypeOK
<1>1. IInv => TypeOK
  BY DEF IInv
<1> QED
  BY <1>1, IInvAlways, PTL

\* However many runs share the stop file and however many users give commands,
\* a run begins at most one iteration after the file appeared (run_autopilot).
THEOREM StopStopsAlways == Spec => []StopStops
<1>1. IInv => StopStops
  <2> SUFFICES ASSUME IInv, NEW r \in Runs PROVE late[r] <= 1
    BY DEF StopStops
  <2>1. late[r] \in 0..2 /\ (late[r] > 0 => late[r] = 1)
    BY DEF IInv, TypeOK, LateOnce
  <2> QED
    BY <2>1
<1> QED
  BY <1>1, IInvAlways, PTL

\* The rows say what the run does whenever it looks at its stop file, works or has
\* ended, however often users stop its job or attach to it (run_autopilot,
\* background stop, background attach).
THEOREM RowsFollowRunAlways == Spec => []RowsFollowRun
<1>1. IInv => RowsFollowRun
  <2> SUFFICES ASSUME IInv PROVE RowsFollowRun
    OBVIOUS
  <2>1. ASSUME NEW r \in Runs PROVE RowsAt(r) /\ told[r] \in BOOLEAN
    BY DEF IInv, TypeOK
  <2> QED
    BY <2>1 DEF RowsFollowRun, RowsAt, JobSays, At
<1> QED
  BY <1>1, IInvAlways, PTL

\* A resume starts a run beside the live one it names only if it has found that
\* run paused without its pause file (run_autopilot_resume).
THEOREM TwinsOnlyWhileWakingAlways == Spec => []TwinsOnlyWhileWaking
<1>1. IInv => TwinsOnlyWhileWaking
  <2> SUFFICES ASSUME IInv, NEW q \in Users, user[q].do = "start", Live(user[q].run)
      PROVE  user[q].copy.status = "paused"
    BY DEF TwinsOnlyWhileWaking, Doing
  <2>1. ReadingHolds(q) /\ user[q].copy.status \in Statuses
    BY DEF IInv, TypeOK, Row
  <2>2. pc[user[q].run] \notin Left
    BY DEF Live, Left, Before, Looping
  <2> QED
    BY <2>1, <2>2 DEF ReadingHolds, Statuses
<1> QED
  BY <1>1, IInvAlways, PTL

-----------------------------------------------------------------------------
(* Delegated runs: the inductive invariant *)

\* While the parent registers the job of its background child: the end of it, from the link on.
Linking == {"load", "link", "running"}
Registering == {"job", "started", "job again"} \cup Linking

\* The writes that record how the child has ended, by the parent or by the child.
Settling == {"settle task", "settle run", "settle job", "settle job event", "settle task event", "settle run event"}

\* The writes of task_stop after the kill.
Stopping == {"stop job", "stop task", "stop run", "stop job event", "stop task event"}

\* The writes of background stop after the kill.
StoppingJob == {"stop only job", "stop only job event"}

\* Where each process may be.
ParentPlaces == {"task", "run", "start", "wait", "promoted", "done"} \cup Registering \cup Settling
ChildPlaces == {"none", "thread", "working", "load", "done"} \cup Settling
StopperPlaces == {"idle", "load job", "kill", "kill only job", "update event"} \cup Stopping \cup StoppingJob

\* The values of the rows and of the loaded records.
Run == [status : {"none", "running", "completed", "failed", "stopped"}, output : BOOLEAN, error : BOOLEAN]
Task == [status : {"none", "in_progress", "running", "completed", "failed", "cancelled", "updated"},
         outcome : {"none", "answer", "error", "stop", "note"}]
Job == [status : {"none", "running", "completed", "failed", "stopped"}, pid : BOOLEAN]
Copy == [run : Run, job : Job]

\* The rows and copies have their types.
RowsOK ==
    /\ runRow \in Run /\ taskRow \in Task /\ jobRow \in Job
    /\ copies \in [Procs -> Copy]

\* The processes are where they may be, and one that records an ending knows it.
PlacesOK ==
    /\ DOMAIN at = Procs
    /\ at["parent"] \in ParentPlaces /\ at["child"] \in ChildPlaces
    /\ \A q \in Stoppers : at[q] \in StopperPlaces
    /\ ending \in [{"parent", "child"} -> {"open", "completed", "failed"}]
    /\ at["parent"] \in Settling => ending["parent"] # "open"
    /\ at["child"] \in {"load"} \cup Settling => ending["child"] # "open"

\* The history and the bounds.
CountsOK ==
    /\ past \subseteq {"promoted", "early", "answered", "kill", "kill only job", "attached", "cancelled", "updated"}
    /\ overlap \in BOOLEAN
    /\ ops \in 0..MaxOps /\ failures \in 0..MaxFailures
RunTypeOK == RowsOK /\ PlacesOK /\ CountsOK

\* Everything below is about executions in which nothing has failed.
NoFailure == failures = 0

\* Where the child is while the parent is at each of its places.
Together ==
    /\ at["parent"] \in {"task", "run", "start"} => at["child"] = "none"
    /\ at["parent"] \in Registering => at["child"] \notin {"none", "thread"}
    /\ at["parent"] = "wait" => at["child"] = "thread"
    /\ at["parent"] = "promoted" => at["child"] \in {"thread", "done"}
    /\ at["parent"] \in Settling => at["child"] \in {"none", "done"}
    /\ at["child"] = "thread" => at["parent"] \in {"wait", "promoted", "done"}
    /\ at["child"] \in {"working", "load"} \cup Settling => at["parent"] \in {"done"} \cup Registering

\* There is a job once its row was written, and nobody acts on a job before.
JobKnown ==
    /\ at["parent"] \in {"task", "run", "start", "job", "wait", "promoted"} \cup Settling => jobRow = NoJob
    /\ at["child"] \in {"none", "thread"} => jobRow = NoJob
    /\ at["parent"] \in Registering \ {"job"} => jobRow # NoJob
    /\ at["child"] \in {"working", "load"} \cup Settling /\ at["parent"] = "done" => jobRow # NoJob
    /\ \A q \in Stoppers : at[q] \notin {"idle", "load job", "update event"} => jobRow # NoJob
    /\ copies["child"].job # NoJob \/ at["child"] \in {"settle job", "settle job event"} => jobRow # NoJob

\* A process that settles or stops a job has loaded one.
CopiesKnown ==
    /\ copies["parent"].job = NoJob /\ at["parent"] \notin {"settle job", "settle job event"}
    /\ \A q \in Stoppers : at[q] \in {"kill", "kill only job", "stop job"} => copies[q].job # NoJob

\* Only one of the two records the ending, after it has happened.
Endings ==
    /\ ending["parent"] # "open" =>
          /\ ending["child"] = "open"
          /\ at["parent"] \in Settling \cup {"done"} /\ at["child"] \in {"none", "done"}
    /\ ending["child"] # "open" =>
          at["parent"] \in Registering \cup {"done"} /\ at["child"] \in {"load", "done"} \cup Settling

\* How the child has ended, whoever knows it.
Failed == ending["parent"] = "failed" \/ ending["child"] = "failed"
Completed == ending["parent"] = "completed" \/ ending["child"] = "completed"

\* While nobody has killed, cancelled or updated, an error stands only for a failure, and
\* a recorded answer is in the outcome of the task.
Answered ==
    "kill" \notin past /\ "cancelled" \notin past /\ "updated" \notin past =>
        /\ runRow.error => Failed
        /\ copies["parent"].run.error => Failed
        /\ "answered" \in past => Completed /\ taskRow.outcome = "answer"
        /\ \A q \in Stoppers : at[q] \notin Stopping

\* Nobody has stopped, cancelled or updated, and nothing has ended early.
Undisturbed ==
    /\ "kill" \notin past /\ "kill only job" \notin past
    /\ "cancelled" \notin past /\ "updated" \notin past /\ "early" \notin past

\* A recorded answer is then also the output of the run, or about to be.
OutputKept ==
    Undisturbed /\ "answered" \in past =>
        /\ at["child"] \notin {"working", "load", "settle task"}
        /\ runRow.output \/ at["parent"] = "settle run" \/ at["child"] = "settle run"

\* What is so while nothing has ended early: the child outlives the registration, and
\* stoppers begin to write when the parent has returned.
InOrder ==
    "early" \notin past =>
        /\ at["parent"] \in Registering => at["child"] \in {"working", "load"}
        /\ at["parent"] = "promoted" \/ (at["child"] = "thread" /\ at["parent"] # "wait") => "promoted" \in past
        /\ \A q \in Stoppers : at[q] \in Stopping \cup StoppingJob => at["parent"] = "done"
        /\ at["child"] \in {"settle task", "settle run", "settle job"} => copies["child"].job # NoJob

\* Stops that have still to write the run, and the job.
RunStops(q) == at[q] \in {"stop job", "stop task", "stop run"}
JobStops(q) == at[q] \in (Stopping \ {"stop task event"}) \cup StoppingJob

\* Once nobody will settle the run any more it is not running, except for the known reasons;
\* and the same for its job.
RunSettled ==
    /\ "early" \notin past /\ "promoted" \notin past /\ "kill only job" \notin past
    /\ at["parent"] = "done" /\ at["child"] \notin {"thread", "working", "load", "settle task", "settle run"}
    => runRow.status # "running" \/ \E q \in Stoppers : RunStops(q)
JobSettled ==
    /\ "early" \notin past /\ "attached" \notin past
    /\ at["parent"] = "done" /\ at["child"] \in {"settle task event", "settle run event", "done"}
    => jobRow.status # "running" \/ \E q \in Stoppers : JobStops(q)

\* Who is in the middle of its writes.
ParentWrites == at["parent"] \notin {"wait", "done"}
ChildWrites == at["child"] \notin {"none", "working", "thread", "done"}
StopperWrites(q) == at[q] # "idle"

\* No two processes are in the middle of their writes.
OneWriter ==
    /\ ParentWrites => ~ChildWrites
    /\ \A q \in Stoppers : StopperWrites(q) => ~ParentWrites /\ ~ChildWrites
    /\ \A q, o \in Stoppers : StopperWrites(q) /\ StopperWrites(o) => q = o

\* A child that works can be killed: its pid is in the row and in the copies.
Alive == at["child"] = "working"
PidKnown == Alive /\ at["parent"] \in Linking \cup {"done"} => jobRow.pid
Killing == \A q \in Stoppers : at[q] \in {"kill", "kill only job"} /\ Alive => copies[q].job.pid

\* A stop that writes, and a run that is stopped, come after parent and child.
StopsLast == \A q \in Stoppers : at[q] \in Stopping \cup StoppingJob => at["child"] = "done" /\ at["parent"] = "done"
StoppedLast == runRow.status = "stopped" => at["parent"] = "done" /\ at["child"] = "done"

\* What is so while no two processes have written at the same time.
Calm == ~overlap => OneWriter /\ PidKnown /\ Killing /\ StopsLast /\ StoppedLast

\* What the run and its task say of each other.
Open == runRow.status = "running" /\ taskRow.status \in {"in_progress", "running"}
Matching ==
    \/ Open
    \/ runRow.status = "stopped" /\ taskRow.status = "cancelled"
    \/ runRow.status \in {"completed", "failed"} /\ taskRow.status = runRow.status

\* What the rows say while the parent starts the child.
Starting ==
    /\ at["parent"] = "task" => runRow = NoRun
    /\ at["parent"] = "run" => runRow = NoRun /\ taskRow.status = "in_progress"
    /\ at["parent"] \in Registering \cup {"start", "wait", "promoted"} => Open

\* What a process that records the ending has already written.
Settles(p) ==
    /\ at[p] \in Settling \ {"settle task"} => taskRow.status = ending[p]
    /\ at[p] \in Settling \ {"settle task", "settle run"} => runRow.status = ending[p]

\* What a stop has already written.
Stops ==
    \A q \in Stoppers :
        /\ at[q] \in {"stop run", "stop job event", "stop task event"} => taskRow.status = "cancelled"
        /\ at[q] \in {"stop job event", "stop task event"} => runRow.status = "stopped"

\* The run and its task agree, except between the two writes of one process.
Matches ==
    runRow # NoRun =>
        \/ Matching
        \/ at["parent"] = "settle run" \/ at["child"] = "settle run"
        \/ \E q \in Stoppers : at[q] = "stop run"

\* What is so if moreover nobody has cancelled or updated the task alone.
Agreeing ==
    ~overlap /\ "cancelled" \notin past /\ "updated" \notin past =>
        Starting /\ Settles("parent") /\ Settles("child") /\ Stops /\ Matches

\* The inductive invariant.
Unfailed ==
    /\ Together /\ JobKnown /\ CopiesKnown /\ Endings
    /\ Answered /\ OutputKept /\ InOrder /\ RunSettled /\ JobSettled
    /\ Calm /\ Agreeing
RunInv == RunTypeOK /\ (NoFailure => Unfailed)

-----------------------------------------------------------------------------
(* Delegated runs: types *)

\* Which labels are in which sets of places.
LEMMA ParentLabels ==
    /\ "run" \in ParentPlaces /\ "start" \in ParentPlaces /\ "wait" \in ParentPlaces
    /\ "promoted" \in ParentPlaces /\ "done" \in ParentPlaces
    /\ Registering \subseteq ParentPlaces /\ Settling \subseteq ParentPlaces
  BY DEF ParentPlaces

\* The same for the child.
LEMMA ChildLabels ==
    /\ "thread" \in ChildPlaces /\ "working" \in ChildPlaces /\ "load" \in ChildPlaces /\ "done" \in ChildPlaces
    /\ Settling \subseteq ChildPlaces
  BY DEF ChildPlaces

\* The same for the stoppers.
LEMMA StopperLabels ==
    /\ "idle" \in StopperPlaces /\ "load job" \in StopperPlaces
    /\ "kill" \in StopperPlaces /\ "kill only job" \in StopperPlaces /\ "update event" \in StopperPlaces
    /\ Stopping \subseteq StopperPlaces /\ StoppingJob \subseteq StopperPlaces
  BY DEF StopperPlaces

\* The places of the registration.
LEMMA RegisteringLabels ==
    /\ "job" \in Registering /\ "started" \in Registering /\ "job again" \in Registering
    /\ "load" \in Linking /\ "link" \in Linking /\ "running" \in Linking /\ Linking \subseteq Registering
    /\ "task" \notin Registering /\ "run" \notin Registering /\ "start" \notin Registering /\ "wait" \notin Registering
    /\ "promoted" \notin Registering /\ "done" \notin Registering
    /\ "job" \notin Linking /\ "started" \notin Linking /\ "job again" \notin Linking
  BY DEF Registering, Linking

\* The places of the settlement.
LEMMA SettlingLabels ==
    /\ "settle task" \in Settling /\ "settle run" \in Settling /\ "settle job" \in Settling
    /\ "settle job event" \in Settling /\ "settle task event" \in Settling /\ "settle run event" \in Settling
    /\ "task" \notin Settling /\ "run" \notin Settling /\ "start" \notin Settling /\ "wait" \notin Settling
    /\ "promoted" \notin Settling /\ "done" \notin Settling /\ "none" \notin Settling /\ "thread" \notin Settling
    /\ "working" \notin Settling /\ "load" \notin Settling
    /\ Settling \cap Registering = {}
  BY DEF Settling, Registering, Linking

\* The places of the stops.
LEMMA StoppingLabels ==
    /\ "stop job" \in Stopping /\ "stop task" \in Stopping /\ "stop run" \in Stopping
    /\ "stop job event" \in Stopping /\ "stop task event" \in Stopping
    /\ "stop only job" \in StoppingJob /\ "stop only job event" \in StoppingJob
    /\ "idle" \notin Stopping /\ "load job" \notin Stopping /\ "kill" \notin Stopping /\ "kill only job" \notin Stopping
    /\ "idle" \notin StoppingJob /\ "load job" \notin StoppingJob
    /\ "kill" \notin StoppingJob /\ "kill only job" \notin StoppingJob
    /\ "update event" \notin Stopping /\ "update event" \notin StoppingJob
    /\ Stopping \cap StoppingJob = {}
  BY DEF Stopping, StoppingJob

\* Every step keeps the processes at their places (all handlers).
LEMMA PlacesStep ==
    ASSUME PlacesOK, Step
    PROVE  PlacesOK'
<1> USE SubagentRunsAssumption DEF Procs, IsAt, GoesTo, Terminated, Ends, Forget
<1> DOMAIN at = Procs /\ DOMAIN ending = {"parent", "child"}
  BY DEF PlacesOK
<1>1. (ParentFails \/ ParentEnds) \/ ChildEnds \/ (\E q \in Stoppers : StopperEnds(q)) => PlacesOK'
  <2>1. ASSUME ParentFails PROVE PlacesOK'
    <3>1. CASE GoesTo("parent", "settle task") /\ Ends("parent", "failed")
      BY <3>1, ParentLabels, SettlingLabels DEF PlacesOK
    <3>2. CASE GoesTo("parent", "done") /\ UNCHANGED ending
      BY <3>2, ParentLabels, SettlingLabels DEF PlacesOK
    <3> QED
      BY <2>1, <3>1, <3>2 DEF ParentFails
  <2>2. ASSUME ParentEnds PROVE PlacesOK'
    BY <2>2, ParentLabels, ChildLabels, SettlingLabels DEF ParentEnds, PlacesOK
  <2>3. ASSUME ChildEnds PROVE PlacesOK'
    BY <2>3, ChildLabels, SettlingLabels DEF ChildEnds, PlacesOK
  <2>4. ASSUME NEW q \in Stoppers, StopperEnds(q) PROVE PlacesOK'
    BY <2>4, StopperLabels DEF StopperEnds, PlacesOK
  <2> QED
    BY <2>1, <2>2, <2>3, <2>4
<1>2. ASSUME InsertTask PROVE PlacesOK'
  BY <1>2, ParentLabels, ChildLabels, SettlingLabels, RegisteringLabels DEF InsertTask, PlacesOK
<1>3. ASSUME InsertRun PROVE PlacesOK'
  BY <1>3, ParentLabels, ChildLabels, SettlingLabels, RegisteringLabels DEF InsertRun, PlacesOK
<1>4. ASSUME ThreadEnds PROVE PlacesOK'
  <2>1. CASE at["parent"] = "wait"
    BY <1>4, <2>1, <1>4, ParentLabels, ChildLabels, SettlingLabels DEF ThreadEnds, PlacesOK
  <2>2. CASE ~(at["parent"] = "wait")
    BY <1>4, <2>2, <1>4, ParentLabels, ChildLabels, SettlingLabels DEF ThreadEnds, PlacesOK
  <2> QED
    BY <2>1, <2>2
<1>5. ASSUME Promote PROVE PlacesOK'
  BY <1>5, ParentLabels, ChildLabels, SettlingLabels, RegisteringLabels DEF Promote, PlacesOK
<1>6. ASSUME Promoted PROVE PlacesOK'
  BY <1>6, ParentLabels, ChildLabels, SettlingLabels, RegisteringLabels DEF Promoted, PlacesOK
<1>7. ASSUME StartChild PROVE PlacesOK'
  BY <1>7, ParentLabels, ChildLabels, SettlingLabels, RegisteringLabels DEF StartChild, PlacesOK
<1>8. ASSUME InsertChildJob PROVE PlacesOK'
  BY <1>8, ParentLabels, ChildLabels, SettlingLabels, RegisteringLabels DEF InsertChildJob, PlacesOK
<1>9. ASSUME JobStarted PROVE PlacesOK'
  BY <1>9, ParentLabels, ChildLabels, SettlingLabels, RegisteringLabels DEF JobStarted, PlacesOK
<1>10. ASSUME InsertJobAgain PROVE PlacesOK'
  BY <1>10, ParentLabels, ChildLabels, SettlingLabels, RegisteringLabels DEF InsertJobAgain, PlacesOK
<1>11. ASSUME ParentLoads PROVE PlacesOK'
  BY <1>11, ParentLabels, ChildLabels, SettlingLabels, RegisteringLabels DEF ParentLoads, PlacesOK
<1>12. ASSUME ParentLinks PROVE PlacesOK'
  BY <1>12, ParentLabels, ChildLabels, SettlingLabels, RegisteringLabels DEF ParentLinks, PlacesOK
<1>13. ASSUME ParentReturns PROVE PlacesOK'
  BY <1>13, ParentLabels, ChildLabels, SettlingLabels, RegisteringLabels DEF ParentReturns, PlacesOK
<1>14. ASSUME ChildFinishes PROVE PlacesOK'
  BY <1>14, ChildLabels, SettlingLabels DEF ChildFinishes, PlacesOK
<1>15. ASSUME ChildLoads PROVE PlacesOK'
  BY <1>15, ChildLabels, SettlingLabels DEF ChildLoads, PlacesOK
<1>16. ASSUME SettleTask("parent") PROVE PlacesOK'
  BY <1>16, ParentLabels, ChildLabels, SettlingLabels, RegisteringLabels DEF SettleTask, PlacesOK
<1>17. ASSUME SettleTask("child") PROVE PlacesOK'
  BY <1>17, ChildLabels, SettlingLabels DEF SettleTask, PlacesOK
<1>18. ASSUME SettleRun("parent") PROVE PlacesOK'
  BY <1>18, ParentLabels, ChildLabels, SettlingLabels, RegisteringLabels DEF SettleRun, PlacesOK
<1>19. ASSUME SettleRun("child") PROVE PlacesOK'
  BY <1>19, ChildLabels, SettlingLabels DEF SettleRun, PlacesOK
<1>20. ASSUME SettleJob("parent") PROVE PlacesOK'
  BY <1>20, ParentLabels, ChildLabels, SettlingLabels, RegisteringLabels DEF SettleJob, PlacesOK
<1>21. ASSUME SettleJob("child") PROVE PlacesOK'
  BY <1>21, ChildLabels, SettlingLabels DEF SettleJob, PlacesOK
<1>22. ASSUME SettleJobEvent("parent") PROVE PlacesOK'
  BY <1>22, ParentLabels, ChildLabels, SettlingLabels, RegisteringLabels DEF SettleJobEvent, PlacesOK
<1>23. ASSUME SettleJobEvent("child") PROVE PlacesOK'
  BY <1>23, ChildLabels, SettlingLabels DEF SettleJobEvent, PlacesOK
<1>24. ASSUME SettleTaskEvent("parent") PROVE PlacesOK'
  BY <1>24, ParentLabels, ChildLabels, SettlingLabels, RegisteringLabels DEF SettleTaskEvent, PlacesOK
<1>25. ASSUME SettleTaskEvent("child") PROVE PlacesOK'
  BY <1>25, ChildLabels, SettlingLabels DEF SettleTaskEvent, PlacesOK
<1>26. ASSUME SettleRunEvent("parent") PROVE PlacesOK'
  BY <1>26, ParentLabels, ChildLabels, SettlingLabels, RegisteringLabels DEF SettleRunEvent, PlacesOK
<1>27. ASSUME SettleRunEvent("child") PROVE PlacesOK'
  BY <1>27, ChildLabels, SettlingLabels DEF SettleRunEvent, PlacesOK
<1>28. ASSUME NEW q \in Stoppers, StopLoads(q) PROVE PlacesOK'
  BY <1>28, StopperLabels, StoppingLabels DEF StopLoads, PlacesOK
<1>29. ASSUME NEW q \in Stoppers, StopLoadsJob(q) PROVE PlacesOK'
  <2>1. CASE jobRow = NoJob
    BY <1>29, <2>1, <1>29, StopperLabels DEF StopLoadsJob, PlacesOK
  <2>2. CASE ~(jobRow = NoJob)
    BY <1>29, <2>2, <1>29, StopperLabels DEF StopLoadsJob, PlacesOK
  <2> QED
    BY <2>1, <2>2
<1>30. ASSUME NEW q \in Stoppers, JobStopLoads(q) PROVE PlacesOK'
  BY <1>30, StopperLabels, StoppingLabels DEF JobStopLoads, PlacesOK
<1>31. ASSUME NEW q \in Stoppers,
              Kill(q, "kill", "stop job") \/ Kill(q, "kill only job", "stop only job")
       PROVE  PlacesOK'
  <2>1. CASE Kill(q, "kill", "stop job")
    BY <2>1, ChildLabels, StopperLabels, StoppingLabels, SettlingLabels DEF Kill, PlacesOK
  <2>2. CASE Kill(q, "kill only job", "stop only job")
    BY <2>2, ChildLabels, StopperLabels, StoppingLabels, SettlingLabels DEF Kill, PlacesOK
  <2> QED
    BY <1>31, <2>1, <2>2
<1>32. ASSUME NEW q \in Stoppers, StopChildJob(q) PROVE PlacesOK'
  BY <1>32, StopperLabels, StoppingLabels DEF StopChildJob, PlacesOK
<1>33. ASSUME NEW q \in Stoppers, StopTask(q) PROVE PlacesOK'
  BY <1>33, StopperLabels, StoppingLabels DEF StopTask, PlacesOK
<1>34. ASSUME NEW q \in Stoppers, StopRun(q) PROVE PlacesOK'
  BY <1>34, StopperLabels, StoppingLabels DEF StopRun, PlacesOK
<1>35. ASSUME NEW q \in Stoppers, StopJobEvent(q) PROVE PlacesOK'
  BY <1>35, StopperLabels, StoppingLabels DEF StopJobEvent, PlacesOK
<1>36. ASSUME NEW q \in Stoppers, StopTaskEvent(q) PROVE PlacesOK'
  BY <1>36, StopperLabels, StoppingLabels DEF StopTaskEvent, PlacesOK
<1>37. ASSUME NEW q \in Stoppers, StopOnlyJob(q) PROVE PlacesOK'
  BY <1>37, StopperLabels, StoppingLabels DEF StopOnlyJob, PlacesOK
<1>38. ASSUME Attach PROVE PlacesOK'
  BY <1>38 DEF Attach, PlacesOK
<1>39. ASSUME CancelTask PROVE PlacesOK'
  BY <1>39 DEF CancelTask, PlacesOK
<1>40. ASSUME NEW q \in Stoppers, UpdateTask(q) PROVE PlacesOK'
  BY <1>40, StopperLabels, StoppingLabels DEF UpdateTask, PlacesOK
<1>41. ASSUME NEW q \in Stoppers, UpdateTaskEvent(q) PROVE PlacesOK'
  BY <1>41, StopperLabels, StoppingLabels DEF UpdateTaskEvent, PlacesOK
<1> QED
  BY <1>1, <1>2, <1>3, <1>4, <1>5, <1>6, <1>7, <1>8, <1>9, <1>10, <1>11, <1>12, <1>13, <1>14, <1>15,
     <1>16, <1>17, <1>18, <1>19, <1>20, <1>21, <1>22, <1>23, <1>24, <1>25, <1>26, <1>27, <1>28, <1>29,
     <1>30, <1>31, <1>32, <1>33, <1>34, <1>35, <1>36, <1>37, <1>38, <1>39, <1>40, <1>41 DEF Step

\* What the handlers write has the type of its row.
LEMMA Values ==
    /\ NoRun \in Run /\ Running \in Run /\ \A e \in {"completed", "failed"} : Result(e) \in Run
    /\ \A r \in Run : [r EXCEPT !.status = "running"] \in Run /\ [r EXCEPT !.status = "stopped", !.error = TRUE] \in Run
    /\ NoTask \in Task /\ \A e \in {"completed", "failed"} : Answer(e) \in Task
    /\ [status |-> "in_progress", outcome |-> "none"] \in Task /\ [status |-> "running", outcome |-> "none"] \in Task
    /\ [status |-> "cancelled", outcome |-> "stop"] \in Task
    /\ \A o \in {"none", "note"} : [status |-> "updated", outcome |-> o] \in Task
    /\ \A t \in Task, e \in {"completed", "failed", "cancelled", "updated"} : [t EXCEPT !.status = e] \in Task
    /\ NoJob \in Job /\ NewJob \in Job /\ JobStopped \in Job /\ [status |-> "running", pid |-> FALSE] \in Job
    /\ \A j \in Job, e \in {"running", "completed", "failed", "stopped"} : [j EXCEPT !.status = e] \in Job
<1>1. NoRun \in Run /\ Running \in Run /\ \A e \in {"completed", "failed"} : Result(e) \in Run
  BY DEF Run, NoRun, Running, Result
<1>2. \A r \in Run : [r EXCEPT !.status = "running"] \in Run /\ [r EXCEPT !.status = "stopped", !.error = TRUE] \in Run
  BY DEF Run
<1>3. NoTask \in Task /\ \A e \in {"completed", "failed"} : Answer(e) \in Task
  BY DEF Task, NoTask, Answer
<1>4. /\ [status |-> "in_progress", outcome |-> "none"] \in Task /\ [status |-> "running", outcome |-> "none"] \in Task
      /\ [status |-> "cancelled", outcome |-> "stop"] \in Task
      /\ \A o \in {"none", "note"} : [status |-> "updated", outcome |-> o] \in Task
  BY DEF Task
<1>5. \A t \in Task, e \in {"completed", "failed", "cancelled", "updated"} : [t EXCEPT !.status = e] \in Task
  BY DEF Task
<1>6. NoJob \in Job /\ NewJob \in Job /\ JobStopped \in Job /\ [status |-> "running", pid |-> FALSE] \in Job
  BY DEF Job, NoJob, NewJob, JobStopped
<1>7. \A j \in Job, e \in {"running", "completed", "failed", "stopped"} : [j EXCEPT !.status = e] \in Job
  BY DEF Job
<1> QED
  BY <1>1, <1>2, <1>3, <1>4, <1>5, <1>6, <1>7

\* Loading and forgetting a record keeps the copies typed.
LEMMA Copies ==
    ASSUME copies \in [Procs -> Copy], NEW p \in Procs
    PROVE  /\ copies[p].run \in Run /\ copies[p].job \in Job
           /\ \A r \in Run : [copies EXCEPT ![p].run = r] \in [Procs -> Copy]
           /\ \A j \in Job : [copies EXCEPT ![p].job = j] \in [Procs -> Copy]
           /\ Forget(p) => copies' \in [Procs -> Copy]
<1>1. copies[p] \in Copy
  OBVIOUS
<1>2. copies[p].run \in Run /\ copies[p].job \in Job
  BY <1>1 DEF Copy
<1>3. /\ \A r \in Run : [copies[p] EXCEPT !.run = r] \in Copy
      /\ \A j \in Job : [copies[p] EXCEPT !.job = j] \in Copy
      /\ NoCopy \in Copy
  BY <1>1, Values DEF Copy, NoCopy
<1>4. \A c \in Copy : [copies EXCEPT ![p] = c] \in [Procs -> Copy]
  OBVIOUS
<1> QED
  BY <1>2, <1>3, <1>4 DEF Forget

\* Every step keeps rows and copies typed (all handlers).
LEMMA RowsStep ==
    ASSUME RowsOK, PlacesOK, Step
    PROVE  RowsOK'
<1> "parent" \in Procs /\ "child" \in Procs /\ Stoppers \subseteq Procs
  BY DEF Procs
<1>0. ASSUME NEW p \in {"parent", "child"}, at[p] \in Settling PROVE ending[p] \in {"completed", "failed"}
  <2>1. /\ ending["parent"] \in {"open", "completed", "failed"} /\ ending["child"] \in {"open", "completed", "failed"}
        /\ at["parent"] \in Settling => ending["parent"] # "open"
        /\ at["child"] \in Settling => ending["child"] # "open"
    BY DEF PlacesOK
  <2> QED
    BY <1>0, <2>1
<1>1. ASSUME InsertTask PROVE RowsOK'
  BY <1>1, Values, Copies, SettlingLabels DEF InsertTask, RowsOK, IsAt
<1>2. ASSUME InsertRun PROVE RowsOK'
  BY <1>2, Values, Copies, SettlingLabels DEF InsertRun, RowsOK, IsAt
<1>3. ASSUME ThreadEnds PROVE RowsOK'
  BY <1>3, Values, Copies, SettlingLabels DEF ThreadEnds, RowsOK, IsAt
<1>4. ASSUME Promote PROVE RowsOK'
  BY <1>4, Values, Copies, SettlingLabels DEF Promote, RowsOK, IsAt
<1>5. ASSUME Promoted PROVE RowsOK'
  BY <1>5, Values, Copies, SettlingLabels DEF Promoted, RowsOK, IsAt
<1>6. ASSUME StartChild PROVE RowsOK'
  BY <1>6, Values, Copies, SettlingLabels DEF StartChild, RowsOK, IsAt
<1>7. ASSUME InsertChildJob PROVE RowsOK'
  BY <1>7, Values, Copies, SettlingLabels DEF InsertChildJob, RowsOK, IsAt
<1>8. ASSUME JobStarted PROVE RowsOK'
  BY <1>8, Values, Copies, SettlingLabels DEF JobStarted, RowsOK, IsAt
<1>9. ASSUME InsertJobAgain PROVE RowsOK'
  BY <1>9, Values, Copies, SettlingLabels DEF InsertJobAgain, RowsOK, IsAt
<1>10. ASSUME ParentLoads PROVE RowsOK'
  BY <1>10, Values, Copies, SettlingLabels DEF ParentLoads, RowsOK, IsAt
<1>11. ASSUME ParentLinks PROVE RowsOK'
  BY <1>11, Values, Copies, SettlingLabels DEF ParentLinks, RowsOK, IsAt
<1>12. ASSUME ParentReturns PROVE RowsOK'
  BY <1>12, Values, Copies, SettlingLabels DEF ParentReturns, RowsOK, IsAt
<1>13. ASSUME ParentFails PROVE RowsOK'
  BY <1>13, Values, Copies, SettlingLabels DEF ParentFails, RowsOK, IsAt
<1>14. ASSUME ParentEnds PROVE RowsOK'
  BY <1>14, Values, Copies, SettlingLabels DEF ParentEnds, RowsOK, IsAt
<1>15. ASSUME ChildFinishes PROVE RowsOK'
  BY <1>15, Values, Copies, SettlingLabels DEF ChildFinishes, RowsOK, IsAt
<1>16. ASSUME ChildLoads PROVE RowsOK'
  BY <1>16, Values, Copies, SettlingLabels DEF ChildLoads, RowsOK, IsAt
<1>17. ASSUME ChildEnds PROVE RowsOK'
  BY <1>17, Values, Copies, SettlingLabels DEF ChildEnds, RowsOK, IsAt
<1>18. ASSUME NEW p \in {"parent", "child"}, SettleTask(p) PROVE RowsOK'
  BY <1>18, <1>0, Values, Copies, SettlingLabels DEF SettleTask, RowsOK, IsAt
<1>19. ASSUME NEW p \in {"parent", "child"}, SettleRun(p) PROVE RowsOK'
  BY <1>19, <1>0, Values, Copies, SettlingLabels DEF SettleRun, RowsOK, IsAt
<1>20. ASSUME NEW p \in {"parent", "child"}, SettleJob(p) PROVE RowsOK'
  BY <1>20, <1>0, Values, Copies, SettlingLabels DEF SettleJob, RowsOK, IsAt
<1>21. ASSUME NEW p \in {"parent", "child"}, SettleJobEvent(p) PROVE RowsOK'
  BY <1>21, Values, Copies, SettlingLabels DEF SettleJobEvent, RowsOK, IsAt
<1>22. ASSUME NEW p \in {"parent", "child"}, SettleTaskEvent(p) PROVE RowsOK'
  BY <1>22, <1>0, Values, Copies, SettlingLabels DEF SettleTaskEvent, RowsOK, IsAt
<1>23. ASSUME NEW p \in {"parent", "child"}, SettleRunEvent(p) PROVE RowsOK'
  BY <1>23, <1>0, Values, Copies, SettlingLabels DEF SettleRunEvent, RowsOK, IsAt
<1>24. ASSUME NEW q \in Stoppers, StopLoads(q) PROVE RowsOK'
  BY <1>24, Values, Copies, SettlingLabels DEF StopLoads, RowsOK, IsAt
<1>25. ASSUME NEW q \in Stoppers, StopLoadsJob(q) PROVE RowsOK'
  <2>1. CASE jobRow = NoJob
    BY <1>25, <2>1, Copies DEF StopLoadsJob, RowsOK
  <2>2. CASE jobRow # NoJob
    <3>1. copies' = [copies EXCEPT ![q].job = jobRow] /\ UNCHANGED <<runRow, taskRow, jobRow>>
      BY <1>25, <2>2 DEF StopLoadsJob
    <3> QED
      BY <3>1, Copies DEF RowsOK
  <2> QED
    BY <2>1, <2>2
<1>26. ASSUME NEW q \in Stoppers, JobStopLoads(q) PROVE RowsOK'
  BY <1>26, Values, Copies, SettlingLabels DEF JobStopLoads, RowsOK, IsAt
<1>27. ASSUME NEW q \in Stoppers,
              Kill(q, "kill", "stop job") \/ Kill(q, "kill only job", "stop only job")
       PROVE  RowsOK'
  BY <1>27, Values, Copies, SettlingLabels DEF Kill, RowsOK, IsAt
<1>28. ASSUME NEW q \in Stoppers, StopChildJob(q) PROVE RowsOK'
  BY <1>28, Values, Copies, SettlingLabels DEF StopChildJob, RowsOK, IsAt
<1>29. ASSUME NEW q \in Stoppers, StopTask(q) PROVE RowsOK'
  BY <1>29, Values, Copies, SettlingLabels DEF StopTask, RowsOK, IsAt
<1>30. ASSUME NEW q \in Stoppers, StopRun(q) PROVE RowsOK'
  BY <1>30, Values, Copies, SettlingLabels DEF StopRun, RowsOK, IsAt
<1>31. ASSUME NEW q \in Stoppers, StopJobEvent(q) PROVE RowsOK'
  BY <1>31, Values, Copies, SettlingLabels DEF StopJobEvent, RowsOK, IsAt
<1>32. ASSUME NEW q \in Stoppers, StopTaskEvent(q) PROVE RowsOK'
  BY <1>32, Values, Copies, SettlingLabels DEF StopTaskEvent, RowsOK, IsAt
<1>33. ASSUME NEW q \in Stoppers, StopOnlyJob(q) PROVE RowsOK'
  BY <1>33, Values, Copies, SettlingLabels DEF StopOnlyJob, RowsOK, IsAt
<1>34. ASSUME NEW q \in Stoppers, StopperEnds(q) PROVE RowsOK'
  BY <1>34, Values, Copies, SettlingLabels DEF StopperEnds, RowsOK, IsAt
<1>35. ASSUME Attach PROVE RowsOK'
  BY <1>35, Values, Copies, SettlingLabels DEF Attach, RowsOK, IsAt
<1>36. ASSUME CancelTask PROVE RowsOK'
  BY <1>36, Values, Copies, SettlingLabels DEF CancelTask, RowsOK, IsAt
<1>37. ASSUME NEW q \in Stoppers, UpdateTask(q) PROVE RowsOK'
  BY <1>37, Values, Copies, SettlingLabels DEF UpdateTask, RowsOK, IsAt
<1>38. ASSUME NEW q \in Stoppers, UpdateTaskEvent(q) PROVE RowsOK'
  BY <1>38, Values, Copies, SettlingLabels DEF UpdateTaskEvent, RowsOK, IsAt
<1> QED
  BY <1>1, <1>2, <1>3, <1>4, <1>5, <1>6, <1>7, <1>8, <1>9, <1>10, <1>11, <1>12, <1>13, <1>14, <1>15,
     <1>16, <1>17, <1>18, <1>19, <1>20, <1>21, <1>22, <1>23, <1>24, <1>25, <1>26, <1>27, <1>28, <1>29,
     <1>30, <1>31, <1>32, <1>33, <1>34, <1>35, <1>36, <1>37, <1>38 DEF Step

\* A failure, and a request, stay within their bounds.
LEMMA Failing ==
    ASSUME failures \in 0..MaxFailures, MayFail PROVE failures' \in 0..MaxFailures
  BY SubagentRunsAssumption DEF MayFail

\* A request stays within its bound.
LEMMA Acting ==
    ASSUME ops \in 0..MaxOps, Act PROVE ops' \in 0..MaxOps
  BY SubagentRunsAssumption DEF Act

\* Every step keeps the history and the counts typed (all handlers).
LEMMA CountsStep ==
    ASSUME CountsOK, Step, overlap' \in BOOLEAN
    PROVE  CountsOK'
<1>1. ASSUME InsertTask PROVE CountsOK'
  BY <1>1, Failing, Acting DEF InsertTask, CountsOK
<1>2. ASSUME InsertRun PROVE CountsOK'
  BY <1>2, Failing, Acting DEF InsertRun, CountsOK
<1>3. ASSUME ThreadEnds PROVE CountsOK'
  BY <1>3, Failing, Acting DEF ThreadEnds, CountsOK
<1>4. ASSUME Promote PROVE CountsOK'
  BY <1>4, Failing, Acting DEF Promote, CountsOK
<1>5. ASSUME Promoted PROVE CountsOK'
  BY <1>5, Failing, Acting DEF Promoted, CountsOK
<1>6. ASSUME StartChild PROVE CountsOK'
  BY <1>6, Failing, Acting DEF StartChild, CountsOK
<1>7. ASSUME InsertChildJob PROVE CountsOK'
  BY <1>7, Failing, Acting DEF InsertChildJob, CountsOK
<1>8. ASSUME JobStarted PROVE CountsOK'
  BY <1>8, Failing, Acting DEF JobStarted, CountsOK
<1>9. ASSUME InsertJobAgain PROVE CountsOK'
  BY <1>9, Failing, Acting DEF InsertJobAgain, CountsOK
<1>10. ASSUME ParentLoads PROVE CountsOK'
  BY <1>10, Failing, Acting DEF ParentLoads, CountsOK
<1>11. ASSUME ParentLinks PROVE CountsOK'
  BY <1>11, Failing, Acting DEF ParentLinks, CountsOK
<1>12. ASSUME ParentReturns PROVE CountsOK'
  BY <1>12, Failing, Acting DEF ParentReturns, CountsOK
<1>13. ASSUME ParentFails PROVE CountsOK'
  BY <1>13, Failing, Acting DEF ParentFails, CountsOK
<1>14. ASSUME ParentEnds PROVE CountsOK'
  BY <1>14, Failing, Acting DEF ParentEnds, CountsOK
<1>15. ASSUME ChildFinishes PROVE CountsOK'
  BY <1>15, Failing, Acting DEF ChildFinishes, CountsOK
<1>16. ASSUME ChildLoads PROVE CountsOK'
  BY <1>16, Failing, Acting DEF ChildLoads, Early, CountsOK
<1>17. ASSUME ChildEnds PROVE CountsOK'
  BY <1>17, Failing, Acting DEF ChildEnds, CountsOK
<1>18. ASSUME NEW p \in {"parent", "child"}, SettleTask(p) PROVE CountsOK'
  BY <1>18, Failing, Acting DEF SettleTask, CountsOK
<1>19. ASSUME NEW p \in {"parent", "child"}, SettleRun(p) PROVE CountsOK'
  BY <1>19, Failing, Acting DEF SettleRun, CountsOK
<1>20. ASSUME NEW p \in {"parent", "child"}, SettleJob(p) PROVE CountsOK'
  BY <1>20, Failing, Acting DEF SettleJob, CountsOK
<1>21. ASSUME NEW p \in {"parent", "child"}, SettleJobEvent(p) PROVE CountsOK'
  BY <1>21, Failing, Acting DEF SettleJobEvent, CountsOK
<1>22. ASSUME NEW p \in {"parent", "child"}, SettleTaskEvent(p) PROVE CountsOK'
  BY <1>22, Failing, Acting DEF SettleTaskEvent, CountsOK
<1>23. ASSUME NEW p \in {"parent", "child"}, SettleRunEvent(p) PROVE CountsOK'
  BY <1>23, Failing, Acting DEF SettleRunEvent, CountsOK
<1>24. ASSUME NEW q \in Stoppers, StopLoads(q) PROVE CountsOK'
  BY <1>24, Failing, Acting DEF StopLoads, CountsOK
<1>25. ASSUME NEW q \in Stoppers, StopLoadsJob(q) PROVE CountsOK'
  BY <1>25, Failing, Acting DEF StopLoadsJob, CountsOK
<1>26. ASSUME NEW q \in Stoppers, JobStopLoads(q) PROVE CountsOK'
  BY <1>26, Failing, Acting DEF JobStopLoads, CountsOK
<1>27. ASSUME NEW q \in Stoppers,
              Kill(q, "kill", "stop job") \/ Kill(q, "kill only job", "stop only job")
       PROVE  CountsOK'
  BY <1>27, Failing, Acting DEF Kill, Early, CountsOK
<1>28. ASSUME NEW q \in Stoppers, StopChildJob(q) PROVE CountsOK'
  BY <1>28, Failing, Acting DEF StopChildJob, CountsOK
<1>29. ASSUME NEW q \in Stoppers, StopTask(q) PROVE CountsOK'
  BY <1>29, Failing, Acting DEF StopTask, CountsOK
<1>30. ASSUME NEW q \in Stoppers, StopRun(q) PROVE CountsOK'
  BY <1>30, Failing, Acting DEF StopRun, CountsOK
<1>31. ASSUME NEW q \in Stoppers, StopJobEvent(q) PROVE CountsOK'
  BY <1>31, Failing, Acting DEF StopJobEvent, CountsOK
<1>32. ASSUME NEW q \in Stoppers, StopTaskEvent(q) PROVE CountsOK'
  BY <1>32, Failing, Acting DEF StopTaskEvent, CountsOK
<1>33. ASSUME NEW q \in Stoppers, StopOnlyJob(q) PROVE CountsOK'
  BY <1>33, Failing, Acting DEF StopOnlyJob, CountsOK
<1>34. ASSUME NEW q \in Stoppers, StopperEnds(q) PROVE CountsOK'
  BY <1>34, Failing, Acting DEF StopperEnds, CountsOK
<1>35. ASSUME Attach PROVE CountsOK'
  BY <1>35, Failing, Acting DEF Attach, CountsOK
<1>36. ASSUME CancelTask PROVE CountsOK'
  BY <1>36, Failing, Acting DEF CancelTask, CountsOK
<1>37. ASSUME NEW q \in Stoppers, UpdateTask(q) PROVE CountsOK'
  BY <1>37, Failing, Acting DEF UpdateTask, CountsOK
<1>38. ASSUME NEW q \in Stoppers, UpdateTaskEvent(q) PROVE CountsOK'
  BY <1>38, Failing, Acting DEF UpdateTaskEvent, CountsOK
<1> QED
  BY <1>1, <1>2, <1>3, <1>4, <1>5, <1>6, <1>7, <1>8, <1>9, <1>10, <1>11, <1>12, <1>13, <1>14, <1>15,
     <1>16, <1>17, <1>18, <1>19, <1>20, <1>21, <1>22, <1>23, <1>24, <1>25, <1>26, <1>27, <1>28, <1>29,
     <1>30, <1>31, <1>32, <1>33, <1>34, <1>35, <1>36, <1>37, <1>38 DEF Step

\* A step counts its failure.
LEMMA FailuresStep == ASSUME Step PROVE UNCHANGED failures \/ MayFail
  BY DEF Step, InsertTask, InsertRun, ThreadEnds, Promote, Promoted, StartChild, InsertChildJob,
     JobStarted, InsertJobAgain, ParentLoads, ParentLinks, ParentReturns, ChildFinishes, ChildLoads,
     SettleTask, SettleRun, SettleJob, SettleJobEvent, SettleTaskEvent, SettleRunEvent, StopLoads,
     StopLoadsJob, JobStopLoads, Kill, StopChildJob, StopTask, StopRun, StopJobEvent, StopTaskEvent,
     StopOnlyJob, Attach, UpdateTask, UpdateTaskEvent, CancelTask, ParentFails, ParentEnds, ChildEnds, StopperEnds

\* If nothing has failed after a step, nothing had before and the step was none of the failures.
LEMMA NothingFails ==
    ASSUME CountsOK, Step, NoFailure'
    PROVE  NoFailure /\ ~MayFail
<1>a. failures \in 0..MaxFailures /\ MaxFailures \in Nat
  BY SubagentRunsAssumption DEF CountsOK
<1>1. failures \in Nat
  BY <1>a
<1>2. ~MayFail
  BY <1>1 DEF MayFail, NoFailure
<1> QED
  BY <1>2, FailuresStep DEF NoFailure

-----------------------------------------------------------------------------
(* Delegated runs: parent, child and job *)

\* A row that was written once is no longer the missing row.
LEMMA JobValues ==
    /\ NewJob # NoJob /\ JobStopped # NoJob /\ [status |-> "running", pid |-> FALSE] # NoJob
    /\ \A j \in Job, e \in {"running", "completed", "failed", "stopped"} : [j EXCEPT !.status = e] # NoJob
    /\ NoCopy.job = NoJob /\ NoCopy.run = NoRun /\ NoJob.status = "none"
<1>1. NewJob # NoJob /\ JobStopped # NoJob /\ [status |-> "running", pid |-> FALSE] # NoJob
  BY DEF NewJob, NoJob, JobStopped
<1>2. ASSUME NEW j \in Job, NEW e \in {"running", "completed", "failed", "stopped"}
      PROVE  [j EXCEPT !.status = e] # NoJob
  <2>1. [j EXCEPT !.status = e].status = e
    BY DEF Job
  <2> QED
    BY <2>1 DEF NoJob
<1> QED
  BY <1>1, <1>2 DEF NoCopy, NoJob

\* Every step without a failure keeps parent and child in step (spawn_task, the background worker).
LEMMA TogetherStep ==
    ASSUME PlacesOK, ~MayFail, Together, JobKnown, Endings, Step
    PROVE  Together'
<1> USE SubagentRunsAssumption DEF Procs, IsAt, GoesTo, Terminated, Ends, Forget
<1> DOMAIN at = Procs /\ DOMAIN ending = {"parent", "child"}
  BY DEF PlacesOK
<1>1. ~ParentFails /\ ~ParentEnds /\ ~ChildEnds /\ \A q \in Stoppers : ~StopperEnds(q)
  BY DEF ParentFails, ParentEnds, ChildEnds, StopperEnds
<1>2. ASSUME InsertTask PROVE Together'
  BY <1>2, RegisteringLabels, SettlingLabels DEF InsertTask, Together
<1>3. ASSUME InsertRun PROVE Together'
  BY <1>3, RegisteringLabels, SettlingLabels DEF InsertRun, Together
<1>4. ASSUME ThreadEnds PROVE Together'
  BY <1>4, RegisteringLabels, SettlingLabels DEF ThreadEnds, Together
<1>5. ASSUME Promote PROVE Together'
  BY <1>5, RegisteringLabels, SettlingLabels DEF Promote, Together
<1>6. ASSUME Promoted PROVE Together'
  BY <1>6, RegisteringLabels, SettlingLabels DEF Promoted, Together
<1>7. ASSUME StartChild PROVE Together'
  BY <1>7, RegisteringLabels, SettlingLabels DEF StartChild, Together
<1>8. ASSUME InsertChildJob PROVE Together'
  BY <1>8, RegisteringLabels, SettlingLabels DEF InsertChildJob, Together
<1>9. ASSUME JobStarted PROVE Together'
  BY <1>9, RegisteringLabels, SettlingLabels DEF JobStarted, Together
<1>10. ASSUME InsertJobAgain PROVE Together'
  BY <1>10, RegisteringLabels, SettlingLabels DEF InsertJobAgain, Together
<1>11. ASSUME ParentLoads PROVE Together'
  BY <1>11, RegisteringLabels, SettlingLabels DEF ParentLoads, Together
<1>12. ASSUME ParentLinks PROVE Together'
  BY <1>12, RegisteringLabels, SettlingLabels DEF ParentLinks, Together
<1>13. ASSUME ParentReturns PROVE Together'
  BY <1>13, RegisteringLabels, SettlingLabels DEF ParentReturns, Together
<1>14. ASSUME ChildFinishes PROVE Together'
  BY <1>14, RegisteringLabels, SettlingLabels DEF ChildFinishes, Together
<1>15. ASSUME ChildLoads PROVE Together'
  BY <1>15, RegisteringLabels, SettlingLabels DEF ChildLoads, Together
<1>16. ASSUME SettleTask("parent") PROVE Together'
  BY <1>16, RegisteringLabels, SettlingLabels DEF SettleTask, Together
<1>17. ASSUME SettleTask("child") PROVE Together'
  BY <1>17, RegisteringLabels, SettlingLabels DEF SettleTask, Together
<1>18. ASSUME SettleRun("parent") PROVE Together'
  BY <1>18, RegisteringLabels, SettlingLabels DEF SettleRun, Together
<1>19. ASSUME SettleRun("child") PROVE Together'
  BY <1>19, RegisteringLabels, SettlingLabels DEF SettleRun, Together
<1>20. ASSUME SettleJob("parent") PROVE Together'
  BY <1>20, RegisteringLabels, SettlingLabels DEF SettleJob, Together
<1>21. ASSUME SettleJob("child") PROVE Together'
  BY <1>21, RegisteringLabels, SettlingLabels DEF SettleJob, Together
<1>22. ASSUME SettleJobEvent("parent") PROVE Together'
  BY <1>22, RegisteringLabels, SettlingLabels DEF SettleJobEvent, Together
<1>23. ASSUME SettleJobEvent("child") PROVE Together'
  BY <1>23, RegisteringLabels, SettlingLabels DEF SettleJobEvent, Together
<1>24. ASSUME SettleTaskEvent("parent") PROVE Together'
  BY <1>24, RegisteringLabels, SettlingLabels DEF SettleTaskEvent, Together
<1>25. ASSUME SettleTaskEvent("child") PROVE Together'
  BY <1>25, RegisteringLabels, SettlingLabels DEF SettleTaskEvent, Together
<1>26. ASSUME SettleRunEvent("parent") PROVE Together'
  BY <1>26, RegisteringLabels, SettlingLabels DEF SettleRunEvent, Together
<1>27. ASSUME SettleRunEvent("child") PROVE Together'
  BY <1>27, RegisteringLabels, SettlingLabels DEF SettleRunEvent, Together
<1>28. ASSUME NEW q \in Stoppers, StopLoads(q) PROVE Together'
  BY <1>28, RegisteringLabels, SettlingLabels DEF StopLoads, Together
<1>29. ASSUME NEW q \in Stoppers, StopLoadsJob(q) PROVE Together'
  BY <1>29, RegisteringLabels, SettlingLabels DEF StopLoadsJob, Together
<1>30. ASSUME NEW q \in Stoppers, JobStopLoads(q) PROVE Together'
  BY <1>30, RegisteringLabels, SettlingLabels DEF JobStopLoads, Together
<1>31. ASSUME NEW q \in Stoppers,
              Kill(q, "kill", "stop job") \/ Kill(q, "kill only job", "stop only job")
       PROVE  Together'
  BY <1>31, RegisteringLabels, SettlingLabels DEF Kill, Together
<1>32. ASSUME NEW q \in Stoppers, StopChildJob(q) PROVE Together'
  BY <1>32, RegisteringLabels, SettlingLabels DEF StopChildJob, Together
<1>33. ASSUME NEW q \in Stoppers, StopTask(q) PROVE Together'
  BY <1>33, RegisteringLabels, SettlingLabels DEF StopTask, Together
<1>34. ASSUME NEW q \in Stoppers, StopRun(q) PROVE Together'
  BY <1>34, RegisteringLabels, SettlingLabels DEF StopRun, Together
<1>35. ASSUME NEW q \in Stoppers, StopJobEvent(q) PROVE Together'
  BY <1>35, RegisteringLabels, SettlingLabels DEF StopJobEvent, Together
<1>36. ASSUME NEW q \in Stoppers, StopTaskEvent(q) PROVE Together'
  BY <1>36, RegisteringLabels, SettlingLabels DEF StopTaskEvent, Together
<1>37. ASSUME NEW q \in Stoppers, StopOnlyJob(q) PROVE Together'
  BY <1>37, RegisteringLabels, SettlingLabels DEF StopOnlyJob, Together
<1>38. ASSUME Attach PROVE Together'
  BY <1>38, RegisteringLabels, SettlingLabels DEF Attach, Together
<1>39. ASSUME CancelTask PROVE Together'
  BY <1>39, RegisteringLabels, SettlingLabels DEF CancelTask, Together
<1>40. ASSUME NEW q \in Stoppers, UpdateTask(q) PROVE Together'
  BY <1>40, RegisteringLabels, SettlingLabels DEF UpdateTask, Together
<1>41. ASSUME NEW q \in Stoppers, UpdateTaskEvent(q) PROVE Together'
  BY <1>41, RegisteringLabels, SettlingLabels DEF UpdateTaskEvent, Together
<1> QED
  BY <1>1, <1>2, <1>3, <1>4, <1>5, <1>6, <1>7, <1>8, <1>9, <1>10, <1>11, <1>12, <1>13, <1>14, <1>15,
     <1>16, <1>17, <1>18, <1>19, <1>20, <1>21, <1>22, <1>23, <1>24, <1>25, <1>26, <1>27, <1>28, <1>29,
     <1>30, <1>31, <1>32, <1>33, <1>34, <1>35, <1>36, <1>37, <1>38, <1>39, <1>40, <1>41 DEF Step

\* Every step without a failure keeps what is known of the job (spawn_task, background stop and attach).
LEMMA JobKnownStep ==
    ASSUME RowsOK, PlacesOK, ~MayFail, Together, JobKnown, CopiesKnown, Endings, Step
    PROVE  JobKnown'
<1> USE SubagentRunsAssumption DEF Procs, IsAt, GoesTo, Terminated, Ends, Forget
<1> DOMAIN at = Procs /\ DOMAIN ending = {"parent", "child"}
  BY DEF PlacesOK
<1> DOMAIN copies = Procs /\ \A p \in Procs : copies[p] \in Copy
  BY DEF RowsOK
<1> \A c \in Copy : DOMAIN c = {"run", "job"}
  BY DEF Copy
<1>1. ~ParentFails /\ ~ParentEnds /\ ~ChildEnds /\ \A q \in Stoppers : ~StopperEnds(q)
  BY DEF ParentFails, ParentEnds, ChildEnds, StopperEnds
<1>2. ASSUME InsertTask PROVE JobKnown'
  BY <1>2, RegisteringLabels, SettlingLabels, JobValues DEF InsertTask, JobKnown
<1>3. ASSUME InsertRun PROVE JobKnown'
  BY <1>3, RegisteringLabels, SettlingLabels, JobValues DEF InsertRun, JobKnown
<1>4. ASSUME ThreadEnds PROVE JobKnown'
  BY <1>4, RegisteringLabels, SettlingLabels, JobValues DEF ThreadEnds, Together, JobKnown
<1>5. ASSUME Promote PROVE JobKnown'
  BY <1>5, RegisteringLabels, SettlingLabels, JobValues DEF Promote, JobKnown
<1>6. ASSUME Promoted PROVE JobKnown'
  BY <1>6, RegisteringLabels, SettlingLabels, JobValues DEF Promoted, Together, JobKnown
<1>7. ASSUME StartChild PROVE JobKnown'
  BY <1>7, RegisteringLabels, SettlingLabels, JobValues DEF StartChild, Together, JobKnown
<1>8. ASSUME InsertChildJob PROVE JobKnown'
  BY <1>8, RegisteringLabels, SettlingLabels, JobValues DEF InsertChildJob, Together, JobKnown
<1>9. ASSUME JobStarted PROVE JobKnown'
  BY <1>9, RegisteringLabels, SettlingLabels, JobValues DEF JobStarted, JobKnown
<1>10. ASSUME InsertJobAgain PROVE JobKnown'
  BY <1>10, RegisteringLabels, SettlingLabels, JobValues DEF InsertJobAgain, JobKnown
<1>11. ASSUME ParentLoads PROVE JobKnown'
  <2>1. jobRow' = jobRow /\ jobRow # NoJob
    BY <1>11, RegisteringLabels DEF ParentLoads, JobKnown
  <2>2. at'["parent"] \notin {"task", "run", "start", "job", "wait", "promoted"} \cup Settling
    BY <1>11, RegisteringLabels, SettlingLabels DEF ParentLoads
  <2>3. at["child"] \notin {"none", "thread"} /\ at'["child"] = at["child"]
    BY <1>11, RegisteringLabels DEF ParentLoads, Together
  <2> QED
    BY <2>1, <2>2, <2>3 DEF JobKnown
<1>12. ASSUME ParentLinks PROVE JobKnown'
  <2>1. jobRow' = jobRow /\ jobRow # NoJob
    BY <1>12, RegisteringLabels DEF ParentLinks, JobKnown
  <2>2. at'["parent"] \notin {"task", "run", "start", "job", "wait", "promoted"} \cup Settling
    BY <1>12, RegisteringLabels, SettlingLabels DEF ParentLinks
  <2>3. at["child"] \notin {"none", "thread"} /\ at'["child"] = at["child"]
    BY <1>12, RegisteringLabels DEF ParentLinks, Together
  <2> QED
    BY <2>1, <2>2, <2>3 DEF JobKnown
<1>13. ASSUME ParentReturns PROVE JobKnown'
  <2>1. jobRow' = jobRow /\ jobRow # NoJob
    BY <1>13, RegisteringLabels DEF ParentReturns, JobKnown
  <2>2. at'["parent"] \notin {"task", "run", "start", "job", "wait", "promoted"} \cup Settling
    BY <1>13, RegisteringLabels, SettlingLabels DEF ParentReturns
  <2>3. at["child"] \notin {"none", "thread"} /\ at'["child"] = at["child"]
    BY <1>13, RegisteringLabels DEF ParentReturns, Together
  <2> QED
    BY <2>1, <2>2, <2>3 DEF JobKnown
<1>14. ASSUME ChildFinishes PROVE JobKnown'
  BY <1>14, RegisteringLabels, SettlingLabels, JobValues DEF ChildFinishes, JobKnown
<1>15. ASSUME ChildLoads PROVE JobKnown'
  <2>1. copies'["child"].job = jobRow
    BY <1>15 DEF ChildLoads
  <2> QED
    BY <1>15, <2>1, RegisteringLabels, SettlingLabels DEF ChildLoads, JobKnown
<1>16. ASSUME SettleTask("parent") PROVE JobKnown'
  BY <1>16, RegisteringLabels, SettlingLabels, JobValues DEF SettleTask, JobKnown
<1>17. ASSUME SettleTask("child") PROVE JobKnown'
  BY <1>17, RegisteringLabels, SettlingLabels, JobValues DEF SettleTask, JobKnown
<1>18. ASSUME SettleRun("parent") PROVE JobKnown'
  BY <1>18, RegisteringLabels, SettlingLabels, JobValues DEF SettleRun, CopiesKnown, JobKnown
<1>19. ASSUME SettleRun("child") PROVE JobKnown'
  BY <1>19, RegisteringLabels, SettlingLabels, JobValues DEF SettleRun, CopiesKnown, JobKnown
<1>20. ASSUME SettleJob("parent") PROVE JobKnown'
  BY <1>20, Copies, RegisteringLabels, SettlingLabels, JobValues DEF SettleJob, RowsOK, CopiesKnown, JobKnown
<1>21. ASSUME SettleJob("child") PROVE JobKnown'
  <2>1. copies["child"].job \in Job /\ ending["child"] \in {"completed", "failed"}
    <3>1. at["child"] \in Settling /\ "child" \in Procs
      BY <1>21, SettlingLabels DEF SettleJob
    <3>2. ending["child"] \in {"open", "completed", "failed"} /\ ending["child"] # "open"
      BY <3>1 DEF PlacesOK
    <3> QED
      BY <3>1, <3>2, Copies DEF RowsOK
  <2>2. jobRow # NoJob /\ jobRow' # NoJob
    BY <1>21, <2>1, JobValues DEF SettleJob, JobKnown
  <2> QED
    BY <1>21, <2>2, RegisteringLabels, SettlingLabels, JobValues DEF SettleJob, JobKnown
<1>22. ASSUME SettleJobEvent("parent") PROVE JobKnown'
  BY <1>22, RegisteringLabels, SettlingLabels, JobValues DEF SettleJobEvent, CopiesKnown, JobKnown
<1>23. ASSUME SettleJobEvent("child") PROVE JobKnown'
  BY <1>23, RegisteringLabels, SettlingLabels, JobValues DEF SettleJobEvent, CopiesKnown, JobKnown
<1>24. ASSUME SettleTaskEvent("parent") PROVE JobKnown'
  BY <1>24, RegisteringLabels, SettlingLabels, JobValues DEF SettleTaskEvent, JobKnown
<1>25. ASSUME SettleTaskEvent("child") PROVE JobKnown'
  BY <1>25, RegisteringLabels, SettlingLabels, JobValues DEF SettleTaskEvent, JobKnown
<1>26. ASSUME SettleRunEvent("parent") PROVE JobKnown'
  BY <1>26, RegisteringLabels, SettlingLabels, JobValues DEF SettleRunEvent, Together, JobKnown
<1>27. ASSUME SettleRunEvent("child") PROVE JobKnown'
  BY <1>27, RegisteringLabels, SettlingLabels, JobValues DEF SettleRunEvent, Together, JobKnown
<1>28. ASSUME NEW q \in Stoppers, StopLoads(q) PROVE JobKnown'
  BY <1>28, RegisteringLabels, SettlingLabels, JobValues DEF StopLoads, JobKnown
<1>29. ASSUME NEW q \in Stoppers, StopLoadsJob(q) PROVE JobKnown'
  BY <1>29, RegisteringLabels, SettlingLabels, JobValues DEF StopLoadsJob, JobKnown
<1>30. ASSUME NEW q \in Stoppers, JobStopLoads(q) PROVE JobKnown'
  BY <1>30, RegisteringLabels, SettlingLabels, JobValues DEF JobStopLoads, JobKnown
<1>31. ASSUME NEW q \in Stoppers,
              Kill(q, "kill", "stop job") \/ Kill(q, "kill only job", "stop only job")
       PROVE  JobKnown'
  BY <1>31, RegisteringLabels, SettlingLabels, JobValues DEF Kill, JobKnown
<1>32. ASSUME NEW q \in Stoppers, StopChildJob(q) PROVE JobKnown'
  BY <1>32, Copies, RegisteringLabels, SettlingLabels, JobValues DEF StopChildJob, RowsOK, JobKnown
<1>33. ASSUME NEW q \in Stoppers, StopTask(q) PROVE JobKnown'
  BY <1>33, RegisteringLabels, SettlingLabels, JobValues DEF StopTask, JobKnown
<1>34. ASSUME NEW q \in Stoppers, StopRun(q) PROVE JobKnown'
  BY <1>34, RegisteringLabels, SettlingLabels, JobValues DEF StopRun, JobKnown
<1>35. ASSUME NEW q \in Stoppers, StopJobEvent(q) PROVE JobKnown'
  BY <1>35, RegisteringLabels, SettlingLabels, JobValues DEF StopJobEvent, JobKnown
<1>36. ASSUME NEW q \in Stoppers, StopTaskEvent(q) PROVE JobKnown'
  BY <1>36, RegisteringLabels, SettlingLabels, JobValues DEF StopTaskEvent, JobKnown
<1>37. ASSUME NEW q \in Stoppers, StopOnlyJob(q) PROVE JobKnown'
  BY <1>37, RegisteringLabels, SettlingLabels, JobValues DEF StopOnlyJob, JobKnown
<1>38. ASSUME Attach PROVE JobKnown'
  BY <1>38, RegisteringLabels, SettlingLabels, JobValues DEF Attach, RowsOK, JobKnown
<1>39. ASSUME CancelTask PROVE JobKnown'
  BY <1>39, RegisteringLabels, SettlingLabels, JobValues DEF CancelTask, JobKnown
<1>40. ASSUME NEW q \in Stoppers, UpdateTask(q) PROVE JobKnown'
  BY <1>40, RegisteringLabels, SettlingLabels, JobValues DEF UpdateTask, JobKnown
<1>41. ASSUME NEW q \in Stoppers, UpdateTaskEvent(q) PROVE JobKnown'
  BY <1>41, RegisteringLabels, SettlingLabels, JobValues DEF UpdateTaskEvent, JobKnown
<1> QED
  BY <1>1, <1>2, <1>3, <1>4, <1>5, <1>6, <1>7, <1>8, <1>9, <1>10, <1>11, <1>12, <1>13, <1>14, <1>15,
     <1>16, <1>17, <1>18, <1>19, <1>20, <1>21, <1>22, <1>23, <1>24, <1>25, <1>26, <1>27, <1>28, <1>29,
     <1>30, <1>31, <1>32, <1>33, <1>34, <1>35, <1>36, <1>37, <1>38, <1>39, <1>40, <1>41 DEF Step

\* Every step without a failure keeps what is known of the copies (task_stop, background stop).
LEMMA CopiesKnownStep ==
    ASSUME RowsOK, PlacesOK, ~MayFail, CopiesKnown, Step
    PROVE  CopiesKnown'
<1> USE SubagentRunsAssumption DEF Procs, IsAt, GoesTo, Terminated, Ends, Forget
<1> DOMAIN at = Procs /\ DOMAIN ending = {"parent", "child"}
  BY DEF PlacesOK
<1> DOMAIN copies = Procs /\ \A p \in Procs : copies[p] \in Copy
  BY DEF RowsOK
<1> \A c \in Copy : DOMAIN c = {"run", "job"}
  BY DEF Copy
<1>1. ~ParentFails /\ ~ParentEnds /\ ~ChildEnds /\ \A q \in Stoppers : ~StopperEnds(q)
  BY DEF ParentFails, ParentEnds, ChildEnds, StopperEnds
<1>2. ASSUME InsertTask PROVE CopiesKnown'
  BY <1>2 DEF InsertTask, CopiesKnown
<1>3. ASSUME InsertRun PROVE CopiesKnown'
  BY <1>3 DEF InsertRun, CopiesKnown
<1>4. ASSUME ThreadEnds PROVE CopiesKnown'
  BY <1>4 DEF ThreadEnds, CopiesKnown
<1>5. ASSUME Promote PROVE CopiesKnown'
  BY <1>5 DEF Promote, CopiesKnown
<1>6. ASSUME Promoted PROVE CopiesKnown'
  BY <1>6 DEF Promoted, CopiesKnown
<1>7. ASSUME StartChild PROVE CopiesKnown'
  BY <1>7 DEF StartChild, CopiesKnown
<1>8. ASSUME InsertChildJob PROVE CopiesKnown'
  BY <1>8 DEF InsertChildJob, CopiesKnown
<1>9. ASSUME JobStarted PROVE CopiesKnown'
  BY <1>9 DEF JobStarted, CopiesKnown
<1>10. ASSUME InsertJobAgain PROVE CopiesKnown'
  BY <1>10 DEF InsertJobAgain, CopiesKnown
<1>11. ASSUME ParentLoads PROVE CopiesKnown'
  BY <1>11, JobValues DEF ParentLoads, CopiesKnown
<1>12. ASSUME ParentLinks PROVE CopiesKnown'
  BY <1>12, JobValues DEF ParentLinks, CopiesKnown
<1>13. ASSUME ParentReturns PROVE CopiesKnown'
  BY <1>13 DEF ParentReturns, CopiesKnown
<1>14. ASSUME ChildFinishes PROVE CopiesKnown'
  BY <1>14 DEF ChildFinishes, CopiesKnown
<1>15. ASSUME ChildLoads PROVE CopiesKnown'
  BY <1>15, JobValues DEF ChildLoads, CopiesKnown
<1>16. ASSUME SettleTask("parent") PROVE CopiesKnown'
  BY <1>16 DEF SettleTask, CopiesKnown
<1>17. ASSUME SettleTask("child") PROVE CopiesKnown'
  BY <1>17 DEF SettleTask, CopiesKnown
<1>18. ASSUME SettleRun("parent") PROVE CopiesKnown'
  BY <1>18 DEF SettleRun, CopiesKnown
<1>19. ASSUME SettleRun("child") PROVE CopiesKnown'
  BY <1>19 DEF SettleRun, CopiesKnown
<1>20. ASSUME SettleJob("parent") PROVE CopiesKnown'
  BY <1>20, JobValues DEF SettleJob, CopiesKnown
<1>21. ASSUME SettleJob("child") PROVE CopiesKnown'
  BY <1>21, JobValues DEF SettleJob, CopiesKnown
<1>22. ASSUME SettleJobEvent("parent") PROVE CopiesKnown'
  BY <1>22 DEF SettleJobEvent, CopiesKnown
<1>23. ASSUME SettleJobEvent("child") PROVE CopiesKnown'
  BY <1>23 DEF SettleJobEvent, CopiesKnown
<1>24. ASSUME SettleTaskEvent("parent") PROVE CopiesKnown'
  BY <1>24 DEF SettleTaskEvent, CopiesKnown
<1>25. ASSUME SettleTaskEvent("child") PROVE CopiesKnown'
  BY <1>25 DEF SettleTaskEvent, CopiesKnown
<1>26. ASSUME SettleRunEvent("parent") PROVE CopiesKnown'
  BY <1>26 DEF SettleRunEvent, CopiesKnown
<1>27. ASSUME SettleRunEvent("child") PROVE CopiesKnown'
  BY <1>27 DEF SettleRunEvent, CopiesKnown
<1>28. ASSUME NEW q \in Stoppers, StopLoads(q) PROVE CopiesKnown'
  BY <1>28, JobValues DEF StopLoads, CopiesKnown
<1>29. ASSUME NEW q \in Stoppers, StopLoadsJob(q) PROVE CopiesKnown'
  <2>1. CASE jobRow = NoJob
    BY <1>29, <2>1 DEF StopLoadsJob, CopiesKnown
  <2>2. CASE jobRow # NoJob
    <3>1. copies' = [copies EXCEPT ![q].job = jobRow] /\ GoesTo(q, "kill")
      BY <1>29, <2>2 DEF StopLoadsJob
    <3>2. copies'[q].job = jobRow
      BY <3>1
    <3> QED
      BY <2>2, <3>1, <3>2 DEF CopiesKnown
  <2> QED
    BY <2>1, <2>2
<1>30. ASSUME NEW q \in Stoppers, JobStopLoads(q) PROVE CopiesKnown'
  BY <1>30, JobValues DEF JobStopLoads, CopiesKnown
<1>31. ASSUME NEW q \in Stoppers,
              Kill(q, "kill", "stop job") \/ Kill(q, "kill only job", "stop only job")
       PROVE  CopiesKnown'
  BY <1>31 DEF Kill, CopiesKnown
<1>32. ASSUME NEW q \in Stoppers, StopChildJob(q) PROVE CopiesKnown'
  BY <1>32 DEF StopChildJob, CopiesKnown
<1>33. ASSUME NEW q \in Stoppers, StopTask(q) PROVE CopiesKnown'
  BY <1>33 DEF StopTask, CopiesKnown
<1>34. ASSUME NEW q \in Stoppers, StopRun(q) PROVE CopiesKnown'
  BY <1>34, JobValues DEF StopRun, CopiesKnown
<1>35. ASSUME NEW q \in Stoppers, StopJobEvent(q) PROVE CopiesKnown'
  BY <1>35 DEF StopJobEvent, CopiesKnown
<1>36. ASSUME NEW q \in Stoppers, StopTaskEvent(q) PROVE CopiesKnown'
  BY <1>36 DEF StopTaskEvent, CopiesKnown
<1>37. ASSUME NEW q \in Stoppers, StopOnlyJob(q) PROVE CopiesKnown'
  BY <1>37, JobValues DEF StopOnlyJob, CopiesKnown
<1>38. ASSUME Attach PROVE CopiesKnown'
  BY <1>38 DEF Attach, CopiesKnown
<1>39. ASSUME CancelTask PROVE CopiesKnown'
  BY <1>39 DEF CancelTask, CopiesKnown
<1>40. ASSUME NEW q \in Stoppers, UpdateTask(q) PROVE CopiesKnown'
  BY <1>40 DEF UpdateTask, CopiesKnown
<1>41. ASSUME NEW q \in Stoppers, UpdateTaskEvent(q) PROVE CopiesKnown'
  BY <1>41 DEF UpdateTaskEvent, CopiesKnown
<1> QED
  BY <1>1, <1>2, <1>3, <1>4, <1>5, <1>6, <1>7, <1>8, <1>9, <1>10, <1>11, <1>12, <1>13, <1>14, <1>15,
     <1>16, <1>17, <1>18, <1>19, <1>20, <1>21, <1>22, <1>23, <1>24, <1>25, <1>26, <1>27, <1>28, <1>29,
     <1>30, <1>31, <1>32, <1>33, <1>34, <1>35, <1>36, <1>37, <1>38, <1>39, <1>40, <1>41 DEF Step

\* Every step without a failure keeps the ending recorded by one process (finalize_background_subagent_run).
LEMMA EndingsStep ==
    ASSUME PlacesOK, ~MayFail, Together, Endings, Step
    PROVE  Endings'
<1> USE SubagentRunsAssumption DEF Procs, IsAt, GoesTo, Terminated, Ends, Forget
<1> DOMAIN at = Procs /\ DOMAIN ending = {"parent", "child"}
  BY DEF PlacesOK
<1>1. ~ParentFails /\ ~ParentEnds /\ ~ChildEnds /\ \A q \in Stoppers : ~StopperEnds(q)
  BY DEF ParentFails, ParentEnds, ChildEnds, StopperEnds
<1>2. ASSUME InsertTask PROVE Endings'
  BY <1>2, RegisteringLabels, SettlingLabels DEF InsertTask, Together, Endings
<1>3. ASSUME InsertRun PROVE Endings'
  BY <1>3, RegisteringLabels, SettlingLabels DEF InsertRun, Together, Endings
<1>4. ASSUME ThreadEnds PROVE Endings'
  BY <1>4, RegisteringLabels, SettlingLabels DEF ThreadEnds, Together, Endings
<1>5. ASSUME Promote PROVE Endings'
  BY <1>5, RegisteringLabels, SettlingLabels DEF Promote, Together, Endings
<1>6. ASSUME Promoted PROVE Endings'
  BY <1>6, RegisteringLabels, SettlingLabels DEF Promoted, Together, Endings
<1>7. ASSUME StartChild PROVE Endings'
  BY <1>7, RegisteringLabels, SettlingLabels DEF StartChild, Together, Endings
<1>8. ASSUME InsertChildJob PROVE Endings'
  BY <1>8, RegisteringLabels, SettlingLabels DEF InsertChildJob, Together, Endings
<1>9. ASSUME JobStarted PROVE Endings'
  BY <1>9, RegisteringLabels, SettlingLabels DEF JobStarted, Together, Endings
<1>10. ASSUME InsertJobAgain PROVE Endings'
  BY <1>10, RegisteringLabels, SettlingLabels DEF InsertJobAgain, Together, Endings
<1>11. ASSUME ParentLoads PROVE Endings'
  BY <1>11, RegisteringLabels, SettlingLabels DEF ParentLoads, Together, Endings
<1>12. ASSUME ParentLinks PROVE Endings'
  BY <1>12, RegisteringLabels, SettlingLabels DEF ParentLinks, Together, Endings
<1>13. ASSUME ParentReturns PROVE Endings'
  BY <1>13, RegisteringLabels, SettlingLabels DEF ParentReturns, Together, Endings
<1>14. ASSUME ChildFinishes PROVE Endings'
  BY <1>14, RegisteringLabels, SettlingLabels DEF ChildFinishes, Together, Endings
<1>15. ASSUME ChildLoads PROVE Endings'
  BY <1>15, RegisteringLabels, SettlingLabels DEF ChildLoads, Together, Endings
<1>16. ASSUME SettleTask("parent") PROVE Endings'
  BY <1>16, RegisteringLabels, SettlingLabels DEF SettleTask, Together, Endings
<1>17. ASSUME SettleTask("child") PROVE Endings'
  BY <1>17, RegisteringLabels, SettlingLabels DEF SettleTask, Together, Endings
<1>18. ASSUME SettleRun("parent") PROVE Endings'
  BY <1>18, RegisteringLabels, SettlingLabels DEF SettleRun, Together, Endings
<1>19. ASSUME SettleRun("child") PROVE Endings'
  BY <1>19, RegisteringLabels, SettlingLabels DEF SettleRun, Together, Endings
<1>20. ASSUME SettleJob("parent") PROVE Endings'
  BY <1>20, RegisteringLabels, SettlingLabels DEF SettleJob, Together, Endings
<1>21. ASSUME SettleJob("child") PROVE Endings'
  BY <1>21, RegisteringLabels, SettlingLabels DEF SettleJob, Together, Endings
<1>22. ASSUME SettleJobEvent("parent") PROVE Endings'
  BY <1>22, RegisteringLabels, SettlingLabels DEF SettleJobEvent, Together, Endings
<1>23. ASSUME SettleJobEvent("child") PROVE Endings'
  BY <1>23, RegisteringLabels, SettlingLabels DEF SettleJobEvent, Together, Endings
<1>24. ASSUME SettleTaskEvent("parent") PROVE Endings'
  BY <1>24, RegisteringLabels, SettlingLabels DEF SettleTaskEvent, Together, Endings
<1>25. ASSUME SettleTaskEvent("child") PROVE Endings'
  BY <1>25, RegisteringLabels, SettlingLabels DEF SettleTaskEvent, Together, Endings
<1>26. ASSUME SettleRunEvent("parent") PROVE Endings'
  BY <1>26, RegisteringLabels, SettlingLabels DEF SettleRunEvent, Together, Endings
<1>27. ASSUME SettleRunEvent("child") PROVE Endings'
  BY <1>27, RegisteringLabels, SettlingLabels DEF SettleRunEvent, Together, Endings
<1>28. ASSUME NEW q \in Stoppers, StopLoads(q) PROVE Endings'
  BY <1>28, RegisteringLabels, SettlingLabels DEF StopLoads, Together, Endings
<1>29. ASSUME NEW q \in Stoppers, StopLoadsJob(q) PROVE Endings'
  BY <1>29, RegisteringLabels, SettlingLabels DEF StopLoadsJob, Together, Endings
<1>30. ASSUME NEW q \in Stoppers, JobStopLoads(q) PROVE Endings'
  BY <1>30, RegisteringLabels, SettlingLabels DEF JobStopLoads, Together, Endings
<1>31. ASSUME NEW q \in Stoppers,
              Kill(q, "kill", "stop job") \/ Kill(q, "kill only job", "stop only job")
       PROVE  Endings'
  BY <1>31, RegisteringLabels, SettlingLabels DEF Kill, Together, Endings
<1>32. ASSUME NEW q \in Stoppers, StopChildJob(q) PROVE Endings'
  BY <1>32, RegisteringLabels, SettlingLabels DEF StopChildJob, Together, Endings
<1>33. ASSUME NEW q \in Stoppers, StopTask(q) PROVE Endings'
  BY <1>33, RegisteringLabels, SettlingLabels DEF StopTask, Together, Endings
<1>34. ASSUME NEW q \in Stoppers, StopRun(q) PROVE Endings'
  BY <1>34, RegisteringLabels, SettlingLabels DEF StopRun, Together, Endings
<1>35. ASSUME NEW q \in Stoppers, StopJobEvent(q) PROVE Endings'
  BY <1>35, RegisteringLabels, SettlingLabels DEF StopJobEvent, Together, Endings
<1>36. ASSUME NEW q \in Stoppers, StopTaskEvent(q) PROVE Endings'
  BY <1>36, RegisteringLabels, SettlingLabels DEF StopTaskEvent, Together, Endings
<1>37. ASSUME NEW q \in Stoppers, StopOnlyJob(q) PROVE Endings'
  BY <1>37, RegisteringLabels, SettlingLabels DEF StopOnlyJob, Together, Endings
<1>38. ASSUME Attach PROVE Endings'
  BY <1>38, RegisteringLabels, SettlingLabels DEF Attach, Together, Endings
<1>39. ASSUME CancelTask PROVE Endings'
  BY <1>39, RegisteringLabels, SettlingLabels DEF CancelTask, Together, Endings
<1>40. ASSUME NEW q \in Stoppers, UpdateTask(q) PROVE Endings'
  BY <1>40, RegisteringLabels, SettlingLabels DEF UpdateTask, Together, Endings
<1>41. ASSUME NEW q \in Stoppers, UpdateTaskEvent(q) PROVE Endings'
  BY <1>41, RegisteringLabels, SettlingLabels DEF UpdateTaskEvent, Together, Endings
<1> QED
  BY <1>1, <1>2, <1>3, <1>4, <1>5, <1>6, <1>7, <1>8, <1>9, <1>10, <1>11, <1>12, <1>13, <1>14, <1>15,
     <1>16, <1>17, <1>18, <1>19, <1>20, <1>21, <1>22, <1>23, <1>24, <1>25, <1>26, <1>27, <1>28, <1>29,
     <1>30, <1>31, <1>32, <1>33, <1>34, <1>35, <1>36, <1>37, <1>38, <1>39, <1>40, <1>41 DEF Step

-----------------------------------------------------------------------------
(* Delegated runs: answers and settlement *)

\* What can be read from the values that the handlers write.
LEMMA Readings ==
    /\ Running.status = "running" /\ Running.error = FALSE
    /\ NoRun.status = "none" /\ NoRun.error = FALSE /\ Running # NoRun
    /\ \A e : Result(e).status = e /\ Result(e).error = (e = "failed")
    /\ \A r \in Run : /\ [r EXCEPT !.status = "running"].status = "running"
                      /\ [r EXCEPT !.status = "running"].error = r.error
                      /\ [r EXCEPT !.status = "stopped", !.error = TRUE].status = "stopped"
    /\ \A e : Answer(e).status = e /\ Answer(e).outcome = (IF e = "completed" THEN "answer" ELSE "error")
    /\ \A t \in Task : \A e : [t EXCEPT !.status = e].status = e /\ [t EXCEPT !.status = e].outcome = t.outcome
    /\ NewJob.status = "running" /\ NewJob.pid /\ JobStopped.status = "stopped" /\ NoJob.status = "none"
    /\ \A j \in Job : \A e : [j EXCEPT !.status = e].status = e /\ [j EXCEPT !.status = e].pid = j.pid
    /\ NoCopy.run = NoRun /\ NoCopy.job = NoJob
<1>1. /\ Running.status = "running" /\ Running.error = FALSE
      /\ NoRun.status = "none" /\ NoRun.error = FALSE /\ Running # NoRun
      /\ \A e : Result(e).status = e /\ Result(e).error = (e = "failed")
  BY DEF Running, NoRun, Result
<1>2. \A r \in Run : /\ [r EXCEPT !.status = "running"].status = "running"
                     /\ [r EXCEPT !.status = "running"].error = r.error
                     /\ [r EXCEPT !.status = "stopped", !.error = TRUE].status = "stopped"
  BY DEF Run
<1>3. \A e : Answer(e).status = e /\ Answer(e).outcome = (IF e = "completed" THEN "answer" ELSE "error")
  BY DEF Answer
<1>4. \A t \in Task : \A e : [t EXCEPT !.status = e].status = e /\ [t EXCEPT !.status = e].outcome = t.outcome
  BY DEF Task
<1>5. NewJob.status = "running" /\ NewJob.pid /\ JobStopped.status = "stopped" /\ NoJob.status = "none"
  BY DEF NewJob, JobStopped, NoJob
<1>6. \A j \in Job : \A e : [j EXCEPT !.status = e].status = e /\ [j EXCEPT !.status = e].pid = j.pid
  BY DEF Job
<1> QED
  BY <1>1, <1>2, <1>3, <1>4, <1>5, <1>6 DEF NoCopy

\* A process that settles knows how the child has ended.
LEMMA EndingKnown ==
    ASSUME PlacesOK, NEW p \in {"parent", "child"}, at[p] \in Settling
    PROVE  ending[p] \in {"completed", "failed"}
<1>1. /\ ending["parent"] \in {"open", "completed", "failed"} /\ ending["child"] \in {"open", "completed", "failed"}
      /\ at["parent"] \in Settling => ending["parent"] # "open"
      /\ at["child"] \in Settling => ending["child"] # "open"
  BY DEF PlacesOK
<1> QED
  BY <1>1

\* The two writes of the run that settle it record the ending.
LEMMA RunRecorded ==
    ASSUME PlacesOK, NEW p \in {"parent", "child"}, SettleRun(p) \/ SettleRunEvent(p)
    PROVE  runRow'.status = ending[p] /\ ending[p] \in {"completed", "failed"}
<1>1. at[p] \in Settling
  BY SettlingLabels DEF SettleRun, SettleRunEvent, IsAt
<1>2. ending[p] \in {"completed", "failed"}
  BY <1>1, EndingKnown
<1>3. runRow' = Result(ending[p])
  BY DEF SettleRun, SettleRunEvent
<1> QED
  BY <1>2, <1>3 DEF Result

\* Every step without a failure keeps answers and errors apart (spawn_task writes the run after the child).
LEMMA AnsweredStep ==
    ASSUME RowsOK, PlacesOK, ~MayFail, Together, Endings, Answered, Step
    PROVE  Answered'
<1> runRow \in Run /\ taskRow \in Task /\ \A p \in Procs : copies[p].run \in Run
  BY DEF RowsOK, Copy
<1> USE SubagentRunsAssumption DEF Procs, IsAt, GoesTo, Terminated, Ends, Forget
<1> DOMAIN at = Procs /\ DOMAIN ending = {"parent", "child"}
  BY DEF PlacesOK
<1> DOMAIN copies = Procs /\ \A p \in Procs : copies[p] \in Copy
  BY DEF RowsOK
<1> \A c \in Copy : DOMAIN c = {"run", "job"}
  BY DEF Copy
<1>1. ~ParentFails /\ ~ParentEnds /\ ~ChildEnds /\ \A q \in Stoppers : ~StopperEnds(q)
  BY DEF ParentFails, ParentEnds, ChildEnds, StopperEnds
<1>2. ASSUME InsertTask PROVE Answered'
  BY <1>2, StoppingLabels, SettlingLabels, RegisteringLabels DEF InsertTask, Endings, PlacesOK, Answered,
     Failed, Completed
<1>3. ASSUME InsertRun PROVE Answered'
  <2>1. runRow'.error = FALSE /\ UNCHANGED <<taskRow, copies, past>> /\ \A q \in Stoppers : at'[q] = at[q]
    BY <1>3, Readings DEF InsertRun
  <2>2. ~Completed
    BY <1>3, RegisteringLabels, SettlingLabels DEF InsertRun, Endings, Completed
  <2>3. Failed => Failed'
    BY <1>3 DEF InsertRun, Failed
  <2> QED
    BY <2>1, <2>2, <2>3 DEF Answered
<1>4. ASSUME ThreadEnds PROVE Answered'
  BY <1>4, StoppingLabels, SettlingLabels, RegisteringLabels DEF ThreadEnds, Endings, PlacesOK, Answered,
     Failed, Completed
<1>5. ASSUME Promote PROVE Answered'
  BY <1>5, StoppingLabels, SettlingLabels, RegisteringLabels DEF Promote, Endings, PlacesOK, Answered,
     Failed, Completed
<1>6. ASSUME Promoted PROVE Answered'
  BY <1>6, Readings, StoppingLabels, SettlingLabels, RegisteringLabels DEF Promoted, Answered, Failed,
     Completed
<1>7. ASSUME StartChild PROVE Answered'
  BY <1>7, StoppingLabels, SettlingLabels, RegisteringLabels DEF StartChild, Answered, Failed, Completed
<1>8. ASSUME InsertChildJob PROVE Answered'
  BY <1>8, StoppingLabels, SettlingLabels, RegisteringLabels DEF InsertChildJob, Answered, Failed, Completed
<1>9. ASSUME JobStarted PROVE Answered'
  BY <1>9, StoppingLabels, SettlingLabels, RegisteringLabels DEF JobStarted, Answered, Failed, Completed
<1>10. ASSUME InsertJobAgain PROVE Answered'
  BY <1>10, StoppingLabels, SettlingLabels, RegisteringLabels DEF InsertJobAgain, Answered, Failed, Completed
<1>11. ASSUME ParentLoads PROVE Answered'
  <2>1. copies'["parent"].run = runRow
    BY <1>11 DEF ParentLoads
  <2> QED
    BY <1>11, <2>1 DEF ParentLoads, Answered, Failed, Completed
<1>12. ASSUME ParentLinks PROVE Answered'
  BY <1>12, Readings, StoppingLabels, SettlingLabels, RegisteringLabels DEF ParentLinks, Answered,
     Failed, Completed
<1>13. ASSUME ParentReturns PROVE Answered'
  BY <1>13, Readings, StoppingLabels, SettlingLabels, RegisteringLabels DEF ParentReturns, Answered,
     Failed, Completed
<1>14. ASSUME ChildFinishes PROVE Answered'
  BY <1>14, StoppingLabels, SettlingLabels, RegisteringLabels DEF ChildFinishes, Endings, PlacesOK,
     Answered, Failed, Completed
<1>15. ASSUME ChildLoads PROVE Answered'
  BY <1>15, StoppingLabels, SettlingLabels, RegisteringLabels DEF ChildLoads, Early, Answered, Failed,
     Completed
<1>16. ASSUME SettleTask("parent") PROVE Answered'
  <2>1. /\ taskRow'.outcome = (IF ending["parent"] = "completed" THEN "answer" ELSE "error")
        /\ past' = past \cup (IF ending["parent"] = "completed" THEN {"answered"} ELSE {})
        /\ UNCHANGED <<runRow, copies, ending>>
    BY <1>16 DEF SettleTask, Answer
  <2>2. ending["parent"] \in {"completed", "failed"} /\ \A q \in Stoppers : at'[q] = at[q]
    BY <1>16, EndingKnown, SettlingLabels DEF SettleTask
  <2>3. ending["parent"] = "failed" => ~Completed
    BY DEF Endings, Completed
  <2>4. Failed' = Failed /\ Completed' = Completed /\ (ending["parent"] = "completed" => Completed)
    BY <2>1 DEF Failed, Completed
  <2> QED
    BY <2>1, <2>2, <2>3, <2>4 DEF Answered
<1>17. ASSUME SettleTask("child") PROVE Answered'
  <2>1. /\ taskRow'.outcome = (IF ending["child"] = "completed" THEN "answer" ELSE "error")
        /\ past' = past \cup (IF ending["child"] = "completed" THEN {"answered"} ELSE {})
        /\ UNCHANGED <<runRow, copies, ending>>
    BY <1>17 DEF SettleTask, Answer
  <2>2. ending["child"] \in {"completed", "failed"} /\ \A q \in Stoppers : at'[q] = at[q]
    BY <1>17, EndingKnown, SettlingLabels DEF SettleTask
  <2>3. ending["child"] = "failed" => ~Completed
    BY DEF Endings, Completed
  <2>4. Failed' = Failed /\ Completed' = Completed /\ (ending["child"] = "completed" => Completed)
    BY <2>1 DEF Failed, Completed
  <2> QED
    BY <2>1, <2>2, <2>3, <2>4 DEF Answered
<1>18. ASSUME SettleRun("parent") PROVE Answered'
  BY <1>18, Readings, StoppingLabels, SettlingLabels, RegisteringLabels DEF SettleRun, Endings, PlacesOK,
     Answered, Failed, Completed
<1>19. ASSUME SettleRun("child") PROVE Answered'
  BY <1>19, Readings, StoppingLabels, SettlingLabels, RegisteringLabels DEF SettleRun, Endings, PlacesOK,
     Answered, Failed, Completed
<1>20. ASSUME SettleJob("parent") PROVE Answered'
  BY <1>20, Readings, StoppingLabels, SettlingLabels, RegisteringLabels DEF SettleJob, Answered, Failed,
     Completed
<1>21. ASSUME SettleJob("child") PROVE Answered'
  BY <1>21, Readings, StoppingLabels, SettlingLabels, RegisteringLabels DEF SettleJob, Answered, Failed,
     Completed
<1>22. ASSUME SettleJobEvent("parent") PROVE Answered'
  BY <1>22, StoppingLabels, SettlingLabels, RegisteringLabels DEF SettleJobEvent, Answered, Failed, Completed
<1>23. ASSUME SettleJobEvent("child") PROVE Answered'
  BY <1>23, StoppingLabels, SettlingLabels, RegisteringLabels DEF SettleJobEvent, Answered, Failed, Completed
<1>24. ASSUME SettleTaskEvent("parent") PROVE Answered'
  <2>1. taskRow'.outcome = taskRow.outcome
    BY <1>24 DEF SettleTaskEvent, Task
  <2> QED
    BY <1>24, <2>1 DEF SettleTaskEvent, Answered, Failed, Completed
<1>25. ASSUME SettleTaskEvent("child") PROVE Answered'
  <2>1. taskRow'.outcome = taskRow.outcome
    BY <1>25 DEF SettleTaskEvent, Task
  <2> QED
    BY <1>25, <2>1 DEF SettleTaskEvent, Answered, Failed, Completed
<1>26. ASSUME SettleRunEvent("parent") PROVE Answered'
  BY <1>26, Readings, StoppingLabels, SettlingLabels, RegisteringLabels DEF SettleRunEvent, Endings,
     PlacesOK, Answered, Failed, Completed
<1>27. ASSUME SettleRunEvent("child") PROVE Answered'
  BY <1>27, Readings, StoppingLabels, SettlingLabels, RegisteringLabels DEF SettleRunEvent, Endings,
     PlacesOK, Answered, Failed, Completed
<1>28. ASSUME NEW q \in Stoppers, StopLoads(q) PROVE Answered'
  BY <1>28, StoppingLabels, SettlingLabels, RegisteringLabels DEF StopLoads, Answered, Failed, Completed
<1>29. ASSUME NEW q \in Stoppers, StopLoadsJob(q) PROVE Answered'
  BY <1>29, StoppingLabels, SettlingLabels, RegisteringLabels DEF StopLoadsJob, Answered, Failed, Completed
<1>30. ASSUME NEW q \in Stoppers, JobStopLoads(q) PROVE Answered'
  BY <1>30, StoppingLabels, SettlingLabels, RegisteringLabels DEF JobStopLoads, Answered, Failed, Completed
<1>31. ASSUME NEW q \in Stoppers,
              Kill(q, "kill", "stop job") \/ Kill(q, "kill only job", "stop only job")
       PROVE  Answered'
  <2>1. CASE Kill(q, "kill", "stop job")
    BY <1>31, <2>1, StoppingLabels DEF Kill, Early, Answered, Failed, Completed
  <2>2. CASE Kill(q, "kill only job", "stop only job")
    BY <1>31, <2>2, StoppingLabels DEF Kill, Early, Answered, Failed, Completed
  <2> QED
    BY <1>31, <2>1, <2>2
<1>32. ASSUME NEW q \in Stoppers, StopChildJob(q) PROVE Answered'
  BY <1>32, StoppingLabels, SettlingLabels, RegisteringLabels DEF StopChildJob, Answered, Failed, Completed
<1>33. ASSUME NEW q \in Stoppers, StopTask(q) PROVE Answered'
  BY <1>33, StoppingLabels, SettlingLabels, RegisteringLabels DEF StopTask, Answered, Failed, Completed
<1>34. ASSUME NEW q \in Stoppers, StopRun(q) PROVE Answered'
  BY <1>34, StoppingLabels, SettlingLabels, RegisteringLabels DEF StopRun, Answered, Failed, Completed
<1>35. ASSUME NEW q \in Stoppers, StopJobEvent(q) PROVE Answered'
  BY <1>35, StoppingLabels, SettlingLabels, RegisteringLabels DEF StopJobEvent, Answered, Failed, Completed
<1>36. ASSUME NEW q \in Stoppers, StopTaskEvent(q) PROVE Answered'
  BY <1>36, StoppingLabels, SettlingLabels, RegisteringLabels DEF StopTaskEvent, Answered, Failed, Completed
<1>37. ASSUME NEW q \in Stoppers, StopOnlyJob(q) PROVE Answered'
  BY <1>37, StoppingLabels, SettlingLabels, RegisteringLabels DEF StopOnlyJob, Answered, Failed, Completed
<1>38. ASSUME Attach PROVE Answered'
  BY <1>38, StoppingLabels, SettlingLabels, RegisteringLabels DEF Attach, Answered, Failed, Completed
<1>39. ASSUME CancelTask PROVE Answered'
  BY <1>39, StoppingLabels, SettlingLabels, RegisteringLabels DEF CancelTask, Answered, Failed, Completed
<1>40. ASSUME NEW q \in Stoppers, UpdateTask(q) PROVE Answered'
  BY <1>40, StoppingLabels, SettlingLabels, RegisteringLabels DEF UpdateTask, Answered, Failed, Completed
<1>41. ASSUME NEW q \in Stoppers, UpdateTaskEvent(q) PROVE Answered'
  BY <1>41, StoppingLabels, SettlingLabels, RegisteringLabels DEF UpdateTaskEvent, Answered, Failed, Completed
<1> QED
  BY <1>1, <1>2, <1>3, <1>4, <1>5, <1>6, <1>7, <1>8, <1>9, <1>10, <1>11, <1>12, <1>13, <1>14, <1>15,
     <1>16, <1>17, <1>18, <1>19, <1>20, <1>21, <1>22, <1>23, <1>24, <1>25, <1>26, <1>27, <1>28, <1>29,
     <1>30, <1>31, <1>32, <1>33, <1>34, <1>35, <1>36, <1>37, <1>38, <1>39, <1>40, <1>41 DEF Step

\* Every step without a failure keeps the order of registration, child and stops.
LEMMA InOrderStep ==
    ASSUME RowsOK, PlacesOK, ~MayFail, Together, JobKnown, InOrder, Step
    PROVE  InOrder'
<1> USE SubagentRunsAssumption DEF Procs, IsAt, GoesTo, Terminated, Ends, Forget
<1> DOMAIN at = Procs /\ DOMAIN ending = {"parent", "child"}
  BY DEF PlacesOK
<1> DOMAIN copies = Procs /\ \A p \in Procs : copies[p] \in Copy
  BY DEF RowsOK
<1> \A c \in Copy : DOMAIN c = {"run", "job"}
  BY DEF Copy
<1>1. ~ParentFails /\ ~ParentEnds /\ ~ChildEnds /\ \A q \in Stoppers : ~StopperEnds(q)
  BY DEF ParentFails, ParentEnds, ChildEnds, StopperEnds
<1>2. ASSUME InsertTask PROVE InOrder'
  BY <1>2, StoppingLabels, SettlingLabels, RegisteringLabels DEF InsertTask, InOrder
<1>3. ASSUME InsertRun PROVE InOrder'
  BY <1>3, StoppingLabels, SettlingLabels, RegisteringLabels DEF InsertRun, InOrder
<1>4. ASSUME ThreadEnds PROVE InOrder'
  <2>1. CASE IsAt("parent", "wait")
    BY <1>4, <2>1, SettlingLabels, RegisteringLabels DEF ThreadEnds, Together, InOrder
  <2>2. CASE ~(IsAt("parent", "wait"))
    BY <1>4, <2>2, SettlingLabels, RegisteringLabels DEF ThreadEnds, Together, InOrder
  <2> QED
    BY <2>1, <2>2
<1>5. ASSUME Promote PROVE InOrder'
  BY <1>5, StoppingLabels, SettlingLabels, RegisteringLabels DEF Promote, Together, JobKnown, InOrder
<1>6. ASSUME Promoted PROVE InOrder'
  BY <1>6, StoppingLabels, SettlingLabels, RegisteringLabels DEF Promoted, Together, JobKnown, InOrder
<1>7. ASSUME StartChild PROVE InOrder'
  BY <1>7, StoppingLabels, SettlingLabels, RegisteringLabels DEF StartChild, Together, JobKnown, InOrder
<1>8. ASSUME InsertChildJob PROVE InOrder'
  BY <1>8, StoppingLabels, SettlingLabels, RegisteringLabels DEF InsertChildJob, Together, JobKnown, InOrder
<1>9. ASSUME JobStarted PROVE InOrder'
  BY <1>9, StoppingLabels, SettlingLabels, RegisteringLabels DEF JobStarted, InOrder
<1>10. ASSUME InsertJobAgain PROVE InOrder'
  BY <1>10, StoppingLabels, SettlingLabels, RegisteringLabels DEF InsertJobAgain, InOrder
<1>11. ASSUME ParentLoads PROVE InOrder'
  BY <1>11, StoppingLabels, SettlingLabels, RegisteringLabels DEF ParentLoads, InOrder
<1>12. ASSUME ParentLinks PROVE InOrder'
  BY <1>12, StoppingLabels, SettlingLabels, RegisteringLabels DEF ParentLinks, InOrder
<1>13. ASSUME ParentReturns PROVE InOrder'
  BY <1>13, StoppingLabels, SettlingLabels, RegisteringLabels DEF ParentReturns, Together, JobKnown, InOrder
<1>14. ASSUME ChildFinishes PROVE InOrder'
  BY <1>14, StoppingLabels, SettlingLabels, RegisteringLabels DEF ChildFinishes, InOrder
<1>15. ASSUME ChildLoads PROVE InOrder'
  <2>1. /\ copies'["child"].job = jobRow /\ past' = past \cup Early
        /\ at["child"] = "load" /\ at' = [at EXCEPT !["child"] = "settle task"]
    BY <1>15 DEF ChildLoads
  <2>2. "early" \notin past' => at["parent"] = "done" /\ "early" \notin past
    BY <2>1 DEF Early
  <2>3. at["parent"] = "done" => jobRow # NoJob
    BY <2>1 DEF JobKnown
  <2> QED
    BY <2>1, <2>2, <2>3, RegisteringLabels DEF InOrder
<1>16. ASSUME SettleTask("parent") PROVE InOrder'
  BY <1>16, StoppingLabels, SettlingLabels, RegisteringLabels DEF SettleTask, InOrder
<1>17. ASSUME SettleTask("child") PROVE InOrder'
  BY <1>17, StoppingLabels, SettlingLabels, RegisteringLabels DEF SettleTask, InOrder
<1>18. ASSUME SettleRun("parent") PROVE InOrder'
  BY <1>18, StoppingLabels, SettlingLabels, RegisteringLabels DEF SettleRun, Together, JobKnown, InOrder
<1>19. ASSUME SettleRun("child") PROVE InOrder'
  BY <1>19, StoppingLabels, SettlingLabels, RegisteringLabels DEF SettleRun, Together, JobKnown, InOrder
<1>20. ASSUME SettleJob("parent") PROVE InOrder'
  BY <1>20, StoppingLabels, SettlingLabels, RegisteringLabels DEF SettleJob, InOrder
<1>21. ASSUME SettleJob("child") PROVE InOrder'
  BY <1>21, StoppingLabels, SettlingLabels, RegisteringLabels DEF SettleJob, InOrder
<1>22. ASSUME SettleJobEvent("parent") PROVE InOrder'
  BY <1>22, StoppingLabels, SettlingLabels, RegisteringLabels DEF SettleJobEvent, InOrder
<1>23. ASSUME SettleJobEvent("child") PROVE InOrder'
  BY <1>23, StoppingLabels, SettlingLabels, RegisteringLabels DEF SettleJobEvent, InOrder
<1>24. ASSUME SettleTaskEvent("parent") PROVE InOrder'
  BY <1>24, StoppingLabels, SettlingLabels, RegisteringLabels DEF SettleTaskEvent, InOrder
<1>25. ASSUME SettleTaskEvent("child") PROVE InOrder'
  BY <1>25, StoppingLabels, SettlingLabels, RegisteringLabels DEF SettleTaskEvent, InOrder
<1>26. ASSUME SettleRunEvent("parent") PROVE InOrder'
  BY <1>26, StoppingLabels, SettlingLabels, RegisteringLabels DEF SettleRunEvent, Together, JobKnown, InOrder
<1>27. ASSUME SettleRunEvent("child") PROVE InOrder'
  BY <1>27, StoppingLabels, SettlingLabels, RegisteringLabels DEF SettleRunEvent, Together, JobKnown, InOrder
<1>28. ASSUME NEW q \in Stoppers, StopLoads(q) PROVE InOrder'
  BY <1>28, StoppingLabels, SettlingLabels, RegisteringLabels DEF StopLoads, InOrder
<1>29. ASSUME NEW q \in Stoppers, StopLoadsJob(q) PROVE InOrder'
  <2>1. CASE jobRow = NoJob
    BY <1>29, <2>1, StoppingLabels DEF StopLoadsJob, InOrder
  <2>2. CASE ~(jobRow = NoJob)
    BY <1>29, <2>2, StoppingLabels DEF StopLoadsJob, InOrder
  <2> QED
    BY <2>1, <2>2
<1>30. ASSUME NEW q \in Stoppers, JobStopLoads(q) PROVE InOrder'
  BY <1>30, StoppingLabels, SettlingLabels, RegisteringLabels DEF JobStopLoads, InOrder
<1>31. ASSUME NEW q \in Stoppers,
              Kill(q, "kill", "stop job") \/ Kill(q, "kill only job", "stop only job")
       PROVE  InOrder'
  BY <1>31, StoppingLabels, SettlingLabels, RegisteringLabels DEF Kill, Early, Together, JobKnown, InOrder
<1>32. ASSUME NEW q \in Stoppers, StopChildJob(q) PROVE InOrder'
  BY <1>32, StoppingLabels, SettlingLabels, RegisteringLabels DEF StopChildJob, InOrder
<1>33. ASSUME NEW q \in Stoppers, StopTask(q) PROVE InOrder'
  BY <1>33, StoppingLabels, SettlingLabels, RegisteringLabels DEF StopTask, InOrder
<1>34. ASSUME NEW q \in Stoppers, StopRun(q) PROVE InOrder'
  BY <1>34, StoppingLabels, SettlingLabels, RegisteringLabels DEF StopRun, InOrder
<1>35. ASSUME NEW q \in Stoppers, StopJobEvent(q) PROVE InOrder'
  BY <1>35, StoppingLabels, SettlingLabels, RegisteringLabels DEF StopJobEvent, InOrder
<1>36. ASSUME NEW q \in Stoppers, StopTaskEvent(q) PROVE InOrder'
  BY <1>36, StoppingLabels, SettlingLabels, RegisteringLabels DEF StopTaskEvent, InOrder
<1>37. ASSUME NEW q \in Stoppers, StopOnlyJob(q) PROVE InOrder'
  BY <1>37, StoppingLabels, SettlingLabels, RegisteringLabels DEF StopOnlyJob, InOrder
<1>38. ASSUME Attach PROVE InOrder'
  BY <1>38, StoppingLabels, SettlingLabels, RegisteringLabels DEF Attach, InOrder
<1>39. ASSUME CancelTask PROVE InOrder'
  BY <1>39, StoppingLabels, SettlingLabels, RegisteringLabels DEF CancelTask, InOrder
<1>40. ASSUME NEW q \in Stoppers, UpdateTask(q) PROVE InOrder'
  BY <1>40, StoppingLabels, SettlingLabels, RegisteringLabels DEF UpdateTask, InOrder
<1>41. ASSUME NEW q \in Stoppers, UpdateTaskEvent(q) PROVE InOrder'
  BY <1>41, StoppingLabels, SettlingLabels, RegisteringLabels DEF UpdateTaskEvent, InOrder
<1> QED
  BY <1>1, <1>2, <1>3, <1>4, <1>5, <1>6, <1>7, <1>8, <1>9, <1>10, <1>11, <1>12, <1>13, <1>14, <1>15,
     <1>16, <1>17, <1>18, <1>19, <1>20, <1>21, <1>22, <1>23, <1>24, <1>25, <1>26, <1>27, <1>28, <1>29,
     <1>30, <1>31, <1>32, <1>33, <1>34, <1>35, <1>36, <1>37, <1>38, <1>39, <1>40, <1>41 DEF Step

\* Every step without a failure leaves the run settled, or somebody who will settle it.
LEMMA RunSettledStep ==
    ASSUME RowsOK, PlacesOK, ~MayFail, Together, InOrder, RunSettled, Step
    PROVE  RunSettled'
<1> runRow \in Run /\ \A p \in Procs : copies[p].run \in Run
  BY DEF RowsOK, Copy
<1> USE SubagentRunsAssumption DEF Procs, IsAt, GoesTo, Terminated, Ends, Forget
<1> DOMAIN at = Procs /\ DOMAIN ending = {"parent", "child"}
  BY DEF PlacesOK
<1> DOMAIN copies = Procs /\ \A p \in Procs : copies[p] \in Copy
  BY DEF RowsOK
<1> \A c \in Copy : DOMAIN c = {"run", "job"}
  BY DEF Copy
<1>1. ~ParentFails /\ ~ParentEnds /\ ~ChildEnds /\ \A q \in Stoppers : ~StopperEnds(q)
  BY DEF ParentFails, ParentEnds, ChildEnds, StopperEnds
<1>2. ASSUME InsertTask PROVE RunSettled'
  BY <1>2, SettlingLabels, RegisteringLabels DEF InsertTask, RunSettled, RunStops
<1>3. ASSUME InsertRun PROVE RunSettled'
  BY <1>3, SettlingLabels, RegisteringLabels DEF InsertRun, RunSettled, RunStops
<1>4. ASSUME ThreadEnds PROVE RunSettled'
  BY <1>4, SettlingLabels, RegisteringLabels DEF ThreadEnds, InOrder, RunSettled, RunStops
<1>5. ASSUME Promote PROVE RunSettled'
  BY <1>5, SettlingLabels, RegisteringLabels DEF Promote, RunSettled, RunStops
<1>6. ASSUME Promoted PROVE RunSettled'
  BY <1>6, SettlingLabels, RegisteringLabels DEF Promoted, InOrder, RunSettled, RunStops
<1>7. ASSUME StartChild PROVE RunSettled'
  BY <1>7, SettlingLabels, RegisteringLabels DEF StartChild, RunSettled, RunStops
<1>8. ASSUME InsertChildJob PROVE RunSettled'
  BY <1>8, SettlingLabels, RegisteringLabels DEF InsertChildJob, RunSettled, RunStops
<1>9. ASSUME JobStarted PROVE RunSettled'
  BY <1>9, SettlingLabels, RegisteringLabels DEF JobStarted, RunSettled, RunStops
<1>10. ASSUME InsertJobAgain PROVE RunSettled'
  BY <1>10, SettlingLabels, RegisteringLabels DEF InsertJobAgain, RunSettled, RunStops
<1>11. ASSUME ParentLoads PROVE RunSettled'
  BY <1>11, SettlingLabels, RegisteringLabels DEF ParentLoads, RunSettled, RunStops
<1>12. ASSUME ParentLinks PROVE RunSettled'
  BY <1>12, SettlingLabels, RegisteringLabels DEF ParentLinks, RunSettled, RunStops
<1>13. ASSUME ParentReturns PROVE RunSettled'
  BY <1>13, SettlingLabels, RegisteringLabels DEF ParentReturns, InOrder, RunSettled, RunStops
<1>14. ASSUME ChildFinishes PROVE RunSettled'
  BY <1>14, SettlingLabels, RegisteringLabels DEF ChildFinishes, RunSettled, RunStops
<1>15. ASSUME ChildLoads PROVE RunSettled'
  BY <1>15, SettlingLabels, RegisteringLabels DEF ChildLoads, Early, RunSettled, RunStops
<1>16. ASSUME SettleTask("parent") PROVE RunSettled'
  BY <1>16, SettlingLabels, RegisteringLabels DEF SettleTask, RunSettled, RunStops
<1>17. ASSUME SettleTask("child") PROVE RunSettled'
  BY <1>17, SettlingLabels, RegisteringLabels DEF SettleTask, RunSettled, RunStops
<1>18. ASSUME SettleRun("parent") PROVE RunSettled'
  <2>1. runRow'.status # "running"
    BY <1>18, RunRecorded
  <2> QED
    BY <2>1 DEF RunSettled
<1>19. ASSUME SettleRun("child") PROVE RunSettled'
  <2>1. runRow'.status # "running"
    BY <1>19, RunRecorded
  <2> QED
    BY <2>1 DEF RunSettled
<1>20. ASSUME SettleJob("parent") PROVE RunSettled'
  BY <1>20, SettlingLabels, RegisteringLabels DEF SettleJob, RunSettled, RunStops
<1>21. ASSUME SettleJob("child") PROVE RunSettled'
  BY <1>21, SettlingLabels, RegisteringLabels DEF SettleJob, RunSettled, RunStops
<1>22. ASSUME SettleJobEvent("parent") PROVE RunSettled'
  BY <1>22, SettlingLabels, RegisteringLabels DEF SettleJobEvent, RunSettled, RunStops
<1>23. ASSUME SettleJobEvent("child") PROVE RunSettled'
  BY <1>23, SettlingLabels, RegisteringLabels DEF SettleJobEvent, RunSettled, RunStops
<1>24. ASSUME SettleTaskEvent("parent") PROVE RunSettled'
  BY <1>24, SettlingLabels, RegisteringLabels DEF SettleTaskEvent, RunSettled, RunStops
<1>25. ASSUME SettleTaskEvent("child") PROVE RunSettled'
  BY <1>25, SettlingLabels, RegisteringLabels DEF SettleTaskEvent, RunSettled, RunStops
<1>26. ASSUME SettleRunEvent("parent") PROVE RunSettled'
  <2>1. runRow'.status # "running"
    BY <1>26, RunRecorded
  <2> QED
    BY <2>1 DEF RunSettled
<1>27. ASSUME SettleRunEvent("child") PROVE RunSettled'
  <2>1. runRow'.status # "running"
    BY <1>27, RunRecorded
  <2> QED
    BY <2>1 DEF RunSettled
<1>28. ASSUME NEW q \in Stoppers, StopLoads(q) PROVE RunSettled'
  BY <1>28, SettlingLabels, RegisteringLabels DEF StopLoads, RunSettled, RunStops
<1>29. ASSUME NEW q \in Stoppers, StopLoadsJob(q) PROVE RunSettled'
  BY <1>29, SettlingLabels, RegisteringLabels DEF StopLoadsJob, RunSettled, RunStops
<1>30. ASSUME NEW q \in Stoppers, JobStopLoads(q) PROVE RunSettled'
  BY <1>30, SettlingLabels, RegisteringLabels DEF JobStopLoads, RunSettled, RunStops
<1>31. ASSUME NEW q \in Stoppers,
              Kill(q, "kill", "stop job") \/ Kill(q, "kill only job", "stop only job")
       PROVE  RunSettled'
  BY <1>31, SettlingLabels, RegisteringLabels DEF Kill, Early, RunSettled, RunStops
<1>32. ASSUME NEW q \in Stoppers, StopChildJob(q) PROVE RunSettled'
  BY <1>32, SettlingLabels, RegisteringLabels DEF StopChildJob, RunSettled, RunStops
<1>33. ASSUME NEW q \in Stoppers, StopTask(q) PROVE RunSettled'
  BY <1>33, SettlingLabels, RegisteringLabels DEF StopTask, RunSettled, RunStops
<1>34. ASSUME NEW q \in Stoppers, StopRun(q) PROVE RunSettled'
  BY <1>34, Readings, SettlingLabels, RegisteringLabels DEF StopRun, RunSettled, RunStops
<1>35. ASSUME NEW q \in Stoppers, StopJobEvent(q) PROVE RunSettled'
  BY <1>35, SettlingLabels, RegisteringLabels DEF StopJobEvent, RunSettled, RunStops
<1>36. ASSUME NEW q \in Stoppers, StopTaskEvent(q) PROVE RunSettled'
  BY <1>36, SettlingLabels, RegisteringLabels DEF StopTaskEvent, RunSettled, RunStops
<1>37. ASSUME NEW q \in Stoppers, StopOnlyJob(q) PROVE RunSettled'
  BY <1>37, SettlingLabels, RegisteringLabels DEF StopOnlyJob, RunSettled, RunStops
<1>38. ASSUME Attach PROVE RunSettled'
  BY <1>38, SettlingLabels, RegisteringLabels DEF Attach, RunSettled, RunStops
<1>39. ASSUME CancelTask PROVE RunSettled'
  BY <1>39, SettlingLabels, RegisteringLabels DEF CancelTask, RunSettled, RunStops
<1>40. ASSUME NEW q \in Stoppers, UpdateTask(q) PROVE RunSettled'
  BY <1>40, SettlingLabels, RegisteringLabels DEF UpdateTask, RunSettled, RunStops
<1>41. ASSUME NEW q \in Stoppers, UpdateTaskEvent(q) PROVE RunSettled'
  BY <1>41, SettlingLabels, RegisteringLabels DEF UpdateTaskEvent, RunSettled, RunStops
<1> QED
  BY <1>1, <1>2, <1>3, <1>4, <1>5, <1>6, <1>7, <1>8, <1>9, <1>10, <1>11, <1>12, <1>13, <1>14, <1>15,
     <1>16, <1>17, <1>18, <1>19, <1>20, <1>21, <1>22, <1>23, <1>24, <1>25, <1>26, <1>27, <1>28, <1>29,
     <1>30, <1>31, <1>32, <1>33, <1>34, <1>35, <1>36, <1>37, <1>38, <1>39, <1>40, <1>41 DEF Step

\* Every step without a failure leaves the job settled, or somebody who will settle it.
LEMMA JobSettledStep ==
    ASSUME RowsOK, PlacesOK, ~MayFail, Together, JobKnown, InOrder, JobSettled, Step
    PROVE  JobSettled'
<1> jobRow \in Job /\ \A p \in Procs : copies[p].job \in Job
  BY DEF RowsOK, Copy
<1> USE SubagentRunsAssumption DEF Procs, IsAt, GoesTo, Terminated, Ends, Forget
<1> DOMAIN at = Procs /\ DOMAIN ending = {"parent", "child"}
  BY DEF PlacesOK
<1> DOMAIN copies = Procs /\ \A p \in Procs : copies[p] \in Copy
  BY DEF RowsOK
<1> \A c \in Copy : DOMAIN c = {"run", "job"}
  BY DEF Copy
<1>1. ~ParentFails /\ ~ParentEnds /\ ~ChildEnds /\ \A q \in Stoppers : ~StopperEnds(q)
  BY DEF ParentFails, ParentEnds, ChildEnds, StopperEnds
<1>2. ASSUME InsertTask PROVE JobSettled'
  BY <1>2, StoppingLabels, SettlingLabels, RegisteringLabels DEF InsertTask, JobSettled, JobStops
<1>3. ASSUME InsertRun PROVE JobSettled'
  BY <1>3, StoppingLabels, SettlingLabels, RegisteringLabels DEF InsertRun, JobSettled, JobStops
<1>4. ASSUME ThreadEnds PROVE JobSettled'
  BY <1>4, Readings, StoppingLabels, SettlingLabels, RegisteringLabels DEF ThreadEnds, JobKnown,
     JobSettled, JobStops
<1>5. ASSUME Promote PROVE JobSettled'
  BY <1>5, StoppingLabels, SettlingLabels, RegisteringLabels DEF Promote, JobSettled, JobStops
<1>6. ASSUME Promoted PROVE JobSettled'
  BY <1>6, Readings, StoppingLabels, SettlingLabels, RegisteringLabels DEF Promoted, JobKnown,
     JobSettled, JobStops
<1>7. ASSUME StartChild PROVE JobSettled'
  BY <1>7, StoppingLabels, SettlingLabels, RegisteringLabels DEF StartChild, JobSettled, JobStops
<1>8. ASSUME InsertChildJob PROVE JobSettled'
  BY <1>8, StoppingLabels, SettlingLabels, RegisteringLabels DEF InsertChildJob, JobSettled, JobStops
<1>9. ASSUME JobStarted PROVE JobSettled'
  BY <1>9, StoppingLabels, SettlingLabels, RegisteringLabels DEF JobStarted, JobSettled, JobStops
<1>10. ASSUME InsertJobAgain PROVE JobSettled'
  BY <1>10, StoppingLabels, SettlingLabels, RegisteringLabels DEF InsertJobAgain, JobSettled, JobStops
<1>11. ASSUME ParentLoads PROVE JobSettled'
  BY <1>11, StoppingLabels, SettlingLabels, RegisteringLabels DEF ParentLoads, JobSettled, JobStops
<1>12. ASSUME ParentLinks PROVE JobSettled'
  BY <1>12, StoppingLabels, SettlingLabels, RegisteringLabels DEF ParentLinks, JobSettled, JobStops
<1>13. ASSUME ParentReturns PROVE JobSettled'
  BY <1>13, StoppingLabels, SettlingLabels, RegisteringLabels DEF ParentReturns, InOrder, JobSettled, JobStops
<1>14. ASSUME ChildFinishes PROVE JobSettled'
  BY <1>14, StoppingLabels, SettlingLabels, RegisteringLabels DEF ChildFinishes, JobSettled, JobStops
<1>15. ASSUME ChildLoads PROVE JobSettled'
  BY <1>15, StoppingLabels, SettlingLabels, RegisteringLabels DEF ChildLoads, Early, JobSettled, JobStops
<1>16. ASSUME SettleTask("parent") PROVE JobSettled'
  BY <1>16, StoppingLabels, SettlingLabels, RegisteringLabels DEF SettleTask, JobSettled, JobStops
<1>17. ASSUME SettleTask("child") PROVE JobSettled'
  BY <1>17, StoppingLabels, SettlingLabels, RegisteringLabels DEF SettleTask, JobSettled, JobStops
<1>18. ASSUME SettleRun("parent") PROVE JobSettled'
  BY <1>18, StoppingLabels, SettlingLabels, RegisteringLabels DEF SettleRun, InOrder, JobSettled, JobStops
<1>19. ASSUME SettleRun("child") PROVE JobSettled'
  BY <1>19, StoppingLabels, SettlingLabels, RegisteringLabels DEF SettleRun, InOrder, JobSettled, JobStops
<1>20. ASSUME SettleJob("parent") PROVE JobSettled'
  BY <1>20, Readings, StoppingLabels, SettlingLabels, RegisteringLabels DEF SettleJob, JobSettled, JobStops
<1>21. ASSUME SettleJob("child") PROVE JobSettled'
  BY <1>21, Readings, StoppingLabels, SettlingLabels, RegisteringLabels DEF SettleJob, JobSettled, JobStops
<1>22. ASSUME SettleJobEvent("parent") PROVE JobSettled'
  BY <1>22, Readings, StoppingLabels, SettlingLabels, RegisteringLabels DEF SettleJobEvent, JobSettled,
     JobStops
<1>23. ASSUME SettleJobEvent("child") PROVE JobSettled'
  BY <1>23, Readings, StoppingLabels, SettlingLabels, RegisteringLabels DEF SettleJobEvent, JobSettled,
     JobStops
<1>24. ASSUME SettleTaskEvent("parent") PROVE JobSettled'
  BY <1>24, StoppingLabels, SettlingLabels, RegisteringLabels DEF SettleTaskEvent, JobSettled, JobStops
<1>25. ASSUME SettleTaskEvent("child") PROVE JobSettled'
  BY <1>25, StoppingLabels, SettlingLabels, RegisteringLabels DEF SettleTaskEvent, JobSettled, JobStops
<1>26. ASSUME SettleRunEvent("parent") PROVE JobSettled'
  BY <1>26, Readings, StoppingLabels, SettlingLabels, RegisteringLabels DEF SettleRunEvent, JobKnown,
     JobSettled, JobStops
<1>27. ASSUME SettleRunEvent("child") PROVE JobSettled'
  BY <1>27, Readings, StoppingLabels, SettlingLabels, RegisteringLabels DEF SettleRunEvent, JobKnown,
     JobSettled, JobStops
<1>28. ASSUME NEW q \in Stoppers, StopLoads(q) PROVE JobSettled'
  BY <1>28, StoppingLabels, SettlingLabels, RegisteringLabels DEF StopLoads, JobSettled, JobStops
<1>29. ASSUME NEW q \in Stoppers, StopLoadsJob(q) PROVE JobSettled'
  <2>1. CASE jobRow = NoJob
    BY <1>29, <2>1, <1>29, StoppingLabels DEF StopLoadsJob, JobSettled, JobStops
  <2>2. CASE ~(jobRow = NoJob)
    BY <1>29, <2>2, <1>29, StoppingLabels DEF StopLoadsJob, JobSettled, JobStops
  <2> QED
    BY <2>1, <2>2
<1>30. ASSUME NEW q \in Stoppers, JobStopLoads(q) PROVE JobSettled'
  BY <1>30, StoppingLabels, SettlingLabels, RegisteringLabels DEF JobStopLoads, JobSettled, JobStops
<1>31. ASSUME NEW q \in Stoppers,
              Kill(q, "kill", "stop job") \/ Kill(q, "kill only job", "stop only job")
       PROVE  JobSettled'
  BY <1>31, StoppingLabels, SettlingLabels, RegisteringLabels DEF Kill, Early, JobSettled, JobStops
<1>32. ASSUME NEW q \in Stoppers, StopChildJob(q) PROVE JobSettled'
  BY <1>32, Readings, StoppingLabels, SettlingLabels, RegisteringLabels DEF StopChildJob, JobSettled, JobStops
<1>33. ASSUME NEW q \in Stoppers, StopTask(q) PROVE JobSettled'
  BY <1>33, StoppingLabels, SettlingLabels, RegisteringLabels DEF StopTask, JobSettled, JobStops
<1>34. ASSUME NEW q \in Stoppers, StopRun(q) PROVE JobSettled'
  BY <1>34, StoppingLabels, SettlingLabels, RegisteringLabels DEF StopRun, JobSettled, JobStops
<1>35. ASSUME NEW q \in Stoppers, StopJobEvent(q) PROVE JobSettled'
  BY <1>35, Readings, StoppingLabels, SettlingLabels, RegisteringLabels DEF StopJobEvent, JobSettled, JobStops
<1>36. ASSUME NEW q \in Stoppers, StopTaskEvent(q) PROVE JobSettled'
  BY <1>36, StoppingLabels, SettlingLabels, RegisteringLabels DEF StopTaskEvent, JobSettled, JobStops
<1>37. ASSUME NEW q \in Stoppers, StopOnlyJob(q) PROVE JobSettled'
  BY <1>37, Readings, StoppingLabels, SettlingLabels, RegisteringLabels DEF StopOnlyJob, JobSettled, JobStops
<1>38. ASSUME Attach PROVE JobSettled'
  BY <1>38, StoppingLabels, SettlingLabels, RegisteringLabels DEF Attach, JobSettled, JobStops
<1>39. ASSUME CancelTask PROVE JobSettled'
  BY <1>39, StoppingLabels, SettlingLabels, RegisteringLabels DEF CancelTask, JobSettled, JobStops
<1>40. ASSUME NEW q \in Stoppers, UpdateTask(q) PROVE JobSettled'
  BY <1>40, StoppingLabels, SettlingLabels, RegisteringLabels DEF UpdateTask, JobSettled, JobStops
<1>41. ASSUME NEW q \in Stoppers, UpdateTaskEvent(q) PROVE JobSettled'
  BY <1>41, StoppingLabels, SettlingLabels, RegisteringLabels DEF UpdateTaskEvent, JobSettled, JobStops
<1> QED
  BY <1>1, <1>2, <1>3, <1>4, <1>5, <1>6, <1>7, <1>8, <1>9, <1>10, <1>11, <1>12, <1>13, <1>14, <1>15,
     <1>16, <1>17, <1>18, <1>19, <1>20, <1>21, <1>22, <1>23, <1>24, <1>25, <1>26, <1>27, <1>28, <1>29,
     <1>30, <1>31, <1>32, <1>33, <1>34, <1>35, <1>36, <1>37, <1>38, <1>39, <1>40, <1>41 DEF Step

-----------------------------------------------------------------------------
(* Delegated runs: one writer at a time *)

\* While no overlap has happened there is one writer at most.
LEMMA OneWriterStep ==
    ASSUME PlacesOK', overlap' = (overlap \/ \E p, o \in Writing' : p # o)
    PROVE  ~overlap' => ~overlap /\ OneWriter'
<1> SUFFICES ASSUME ~overlap' PROVE OneWriter' /\ ~overlap
  OBVIOUS
<1>1. \A p, o \in Writing' : p = o
  OBVIOUS
<1>2. ParentWrites' => "parent" \in Writing'
  BY DEF Writing, ParentWrites, PlacesOK, ParentPlaces, Registering, Linking, Settling, Procs
<1>3. ChildWrites' => "child" \in Writing'
  BY DEF Writing, ChildWrites, PlacesOK, ChildPlaces, Settling, Procs
<1>4. \A q \in Stoppers : StopperWrites(q)' => q \in Writing'
  BY DEF Writing, StopperWrites, PlacesOK, StopperPlaces, Stopping, StoppingJob, Procs
<1> QED
  BY <1>1, <1>2, <1>3, <1>4, SubagentRunsAssumption DEF OneWriter

\* Every step by a single writer keeps the pid of a working child in its job (JobStarted, background attach).
LEMMA PidKnownStep ==
    ASSUME RowsOK, PlacesOK, ~MayFail, Together, PidKnown, StopsLast, OneWriter, OneWriter', Step
    PROVE  PidKnown'
<1> /\ runRow \in Run /\ taskRow \in Task /\ jobRow \in Job
    /\ \A p \in Procs : copies[p].job \in Job /\ copies[p].run \in Run
  BY DEF RowsOK, Copy
<1> USE SubagentRunsAssumption DEF Procs, IsAt, GoesTo, Terminated, Ends, Forget
<1> DOMAIN at = Procs /\ DOMAIN ending = {"parent", "child"}
  BY DEF PlacesOK
<1> DOMAIN copies = Procs /\ \A p \in Procs : copies[p] \in Copy
  BY DEF RowsOK
<1> \A c \in Copy : DOMAIN c = {"run", "job"}
  BY DEF Copy
<1>1. ~ParentFails /\ ~ParentEnds /\ ~ChildEnds /\ \A q \in Stoppers : ~StopperEnds(q)
  BY DEF ParentFails, ParentEnds, ChildEnds, StopperEnds
<1>2. ASSUME InsertTask PROVE PidKnown'
  BY <1>2, StoppingLabels, SettlingLabels, RegisteringLabels DEF InsertTask, PidKnown, Alive
<1>3. ASSUME InsertRun PROVE PidKnown'
  BY <1>3, StoppingLabels, SettlingLabels, RegisteringLabels DEF InsertRun, Together, PidKnown, Alive
<1>4. ASSUME ThreadEnds PROVE PidKnown'
  BY <1>4, StoppingLabels, SettlingLabels, RegisteringLabels DEF ThreadEnds, Together, PidKnown, Alive
<1>5. ASSUME Promote PROVE PidKnown'
  BY <1>5, StoppingLabels, SettlingLabels, RegisteringLabels DEF Promote, PidKnown, Alive
<1>6. ASSUME Promoted PROVE PidKnown'
  BY <1>6, StoppingLabels, SettlingLabels, RegisteringLabels DEF Promoted, Together, PidKnown, Alive
<1>7. ASSUME StartChild PROVE PidKnown'
  BY <1>7, StoppingLabels, SettlingLabels, RegisteringLabels DEF StartChild, PidKnown, Alive
<1>8. ASSUME InsertChildJob PROVE PidKnown'
  BY <1>8, StoppingLabels, SettlingLabels, RegisteringLabels DEF InsertChildJob, PidKnown, Alive
<1>9. ASSUME JobStarted PROVE PidKnown'
  BY <1>9, StoppingLabels, SettlingLabels, RegisteringLabels DEF JobStarted, PidKnown, Alive
<1>10. ASSUME InsertJobAgain PROVE PidKnown'
  BY <1>10, Readings, StoppingLabels, SettlingLabels, RegisteringLabels DEF InsertJobAgain, PidKnown, Alive
<1>11. ASSUME ParentLoads PROVE PidKnown'
  BY <1>11, StoppingLabels, SettlingLabels, RegisteringLabels DEF ParentLoads, PidKnown, Alive
<1>12. ASSUME ParentLinks PROVE PidKnown'
  BY <1>12, StoppingLabels, SettlingLabels, RegisteringLabels DEF ParentLinks, PidKnown, Alive
<1>13. ASSUME ParentReturns PROVE PidKnown'
  BY <1>13, StoppingLabels, SettlingLabels, RegisteringLabels DEF ParentReturns, PidKnown, Alive
<1>14. ASSUME ChildFinishes PROVE PidKnown'
  BY <1>14, StoppingLabels, SettlingLabels, RegisteringLabels DEF ChildFinishes, PidKnown, Alive
<1>15. ASSUME ChildLoads PROVE PidKnown'
  BY <1>15, StoppingLabels, SettlingLabels, RegisteringLabels DEF ChildLoads, PidKnown, Alive
<1>16. ASSUME SettleTask("parent") PROVE PidKnown'
  BY <1>16, StoppingLabels, SettlingLabels, RegisteringLabels DEF SettleTask, PidKnown, Alive
<1>17. ASSUME SettleTask("child") PROVE PidKnown'
  BY <1>17, StoppingLabels, SettlingLabels, RegisteringLabels DEF SettleTask, PidKnown, Alive
<1>18. ASSUME SettleRun("parent") PROVE PidKnown'
  BY <1>18, StoppingLabels, SettlingLabels, RegisteringLabels DEF SettleRun, PidKnown, Alive
<1>19. ASSUME SettleRun("child") PROVE PidKnown'
  BY <1>19, StoppingLabels, SettlingLabels, RegisteringLabels DEF SettleRun, PidKnown, Alive
<1>20. ASSUME SettleJob("parent") PROVE PidKnown'
  BY <1>20, StoppingLabels, SettlingLabels, RegisteringLabels DEF SettleJob, Together, CopiesKnown,
     PidKnown, Alive
<1>21. ASSUME SettleJob("child") PROVE PidKnown'
  BY <1>21, StoppingLabels, SettlingLabels, RegisteringLabels DEF SettleJob, Together, CopiesKnown,
     PidKnown, Alive
<1>22. ASSUME SettleJobEvent("parent") PROVE PidKnown'
  BY <1>22, StoppingLabels, SettlingLabels, RegisteringLabels DEF SettleJobEvent, Together, PidKnown, Alive
<1>23. ASSUME SettleJobEvent("child") PROVE PidKnown'
  BY <1>23, StoppingLabels, SettlingLabels, RegisteringLabels DEF SettleJobEvent, Together, PidKnown, Alive
<1>24. ASSUME SettleTaskEvent("parent") PROVE PidKnown'
  BY <1>24, StoppingLabels, SettlingLabels, RegisteringLabels DEF SettleTaskEvent, PidKnown, Alive
<1>25. ASSUME SettleTaskEvent("child") PROVE PidKnown'
  BY <1>25, StoppingLabels, SettlingLabels, RegisteringLabels DEF SettleTaskEvent, PidKnown, Alive
<1>26. ASSUME SettleRunEvent("parent") PROVE PidKnown'
  BY <1>26, StoppingLabels, SettlingLabels, RegisteringLabels DEF SettleRunEvent, Together, PidKnown, Alive
<1>27. ASSUME SettleRunEvent("child") PROVE PidKnown'
  BY <1>27, StoppingLabels, SettlingLabels, RegisteringLabels DEF SettleRunEvent, Together, PidKnown, Alive
<1>28. ASSUME NEW q \in Stoppers, StopLoads(q) PROVE PidKnown'
  BY <1>28, StoppingLabels, SettlingLabels, RegisteringLabels DEF StopLoads, PidKnown, Alive
<1>29. ASSUME NEW q \in Stoppers, StopLoadsJob(q) PROVE PidKnown'
  BY <1>29, StoppingLabels, SettlingLabels, RegisteringLabels DEF StopLoadsJob, PidKnown, Alive
<1>30. ASSUME NEW q \in Stoppers, JobStopLoads(q) PROVE PidKnown'
  BY <1>30, StoppingLabels, SettlingLabels, RegisteringLabels DEF JobStopLoads, PidKnown, Alive
<1>31. ASSUME NEW q \in Stoppers,
              Kill(q, "kill", "stop job") \/ Kill(q, "kill only job", "stop only job")
       PROVE  PidKnown'
  BY <1>31, StoppingLabels, SettlingLabels, RegisteringLabels DEF Kill, Early, PidKnown, Alive
<1>32. ASSUME NEW q \in Stoppers, StopChildJob(q) PROVE PidKnown'
  BY <1>32, StoppingLabels, SettlingLabels, RegisteringLabels DEF StopChildJob, StopsLast, PidKnown, Alive
<1>33. ASSUME NEW q \in Stoppers, StopTask(q) PROVE PidKnown'
  BY <1>33, StoppingLabels, SettlingLabels, RegisteringLabels DEF StopTask, PidKnown, Alive
<1>34. ASSUME NEW q \in Stoppers, StopRun(q) PROVE PidKnown'
  BY <1>34, StoppingLabels, SettlingLabels, RegisteringLabels DEF StopRun, PidKnown, Alive
<1>35. ASSUME NEW q \in Stoppers, StopJobEvent(q) PROVE PidKnown'
  BY <1>35, StoppingLabels, SettlingLabels, RegisteringLabels DEF StopJobEvent, StopsLast, PidKnown, Alive
<1>36. ASSUME NEW q \in Stoppers, StopTaskEvent(q) PROVE PidKnown'
  BY <1>36, StoppingLabels, SettlingLabels, RegisteringLabels DEF StopTaskEvent, PidKnown, Alive
<1>37. ASSUME NEW q \in Stoppers, StopOnlyJob(q) PROVE PidKnown'
  BY <1>37, StoppingLabels, SettlingLabels, RegisteringLabels DEF StopOnlyJob, StopsLast, PidKnown, Alive
<1>38. ASSUME Attach PROVE PidKnown'
  <2>1. jobRow'.pid = jobRow.pid
    BY <1>38, Readings DEF Attach
  <2> QED
    BY <1>38, <2>1 DEF Attach, PidKnown, Alive
<1>39. ASSUME CancelTask PROVE PidKnown'
  BY <1>39, StoppingLabels, SettlingLabels, RegisteringLabels DEF CancelTask, PidKnown, Alive
<1>40. ASSUME NEW q \in Stoppers, UpdateTask(q) PROVE PidKnown'
  BY <1>40, StoppingLabels, SettlingLabels, RegisteringLabels DEF UpdateTask, PidKnown, Alive
<1>41. ASSUME NEW q \in Stoppers, UpdateTaskEvent(q) PROVE PidKnown'
  BY <1>41, StoppingLabels, SettlingLabels, RegisteringLabels DEF UpdateTaskEvent, PidKnown, Alive
<1> QED
  BY <1>1, <1>2, <1>3, <1>4, <1>5, <1>6, <1>7, <1>8, <1>9, <1>10, <1>11, <1>12, <1>13, <1>14, <1>15,
     <1>16, <1>17, <1>18, <1>19, <1>20, <1>21, <1>22, <1>23, <1>24, <1>25, <1>26, <1>27, <1>28, <1>29,
     <1>30, <1>31, <1>32, <1>33, <1>34, <1>35, <1>36, <1>37, <1>38, <1>39, <1>40, <1>41 DEF Step

\* Every step by a single writer keeps the pid in the copies of those who kill (task_stop, background stop).
LEMMA KillingStep ==
    ASSUME RowsOK, PlacesOK, ~MayFail, Together, PidKnown, Killing, OneWriter, OneWriter', Step
    PROVE  Killing'
<1> /\ runRow \in Run /\ taskRow \in Task /\ jobRow \in Job
    /\ \A p \in Procs : copies[p].job \in Job /\ copies[p].run \in Run
  BY DEF RowsOK, Copy
<1> USE SubagentRunsAssumption DEF Procs, IsAt, GoesTo, Terminated, Ends, Forget
<1> DOMAIN at = Procs /\ DOMAIN ending = {"parent", "child"}
  BY DEF PlacesOK
<1> DOMAIN copies = Procs /\ \A p \in Procs : copies[p] \in Copy
  BY DEF RowsOK
<1> \A c \in Copy : DOMAIN c = {"run", "job"}
  BY DEF Copy
<1>1. ~ParentFails /\ ~ParentEnds /\ ~ChildEnds /\ \A q \in Stoppers : ~StopperEnds(q)
  BY DEF ParentFails, ParentEnds, ChildEnds, StopperEnds
<1>2. ASSUME InsertTask PROVE Killing'
  BY <1>2, StoppingLabels DEF InsertTask, Killing, Alive
<1>3. ASSUME InsertRun PROVE Killing'
  BY <1>3, StoppingLabels DEF InsertRun, Killing, Alive
<1>4. ASSUME ThreadEnds PROVE Killing'
  BY <1>4, StoppingLabels DEF ThreadEnds, Killing, Alive
<1>5. ASSUME Promote PROVE Killing'
  BY <1>5, StoppingLabels DEF Promote, Killing, Alive
<1>6. ASSUME Promoted PROVE Killing'
  BY <1>6, StoppingLabels DEF Promoted, Killing, Alive
<1>7. ASSUME StartChild PROVE Killing'
  BY <1>7, StoppingLabels DEF StartChild, OneWriter, ParentWrites, ChildWrites, StopperWrites, Killing, Alive
<1>8. ASSUME InsertChildJob PROVE Killing'
  BY <1>8, StoppingLabels DEF InsertChildJob, Killing, Alive
<1>9. ASSUME JobStarted PROVE Killing'
  BY <1>9, StoppingLabels DEF JobStarted, Killing, Alive
<1>10. ASSUME InsertJobAgain PROVE Killing'
  BY <1>10, StoppingLabels DEF InsertJobAgain, Killing, Alive
<1>11. ASSUME ParentLoads PROVE Killing'
  BY <1>11, StoppingLabels DEF ParentLoads, Killing, Alive
<1>12. ASSUME ParentLinks PROVE Killing'
  BY <1>12, StoppingLabels DEF ParentLinks, Killing, Alive
<1>13. ASSUME ParentReturns PROVE Killing'
  BY <1>13, StoppingLabels DEF ParentReturns, Killing, Alive
<1>14. ASSUME ChildFinishes PROVE Killing'
  BY <1>14, StoppingLabels DEF ChildFinishes, Killing, Alive
<1>15. ASSUME ChildLoads PROVE Killing'
  BY <1>15, StoppingLabels DEF ChildLoads, Killing, Alive
<1>16. ASSUME SettleTask("parent") PROVE Killing'
  BY <1>16, StoppingLabels DEF SettleTask, Killing, Alive
<1>17. ASSUME SettleTask("child") PROVE Killing'
  BY <1>17, StoppingLabels DEF SettleTask, Killing, Alive
<1>18. ASSUME SettleRun("parent") PROVE Killing'
  BY <1>18, StoppingLabels DEF SettleRun, Killing, Alive
<1>19. ASSUME SettleRun("child") PROVE Killing'
  BY <1>19, StoppingLabels DEF SettleRun, Killing, Alive
<1>20. ASSUME SettleJob("parent") PROVE Killing'
  BY <1>20, StoppingLabels DEF SettleJob, Killing, Alive
<1>21. ASSUME SettleJob("child") PROVE Killing'
  BY <1>21, StoppingLabels DEF SettleJob, Killing, Alive
<1>22. ASSUME SettleJobEvent("parent") PROVE Killing'
  BY <1>22, StoppingLabels DEF SettleJobEvent, Killing, Alive
<1>23. ASSUME SettleJobEvent("child") PROVE Killing'
  BY <1>23, StoppingLabels DEF SettleJobEvent, Killing, Alive
<1>24. ASSUME SettleTaskEvent("parent") PROVE Killing'
  BY <1>24, StoppingLabels DEF SettleTaskEvent, Killing, Alive
<1>25. ASSUME SettleTaskEvent("child") PROVE Killing'
  BY <1>25, StoppingLabels DEF SettleTaskEvent, Killing, Alive
<1>26. ASSUME SettleRunEvent("parent") PROVE Killing'
  BY <1>26, StoppingLabels DEF SettleRunEvent, Killing, Alive
<1>27. ASSUME SettleRunEvent("child") PROVE Killing'
  BY <1>27, StoppingLabels DEF SettleRunEvent, Killing, Alive
<1>28. ASSUME NEW q \in Stoppers, StopLoads(q) PROVE Killing'
  BY <1>28, StoppingLabels DEF StopLoads, Killing, Alive
<1>29. ASSUME NEW q \in Stoppers, StopLoadsJob(q) PROVE Killing'
  <2>1. CASE jobRow = NoJob
    BY <1>29, <2>1 DEF StopLoadsJob, Killing, Alive
  <2>2. CASE jobRow # NoJob
    <3>1. Alive => at["parent"] = "done"
      BY <1>29, RegisteringLabels DEF StopLoadsJob, Together, Alive, OneWriter, StopperWrites, ParentWrites
    <3>2. Alive => jobRow.pid
      BY <3>1 DEF PidKnown
    <3>3. copies' = [copies EXCEPT ![q].job = jobRow] /\ at' = [at EXCEPT ![q] = "kill"]
      BY <1>29, <2>2 DEF StopLoadsJob
    <3> QED
      BY <3>2, <3>3 DEF Killing, Alive
  <2> QED
    BY <2>1, <2>2
<1>30. ASSUME NEW q \in Stoppers, JobStopLoads(q) PROVE Killing'
  <2>1. at["parent"] # "done" => ~Alive
    BY <1>30, RegisteringLabels DEF JobStopLoads, Together, Alive, OneWriter, StopperWrites, ParentWrites
  <2>2. Alive => jobRow.pid
    BY <2>1 DEF PidKnown
  <2>3. copies' = [copies EXCEPT ![q].job = jobRow] /\ at' = [at EXCEPT ![q] = "kill only job"]
    BY <1>30 DEF JobStopLoads
  <2> QED
    BY <2>2, <2>3 DEF Killing, Alive
<1>31. ASSUME NEW q \in Stoppers,
              Kill(q, "kill", "stop job") \/ Kill(q, "kill only job", "stop only job")
       PROVE  Killing'
  BY <1>31, StoppingLabels DEF Kill, Killing, Alive
<1>32. ASSUME NEW q \in Stoppers, StopChildJob(q) PROVE Killing'
  BY <1>32, StoppingLabels DEF StopChildJob, Killing, Alive
<1>33. ASSUME NEW q \in Stoppers, StopTask(q) PROVE Killing'
  BY <1>33, StoppingLabels DEF StopTask, Killing, Alive
<1>34. ASSUME NEW q \in Stoppers, StopRun(q) PROVE Killing'
  BY <1>34, StoppingLabels DEF StopRun, Killing, Alive
<1>35. ASSUME NEW q \in Stoppers, StopJobEvent(q) PROVE Killing'
  BY <1>35, StoppingLabels DEF StopJobEvent, Killing, Alive
<1>36. ASSUME NEW q \in Stoppers, StopTaskEvent(q) PROVE Killing'
  BY <1>36, StoppingLabels DEF StopTaskEvent, Killing, Alive
<1>37. ASSUME NEW q \in Stoppers, StopOnlyJob(q) PROVE Killing'
  BY <1>37, StoppingLabels DEF StopOnlyJob, Killing, Alive
<1>38. ASSUME Attach PROVE Killing'
  BY <1>38, StoppingLabels DEF Attach, Killing, Alive
<1>39. ASSUME CancelTask PROVE Killing'
  BY <1>39, StoppingLabels DEF CancelTask, Killing, Alive
<1>40. ASSUME NEW q \in Stoppers, UpdateTask(q) PROVE Killing'
  BY <1>40, StoppingLabels DEF UpdateTask, Killing, Alive
<1>41. ASSUME NEW q \in Stoppers, UpdateTaskEvent(q) PROVE Killing'
  BY <1>41, StoppingLabels DEF UpdateTaskEvent, Killing, Alive
<1> QED
  BY <1>1, <1>2, <1>3, <1>4, <1>5, <1>6, <1>7, <1>8, <1>9, <1>10, <1>11, <1>12, <1>13, <1>14, <1>15,
     <1>16, <1>17, <1>18, <1>19, <1>20, <1>21, <1>22, <1>23, <1>24, <1>25, <1>26, <1>27, <1>28, <1>29,
     <1>30, <1>31, <1>32, <1>33, <1>34, <1>35, <1>36, <1>37, <1>38, <1>39, <1>40, <1>41 DEF Step

\* The kill of a single writer ends the child, so the writes of the stop come last (task_stop).
LEMMA StopsLastStep ==
    ASSUME RowsOK, PlacesOK, ~MayFail, Together, JobKnown, Killing, StopsLast, OneWriter, OneWriter', Step
    PROVE  StopsLast'
<1> /\ runRow \in Run /\ taskRow \in Task /\ jobRow \in Job
    /\ \A p \in Procs : copies[p].job \in Job /\ copies[p].run \in Run
  BY DEF RowsOK, Copy
<1> USE SubagentRunsAssumption DEF Procs, IsAt, GoesTo, Terminated, Ends, Forget
<1> DOMAIN at = Procs /\ DOMAIN ending = {"parent", "child"}
  BY DEF PlacesOK
<1> DOMAIN copies = Procs /\ \A p \in Procs : copies[p] \in Copy
  BY DEF RowsOK
<1> \A c \in Copy : DOMAIN c = {"run", "job"}
  BY DEF Copy
<1>1. ~ParentFails /\ ~ParentEnds /\ ~ChildEnds /\ \A q \in Stoppers : ~StopperEnds(q)
  BY DEF ParentFails, ParentEnds, ChildEnds, StopperEnds
<1>2. ASSUME InsertTask PROVE StopsLast'
  BY <1>2, StoppingLabels DEF InsertTask, StopsLast
<1>3. ASSUME InsertRun PROVE StopsLast'
  BY <1>3, StoppingLabels DEF InsertRun, StopsLast
<1>4. ASSUME ThreadEnds PROVE StopsLast'
  BY <1>4, StoppingLabels DEF ThreadEnds, StopsLast
<1>5. ASSUME Promote PROVE StopsLast'
  BY <1>5, StoppingLabels DEF Promote, StopsLast
<1>6. ASSUME Promoted PROVE StopsLast'
  BY <1>6, StoppingLabels DEF Promoted, StopsLast
<1>7. ASSUME StartChild PROVE StopsLast'
  BY <1>7, StoppingLabels DEF StartChild, StopsLast
<1>8. ASSUME InsertChildJob PROVE StopsLast'
  BY <1>8, StoppingLabels DEF InsertChildJob, StopsLast
<1>9. ASSUME JobStarted PROVE StopsLast'
  BY <1>9, StoppingLabels DEF JobStarted, StopsLast
<1>10. ASSUME InsertJobAgain PROVE StopsLast'
  BY <1>10, StoppingLabels DEF InsertJobAgain, StopsLast
<1>11. ASSUME ParentLoads PROVE StopsLast'
  BY <1>11, StoppingLabels DEF ParentLoads, StopsLast
<1>12. ASSUME ParentLinks PROVE StopsLast'
  BY <1>12, StoppingLabels DEF ParentLinks, StopsLast
<1>13. ASSUME ParentReturns PROVE StopsLast'
  BY <1>13, StoppingLabels DEF ParentReturns, StopsLast
<1>14. ASSUME ChildFinishes PROVE StopsLast'
  BY <1>14, StoppingLabels DEF ChildFinishes, StopsLast
<1>15. ASSUME ChildLoads PROVE StopsLast'
  BY <1>15, StoppingLabels DEF ChildLoads, StopsLast
<1>16. ASSUME SettleTask("parent") PROVE StopsLast'
  BY <1>16, StoppingLabels DEF SettleTask, StopsLast
<1>17. ASSUME SettleTask("child") PROVE StopsLast'
  BY <1>17, StoppingLabels DEF SettleTask, StopsLast
<1>18. ASSUME SettleRun("parent") PROVE StopsLast'
  BY <1>18, StoppingLabels DEF SettleRun, StopsLast
<1>19. ASSUME SettleRun("child") PROVE StopsLast'
  BY <1>19, StoppingLabels DEF SettleRun, StopsLast
<1>20. ASSUME SettleJob("parent") PROVE StopsLast'
  BY <1>20, StoppingLabels DEF SettleJob, StopsLast
<1>21. ASSUME SettleJob("child") PROVE StopsLast'
  BY <1>21, StoppingLabels DEF SettleJob, StopsLast
<1>22. ASSUME SettleJobEvent("parent") PROVE StopsLast'
  BY <1>22, StoppingLabels DEF SettleJobEvent, StopsLast
<1>23. ASSUME SettleJobEvent("child") PROVE StopsLast'
  BY <1>23, StoppingLabels DEF SettleJobEvent, StopsLast
<1>24. ASSUME SettleTaskEvent("parent") PROVE StopsLast'
  BY <1>24, StoppingLabels DEF SettleTaskEvent, StopsLast
<1>25. ASSUME SettleTaskEvent("child") PROVE StopsLast'
  BY <1>25, StoppingLabels DEF SettleTaskEvent, StopsLast
<1>26. ASSUME SettleRunEvent("parent") PROVE StopsLast'
  BY <1>26, StoppingLabels DEF SettleRunEvent, StopsLast
<1>27. ASSUME SettleRunEvent("child") PROVE StopsLast'
  BY <1>27, StoppingLabels DEF SettleRunEvent, StopsLast
<1>28. ASSUME NEW q \in Stoppers, StopLoads(q) PROVE StopsLast'
  BY <1>28, StoppingLabels DEF StopLoads, StopsLast
<1>29. ASSUME NEW q \in Stoppers, StopLoadsJob(q) PROVE StopsLast'
  BY <1>29, StoppingLabels DEF StopLoadsJob, StopsLast
<1>30. ASSUME NEW q \in Stoppers, JobStopLoads(q) PROVE StopsLast'
  BY <1>30, StoppingLabels DEF JobStopLoads, StopsLast
<1>31. ASSUME NEW q \in Stoppers,
              Kill(q, "kill", "stop job") \/ Kill(q, "kill only job", "stop only job")
       PROVE  StopsLast'
  <2>1. StopperWrites(q) /\ (at[q] = "kill" \/ at[q] = "kill only job")
    BY <1>31 DEF Kill, StopperWrites
  <2>2. ~ParentWrites /\ ~ChildWrites
    BY <2>1 DEF OneWriter
  <2>3. jobRow # NoJob
    BY <2>1 DEF JobKnown
  <2>4. at["child"] \in {"working", "done"} /\ at["parent"] \in {"wait", "done"}
    BY <2>2, <2>3 DEF JobKnown, ChildWrites, ParentWrites
  <2>5. at["parent"] = "done"
    BY <2>4 DEF Together
  <2>6. at["child"] = "working" => copies[q].job.pid
    BY <2>1 DEF Killing, Alive
  <2>7. at' = [at EXCEPT ![q] = at'[q], !["child"] = "done"]
    BY <1>31, <2>4, <2>6 DEF Kill
  <2> QED
    BY <2>4, <2>5, <2>7 DEF StopsLast
<1>32. ASSUME NEW q \in Stoppers, StopChildJob(q) PROVE StopsLast'
  BY <1>32, StoppingLabels DEF StopChildJob, StopsLast
<1>33. ASSUME NEW q \in Stoppers, StopTask(q) PROVE StopsLast'
  BY <1>33, StoppingLabels DEF StopTask, StopsLast
<1>34. ASSUME NEW q \in Stoppers, StopRun(q) PROVE StopsLast'
  BY <1>34, StoppingLabels DEF StopRun, StopsLast
<1>35. ASSUME NEW q \in Stoppers, StopJobEvent(q) PROVE StopsLast'
  BY <1>35, StoppingLabels DEF StopJobEvent, StopsLast
<1>36. ASSUME NEW q \in Stoppers, StopTaskEvent(q) PROVE StopsLast'
  BY <1>36, StoppingLabels DEF StopTaskEvent, StopsLast
<1>37. ASSUME NEW q \in Stoppers, StopOnlyJob(q) PROVE StopsLast'
  BY <1>37, StoppingLabels DEF StopOnlyJob, StopsLast
<1>38. ASSUME Attach PROVE StopsLast'
  BY <1>38, StoppingLabels DEF Attach, StopsLast
<1>39. ASSUME CancelTask PROVE StopsLast'
  BY <1>39, StoppingLabels DEF CancelTask, StopsLast
<1>40. ASSUME NEW q \in Stoppers, UpdateTask(q) PROVE StopsLast'
  BY <1>40, StoppingLabels DEF UpdateTask, StopsLast
<1>41. ASSUME NEW q \in Stoppers, UpdateTaskEvent(q) PROVE StopsLast'
  BY <1>41, StoppingLabels DEF UpdateTaskEvent, StopsLast
<1> QED
  BY <1>1, <1>2, <1>3, <1>4, <1>5, <1>6, <1>7, <1>8, <1>9, <1>10, <1>11, <1>12, <1>13, <1>14, <1>15,
     <1>16, <1>17, <1>18, <1>19, <1>20, <1>21, <1>22, <1>23, <1>24, <1>25, <1>26, <1>27, <1>28, <1>29,
     <1>30, <1>31, <1>32, <1>33, <1>34, <1>35, <1>36, <1>37, <1>38, <1>39, <1>40, <1>41 DEF Step

\* Every step by a single writer keeps a stopped run behind parent and child.
LEMMA StoppedLastStep ==
    ASSUME RowsOK, PlacesOK, ~MayFail, StopsLast, StoppedLast, Step
    PROVE  StoppedLast'
<1> /\ runRow \in Run /\ taskRow \in Task /\ jobRow \in Job
    /\ \A p \in Procs : copies[p].job \in Job /\ copies[p].run \in Run
  BY DEF RowsOK, Copy
<1> USE SubagentRunsAssumption DEF Procs, IsAt, GoesTo, Terminated, Ends, Forget
<1> DOMAIN at = Procs /\ DOMAIN ending = {"parent", "child"}
  BY DEF PlacesOK
<1> DOMAIN copies = Procs /\ \A p \in Procs : copies[p] \in Copy
  BY DEF RowsOK
<1> \A c \in Copy : DOMAIN c = {"run", "job"}
  BY DEF Copy
<1>1. ~ParentFails /\ ~ParentEnds /\ ~ChildEnds /\ \A q \in Stoppers : ~StopperEnds(q)
  BY DEF ParentFails, ParentEnds, ChildEnds, StopperEnds
<1>2. ASSUME InsertTask PROVE StoppedLast'
  BY <1>2, StoppingLabels DEF InsertTask, StoppedLast
<1>3. ASSUME InsertRun PROVE StoppedLast'
  <2>1. runRow'.status # "stopped"
    BY <1>3, Readings DEF InsertRun
  <2> QED
    BY <2>1 DEF StoppedLast
<1>4. ASSUME ThreadEnds PROVE StoppedLast'
  BY <1>4, StoppingLabels DEF ThreadEnds, StoppedLast
<1>5. ASSUME Promote PROVE StoppedLast'
  BY <1>5, StoppingLabels DEF Promote, StoppedLast
<1>6. ASSUME Promoted PROVE StoppedLast'
  BY <1>6, Readings, StoppingLabels DEF Promoted, StoppedLast
<1>7. ASSUME StartChild PROVE StoppedLast'
  BY <1>7, StoppingLabels DEF StartChild, StoppedLast
<1>8. ASSUME InsertChildJob PROVE StoppedLast'
  BY <1>8, StoppingLabels DEF InsertChildJob, StoppedLast
<1>9. ASSUME JobStarted PROVE StoppedLast'
  BY <1>9, StoppingLabels DEF JobStarted, StoppedLast
<1>10. ASSUME InsertJobAgain PROVE StoppedLast'
  BY <1>10, StoppingLabels DEF InsertJobAgain, StoppedLast
<1>11. ASSUME ParentLoads PROVE StoppedLast'
  BY <1>11, StoppingLabels DEF ParentLoads, StoppedLast
<1>12. ASSUME ParentLinks PROVE StoppedLast'
  <2>1. runRow'.status # "stopped"
    BY <1>12, Readings DEF ParentLinks
  <2> QED
    BY <2>1 DEF StoppedLast
<1>13. ASSUME ParentReturns PROVE StoppedLast'
  <2>1. runRow'.status # "stopped"
    BY <1>13, Readings DEF ParentReturns
  <2> QED
    BY <2>1 DEF StoppedLast
<1>14. ASSUME ChildFinishes PROVE StoppedLast'
  BY <1>14, StoppingLabels DEF ChildFinishes, StoppedLast
<1>15. ASSUME ChildLoads PROVE StoppedLast'
  BY <1>15, StoppingLabels DEF ChildLoads, StoppedLast
<1>16. ASSUME SettleTask("parent") PROVE StoppedLast'
  BY <1>16, StoppingLabels DEF SettleTask, StoppedLast
<1>17. ASSUME SettleTask("child") PROVE StoppedLast'
  BY <1>17, StoppingLabels DEF SettleTask, StoppedLast
<1>18. ASSUME SettleRun("parent") PROVE StoppedLast'
  <2>1. runRow'.status # "stopped"
    BY <1>18, RunRecorded
  <2> QED
    BY <2>1 DEF StoppedLast
<1>19. ASSUME SettleRun("child") PROVE StoppedLast'
  <2>1. runRow'.status # "stopped"
    BY <1>19, RunRecorded
  <2> QED
    BY <2>1 DEF StoppedLast
<1>20. ASSUME SettleJob("parent") PROVE StoppedLast'
  BY <1>20, StoppingLabels DEF SettleJob, StoppedLast
<1>21. ASSUME SettleJob("child") PROVE StoppedLast'
  BY <1>21, StoppingLabels DEF SettleJob, StoppedLast
<1>22. ASSUME SettleJobEvent("parent") PROVE StoppedLast'
  BY <1>22, StoppingLabels DEF SettleJobEvent, StoppedLast
<1>23. ASSUME SettleJobEvent("child") PROVE StoppedLast'
  BY <1>23, StoppingLabels DEF SettleJobEvent, StoppedLast
<1>24. ASSUME SettleTaskEvent("parent") PROVE StoppedLast'
  BY <1>24, StoppingLabels DEF SettleTaskEvent, StoppedLast
<1>25. ASSUME SettleTaskEvent("child") PROVE StoppedLast'
  BY <1>25, StoppingLabels DEF SettleTaskEvent, StoppedLast
<1>26. ASSUME SettleRunEvent("parent") PROVE StoppedLast'
  <2>1. runRow'.status # "stopped"
    BY <1>26, RunRecorded
  <2> QED
    BY <2>1 DEF StoppedLast
<1>27. ASSUME SettleRunEvent("child") PROVE StoppedLast'
  <2>1. runRow'.status # "stopped"
    BY <1>27, RunRecorded
  <2> QED
    BY <2>1 DEF StoppedLast
<1>28. ASSUME NEW q \in Stoppers, StopLoads(q) PROVE StoppedLast'
  BY <1>28, StoppingLabels DEF StopLoads, StoppedLast
<1>29. ASSUME NEW q \in Stoppers, StopLoadsJob(q) PROVE StoppedLast'
  BY <1>29, StoppingLabels DEF StopLoadsJob, StoppedLast
<1>30. ASSUME NEW q \in Stoppers, JobStopLoads(q) PROVE StoppedLast'
  BY <1>30, StoppingLabels DEF JobStopLoads, StoppedLast
<1>31. ASSUME NEW q \in Stoppers,
              Kill(q, "kill", "stop job") \/ Kill(q, "kill only job", "stop only job")
       PROVE  StoppedLast'
  BY <1>31, StoppingLabels DEF Kill, StoppedLast
<1>32. ASSUME NEW q \in Stoppers, StopChildJob(q) PROVE StoppedLast'
  BY <1>32, StoppingLabels DEF StopChildJob, StoppedLast
<1>33. ASSUME NEW q \in Stoppers, StopTask(q) PROVE StoppedLast'
  BY <1>33, StoppingLabels DEF StopTask, StoppedLast
<1>34. ASSUME NEW q \in Stoppers, StopRun(q) PROVE StoppedLast'
  BY <1>34, StoppingLabels DEF StopRun, StopsLast, StoppedLast
<1>35. ASSUME NEW q \in Stoppers, StopJobEvent(q) PROVE StoppedLast'
  BY <1>35, StoppingLabels DEF StopJobEvent, StoppedLast
<1>36. ASSUME NEW q \in Stoppers, StopTaskEvent(q) PROVE StoppedLast'
  BY <1>36, StoppingLabels DEF StopTaskEvent, StoppedLast
<1>37. ASSUME NEW q \in Stoppers, StopOnlyJob(q) PROVE StoppedLast'
  BY <1>37, StoppingLabels DEF StopOnlyJob, StoppedLast
<1>38. ASSUME Attach PROVE StoppedLast'
  BY <1>38, StoppingLabels DEF Attach, StoppedLast
<1>39. ASSUME CancelTask PROVE StoppedLast'
  BY <1>39, StoppingLabels DEF CancelTask, StoppedLast
<1>40. ASSUME NEW q \in Stoppers, UpdateTask(q) PROVE StoppedLast'
  BY <1>40, StoppingLabels DEF UpdateTask, StoppedLast
<1>41. ASSUME NEW q \in Stoppers, UpdateTaskEvent(q) PROVE StoppedLast'
  BY <1>41, StoppingLabels DEF UpdateTaskEvent, StoppedLast
<1> QED
  BY <1>1, <1>2, <1>3, <1>4, <1>5, <1>6, <1>7, <1>8, <1>9, <1>10, <1>11, <1>12, <1>13, <1>14, <1>15,
     <1>16, <1>17, <1>18, <1>19, <1>20, <1>21, <1>22, <1>23, <1>24, <1>25, <1>26, <1>27, <1>28, <1>29,
     <1>30, <1>31, <1>32, <1>33, <1>34, <1>35, <1>36, <1>37, <1>38, <1>39, <1>40, <1>41 DEF Step

-----------------------------------------------------------------------------
(* Delegated runs: the run and its task *)

\* What has happened stays so.
LEMMA PastKept ==
    ASSUME ~MayFail, Step
    PROVE  past \subseteq past'
<1>1. ~ParentFails /\ ~ParentEnds /\ ~ChildEnds /\ \A q \in Stoppers : ~StopperEnds(q)
  BY DEF ParentFails, ParentEnds, ChildEnds, StopperEnds
<1>2. ASSUME InsertTask PROVE past \subseteq past'
  BY <1>2 DEF InsertTask
<1>3. ASSUME InsertRun PROVE past \subseteq past'
  BY <1>3 DEF InsertRun
<1>4. ASSUME ThreadEnds PROVE past \subseteq past'
  BY <1>4 DEF ThreadEnds
<1>5. ASSUME Promote PROVE past \subseteq past'
  BY <1>5 DEF Promote
<1>6. ASSUME Promoted PROVE past \subseteq past'
  BY <1>6 DEF Promoted
<1>7. ASSUME StartChild PROVE past \subseteq past'
  BY <1>7 DEF StartChild
<1>8. ASSUME InsertChildJob PROVE past \subseteq past'
  BY <1>8 DEF InsertChildJob
<1>9. ASSUME JobStarted PROVE past \subseteq past'
  BY <1>9 DEF JobStarted
<1>10. ASSUME InsertJobAgain PROVE past \subseteq past'
  BY <1>10 DEF InsertJobAgain
<1>11. ASSUME ParentLoads PROVE past \subseteq past'
  BY <1>11 DEF ParentLoads
<1>12. ASSUME ParentLinks PROVE past \subseteq past'
  BY <1>12 DEF ParentLinks
<1>13. ASSUME ParentReturns PROVE past \subseteq past'
  BY <1>13 DEF ParentReturns
<1>14. ASSUME ChildFinishes PROVE past \subseteq past'
  BY <1>14 DEF ChildFinishes
<1>15. ASSUME ChildLoads PROVE past \subseteq past'
  BY <1>15 DEF ChildLoads
<1>16. ASSUME SettleTask("parent") PROVE past \subseteq past'
  BY <1>16 DEF SettleTask
<1>17. ASSUME SettleTask("child") PROVE past \subseteq past'
  BY <1>17 DEF SettleTask
<1>18. ASSUME SettleRun("parent") PROVE past \subseteq past'
  BY <1>18 DEF SettleRun
<1>19. ASSUME SettleRun("child") PROVE past \subseteq past'
  BY <1>19 DEF SettleRun
<1>20. ASSUME SettleJob("parent") PROVE past \subseteq past'
  BY <1>20 DEF SettleJob
<1>21. ASSUME SettleJob("child") PROVE past \subseteq past'
  BY <1>21 DEF SettleJob
<1>22. ASSUME SettleJobEvent("parent") PROVE past \subseteq past'
  BY <1>22 DEF SettleJobEvent
<1>23. ASSUME SettleJobEvent("child") PROVE past \subseteq past'
  BY <1>23 DEF SettleJobEvent
<1>24. ASSUME SettleTaskEvent("parent") PROVE past \subseteq past'
  BY <1>24 DEF SettleTaskEvent
<1>25. ASSUME SettleTaskEvent("child") PROVE past \subseteq past'
  BY <1>25 DEF SettleTaskEvent
<1>26. ASSUME SettleRunEvent("parent") PROVE past \subseteq past'
  BY <1>26 DEF SettleRunEvent
<1>27. ASSUME SettleRunEvent("child") PROVE past \subseteq past'
  BY <1>27 DEF SettleRunEvent
<1>28. ASSUME NEW q \in Stoppers, StopLoads(q) PROVE past \subseteq past'
  BY <1>28 DEF StopLoads
<1>29. ASSUME NEW q \in Stoppers, StopLoadsJob(q) PROVE past \subseteq past'
  BY <1>29 DEF StopLoadsJob
<1>30. ASSUME NEW q \in Stoppers, JobStopLoads(q) PROVE past \subseteq past'
  BY <1>30 DEF JobStopLoads
<1>31. ASSUME NEW q \in Stoppers,
              Kill(q, "kill", "stop job") \/ Kill(q, "kill only job", "stop only job")
       PROVE  past \subseteq past'
  BY <1>31 DEF Kill
<1>32. ASSUME NEW q \in Stoppers, StopChildJob(q) PROVE past \subseteq past'
  BY <1>32 DEF StopChildJob
<1>33. ASSUME NEW q \in Stoppers, StopTask(q) PROVE past \subseteq past'
  BY <1>33 DEF StopTask
<1>34. ASSUME NEW q \in Stoppers, StopRun(q) PROVE past \subseteq past'
  BY <1>34 DEF StopRun
<1>35. ASSUME NEW q \in Stoppers, StopJobEvent(q) PROVE past \subseteq past'
  BY <1>35 DEF StopJobEvent
<1>36. ASSUME NEW q \in Stoppers, StopTaskEvent(q) PROVE past \subseteq past'
  BY <1>36 DEF StopTaskEvent
<1>37. ASSUME NEW q \in Stoppers, StopOnlyJob(q) PROVE past \subseteq past'
  BY <1>37 DEF StopOnlyJob
<1>38. ASSUME Attach PROVE past \subseteq past'
  BY <1>38 DEF Attach
<1>39. ASSUME CancelTask PROVE past \subseteq past'
  BY <1>39 DEF CancelTask
<1>40. ASSUME NEW q \in Stoppers, UpdateTask(q) PROVE past \subseteq past'
  BY <1>40 DEF UpdateTask
<1>41. ASSUME NEW q \in Stoppers, UpdateTaskEvent(q) PROVE past \subseteq past'
  BY <1>41 DEF UpdateTaskEvent
<1> QED
  BY <1>1, <1>2, <1>3, <1>4, <1>5, <1>6, <1>7, <1>8, <1>9, <1>10, <1>11, <1>12, <1>13, <1>14, <1>15,
     <1>16, <1>17, <1>18, <1>19, <1>20, <1>21, <1>22, <1>23, <1>24, <1>25, <1>26, <1>27, <1>28, <1>29,
     <1>30, <1>31, <1>32, <1>33, <1>34, <1>35, <1>36, <1>37, <1>38, <1>39, <1>40, <1>41 DEF Step

\* If the task was neither cancelled nor updated after a step, it was not before and the step
\* did neither.
LEMMA CancelKept ==
    ASSUME ~MayFail, Step, "cancelled" \notin past', "updated" \notin past'
    PROVE  /\ "cancelled" \notin past /\ "updated" \notin past
           /\ ~CancelTask /\ \A q \in Stoppers : ~UpdateTask(q) /\ ~UpdateTaskEvent(q)
  BY PastKept DEF CancelTask, UpdateTask, UpdateTaskEvent

\* Every step without a failure keeps a recorded answer in the run, unless somebody stops,
\* cancels or updates, or something ends early (spawn_task, finalize_background_subagent_run).
LEMMA OutputKeptStep ==
    ASSUME RowsOK, PlacesOK, ~MayFail, Together, Endings, Answered, InOrder, OutputKept, Step
    PROVE  OutputKept'
<1> SUFFICES ASSUME Undisturbed', "answered" \in past'
    PROVE  /\ at'["child"] \notin {"working", "load", "settle task"}
           /\ runRow'.output \/ at'["parent"] = "settle run" \/ at'["child"] = "settle run"
  BY DEF OutputKept
<1> DEFINE Kept == /\ at'["child"] \notin {"working", "load", "settle task"}
                   /\ runRow'.output \/ at'["parent"] = "settle run" \/ at'["child"] = "settle run"
<1> USE SubagentRunsAssumption
<1>1. DOMAIN at = Procs /\ "parent" \in Procs /\ "child" \in Procs /\ Stoppers \subseteq Procs
  BY DEF PlacesOK, Procs
<1>2. Undisturbed
  BY PastKept DEF Undisturbed
<1>3. ASSUME NEW p \in {"parent", "child"}, SettleTask(p) PROVE Kept
  <2>1. at' = [at EXCEPT ![p] = "settle run"] /\ at[p] = "settle task"
    BY <1>3 DEF SettleTask, IsAt, GoesTo
  <2>2. p = "parent" => at["child"] \in {"none", "done"}
    BY <2>1, SettlingLabels DEF Together
  <2> QED
    BY <1>1, <2>1, <2>2
<1>4. ASSUME "answered" \in past, \A p \in {"parent", "child"} : ~SettleTask(p) PROVE Kept
  <2>1. /\ at["child"] \notin {"working", "load", "settle task"}
        /\ runRow.output \/ at["parent"] = "settle run" \/ at["child"] = "settle run"
    BY <1>2, <1>4 DEF OutputKept
  <2>2. Completed /\ \A q \in Stoppers : at[q] \notin Stopping
    BY <1>2, <1>4 DEF Answered, Undisturbed
  <2>3. /\ at["parent"] \in Settling \cup {"done"}
        /\ at["child"] \in {"none", "done"} \cup Settling
        /\ \A p \in {"parent", "child"} : at[p] \in Settling => ending[p] = "completed"
    <3>1. CASE ending["parent"] = "completed"
      BY <3>1, SettlingLabels DEF Endings, PlacesOK
    <3>2. CASE ending["child"] = "completed"
      <4>1. at["parent"] \notin Registering
        BY <1>2, <2>1 DEF InOrder, Undisturbed
      <4> QED
        BY <3>2, <2>1, <4>1, SettlingLabels DEF Endings, PlacesOK
    <3> QED
      BY <2>2, <3>1, <3>2 DEF Completed
  <2>4. /\ at["parent"] \notin {"task", "run", "start", "wait", "promoted"} /\ at["parent"] \notin Registering
        /\ at["child"] \notin {"thread", "working", "load"}
    BY <2>1, <2>3, SettlingLabels, RegisteringLabels
  <2>5. ~InsertTask /\ ~InsertRun /\ ~ThreadEnds /\ ~Promote /\ ~Promoted /\ ~StartChild
    BY <2>4 DEF InsertTask, InsertRun, ThreadEnds, Promote, Promoted, StartChild, IsAt
  <2>6. ~InsertChildJob /\ ~JobStarted /\ ~InsertJobAgain /\ ~ParentLoads /\ ~ParentLinks /\ ~ParentReturns
    BY <2>4, RegisteringLabels DEF InsertChildJob, JobStarted, InsertJobAgain, ParentLoads, ParentLinks,
       ParentReturns, IsAt
  <2>7. ~ChildFinishes /\ ~ChildLoads /\ ~ParentFails /\ ~ParentEnds /\ ~ChildEnds
    BY <2>4 DEF ChildFinishes, ChildLoads, ParentFails, ParentEnds, ChildEnds, IsAt
  <2>8. ASSUME NEW p \in {"parent", "child"}, SettleRun(p) \/ SettleRunEvent(p) PROVE Kept
    <3>1. at[p] \in Settling /\ runRow' = Result(ending[p])
      BY <2>8, SettlingLabels DEF SettleRun, SettleRunEvent, IsAt
    <3>2. runRow'.output
      BY <2>3, <3>1 DEF Result
    <3>3. at'["child"] \in {at["child"], "settle task event", "settle job", "done"}
      BY <1>1, <2>8 DEF SettleRun, SettleRunEvent, GoesTo
    <3> QED
      BY <2>1, <3>2, <3>3
  <2>9. ASSUME NEW p \in {"parent", "child"}, SettleJob(p) \/ SettleJobEvent(p) \/ SettleTaskEvent(p) PROVE Kept
    <3>1. /\ at[p] # "settle run" /\ runRow' = runRow
          /\ \E l \in {"settle job event", "settle task event", "settle run event"} : at' = [at EXCEPT ![p] = l]
      BY <2>9 DEF SettleJob, SettleJobEvent, SettleTaskEvent, IsAt, GoesTo
    <3> QED
      BY <1>1, <2>1, <3>1
  <2>10. ASSUME NEW q \in Stoppers,
                \/ StopLoads(q) \/ StopLoadsJob(q) \/ JobStopLoads(q) \/ StopOnlyJob(q)
                \/ UpdateTask(q) \/ UpdateTaskEvent(q)
         PROVE  Kept
    <3>1. runRow' = runRow /\ (at' = at \/ \E l \in StopperPlaces : at' = [at EXCEPT ![q] = l])
      BY <2>10, StopperLabels, StoppingLabels DEF StopLoads, StopLoadsJob, JobStopLoads, StopOnlyJob, UpdateTask,
         UpdateTaskEvent, GoesTo
    <3>2. q # "parent" /\ q # "child"
      OBVIOUS
    <3>3. at'["parent"] = at["parent"] /\ at'["child"] = at["child"]
      BY <1>1, <3>1, <3>2
    <3> QED
      BY <2>1, <3>1, <3>3
  <2>11. \A q \in Stoppers : /\ ~StopChildJob(q) /\ ~StopTask(q) /\ ~StopRun(q)
                             /\ ~StopJobEvent(q) /\ ~StopTaskEvent(q) /\ ~StopperEnds(q)
    BY <2>2, StoppingLabels DEF StopChildJob, StopTask, StopRun, StopJobEvent, StopTaskEvent, StopperEnds, IsAt
  <2>12. \A q \in Stoppers : ~Kill(q, "kill", "stop job") /\ ~Kill(q, "kill only job", "stop only job")
    BY DEF Kill, Undisturbed
  <2>13. ASSUME Attach \/ CancelTask PROVE Kept
    BY <2>1, <2>13 DEF Attach, CancelTask
  <2> QED
    BY <1>4, <2>5, <2>6, <2>7, <2>8, <2>9, <2>10, <2>11, <2>12, <2>13 DEF Step
<1>5. ASSUME \A p \in {"parent", "child"} : ~SettleTask(p) PROVE "answered" \in past
  <2> DEFINE More == past' \subseteq past \cup {"promoted", "early", "kill", "kill only job", "attached", "cancelled", "updated"}
  <2>1. InsertTask \/ InsertRun \/ ThreadEnds \/ Promote \/ Promoted \/ StartChild \/ InsertChildJob => More
    BY DEF InsertTask, InsertRun, ThreadEnds, Promote, Promoted, StartChild, InsertChildJob
  <2>2. JobStarted \/ InsertJobAgain \/ ParentLoads \/ ParentLinks \/ ParentReturns \/ ParentFails \/ ParentEnds => More
    BY DEF JobStarted, InsertJobAgain, ParentLoads, ParentLinks, ParentReturns, ParentFails, ParentEnds
  <2>3. ChildFinishes \/ ChildLoads \/ ChildEnds \/ Attach \/ CancelTask => More
    BY DEF ChildFinishes, ChildLoads, ChildEnds, Attach, CancelTask, Early
  <2>4. ASSUME NEW p \in {"parent", "child"},
               SettleRun(p) \/ SettleJob(p) \/ SettleJobEvent(p) \/ SettleTaskEvent(p) \/ SettleRunEvent(p)
        PROVE  More
    BY <2>4 DEF SettleRun, SettleJob, SettleJobEvent, SettleTaskEvent, SettleRunEvent
  <2>5. ASSUME NEW q \in Stoppers,
               \/ StopLoads(q) \/ StopLoadsJob(q) \/ JobStopLoads(q) \/ StopOnlyJob(q) \/ StopperEnds(q)
               \/ UpdateTask(q) \/ UpdateTaskEvent(q)
        PROVE  More
    BY <2>5 DEF StopLoads, StopLoadsJob, JobStopLoads, StopOnlyJob, StopperEnds, UpdateTask, UpdateTaskEvent
  <2>6. ASSUME NEW q \in Stoppers,
               StopChildJob(q) \/ StopTask(q) \/ StopRun(q) \/ StopJobEvent(q) \/ StopTaskEvent(q)
        PROVE  More
    BY <2>6 DEF StopChildJob, StopTask, StopRun, StopJobEvent, StopTaskEvent
  <2>7. ASSUME NEW q \in Stoppers,
               Kill(q, "kill", "stop job") \/ Kill(q, "kill only job", "stop only job")
        PROVE  More
    BY <2>7 DEF Kill, Early
  <2>8. More
    BY <1>5, <2>1, <2>2, <2>3, <2>4, <2>5, <2>6, <2>7 DEF Step
  <2> QED
    BY <2>8
<1> QED
  BY <1>3, <1>4, <1>5

\* Every step by a single writer keeps what the rows say during the start (spawn_task).
LEMMA StartingStep ==
    ASSUME RowsOK, PlacesOK, ~MayFail, Together, StopsLast, Starting, OneWriter, "cancelled" \notin past', "updated" \notin past', Step
    PROVE  Starting'
<1> /\ runRow \in Run /\ taskRow \in Task /\ jobRow \in Job
    /\ \A p \in Procs : copies[p].job \in Job /\ copies[p].run \in Run
  BY DEF RowsOK, Copy
<1> USE SubagentRunsAssumption DEF Procs, IsAt, GoesTo, Terminated, Ends, Forget
<1> DOMAIN at = Procs /\ DOMAIN ending = {"parent", "child"}
  BY DEF PlacesOK
<1> DOMAIN copies = Procs /\ \A p \in Procs : copies[p] \in Copy
  BY DEF RowsOK
<1> \A c \in Copy : DOMAIN c = {"run", "job"}
  BY DEF Copy
<1>1. ~ParentFails /\ ~ParentEnds /\ ~ChildEnds /\ \A q \in Stoppers : ~StopperEnds(q)
  BY DEF ParentFails, ParentEnds, ChildEnds, StopperEnds
<1>2. ASSUME InsertTask PROVE Starting'
  BY <1>2, StoppingLabels, SettlingLabels, RegisteringLabels DEF InsertTask, Starting, Open
<1>3. ASSUME InsertRun PROVE Starting'
  BY <1>3, Readings, StoppingLabels, SettlingLabels, RegisteringLabels DEF InsertRun, Running, Starting, Open
<1>4. ASSUME ThreadEnds PROVE Starting'
  BY <1>4, StoppingLabels, SettlingLabels, RegisteringLabels DEF ThreadEnds, Together, Starting, Open
<1>5. ASSUME Promote PROVE Starting'
  <2>1. Open /\ runRow' = runRow
    BY <1>5, RegisteringLabels DEF Promote, Starting
  <2>2. taskRow' = taskRow \/ taskRow' = [status |-> "running", outcome |-> "none"]
    BY <1>5 DEF Promote
  <2>3. Open'
    BY <2>1, <2>2 DEF Open
  <2>4. at'["parent"] = "promoted"
    BY <1>5 DEF Promote
  <2> QED
    BY <2>3, <2>4, RegisteringLabels DEF Starting
<1>6. ASSUME Promoted PROVE Starting'
  BY <1>6, Readings, StoppingLabels, SettlingLabels, RegisteringLabels DEF Promoted, Starting, Open
<1>7. ASSUME StartChild PROVE Starting'
  BY <1>7, StoppingLabels, SettlingLabels, RegisteringLabels DEF StartChild, Starting, Open
<1>8. ASSUME InsertChildJob PROVE Starting'
  BY <1>8, StoppingLabels, SettlingLabels, RegisteringLabels DEF InsertChildJob, Starting, Open
<1>9. ASSUME JobStarted PROVE Starting'
  BY <1>9, StoppingLabels, SettlingLabels, RegisteringLabels DEF JobStarted, Starting, Open
<1>10. ASSUME InsertJobAgain PROVE Starting'
  BY <1>10, StoppingLabels, SettlingLabels, RegisteringLabels DEF InsertJobAgain, Starting, Open
<1>11. ASSUME ParentLoads PROVE Starting'
  BY <1>11, StoppingLabels, SettlingLabels, RegisteringLabels DEF ParentLoads, Starting, Open
<1>12. ASSUME ParentLinks PROVE Starting'
  <2>1. Open /\ taskRow' = taskRow
    BY <1>12, RegisteringLabels DEF ParentLinks, Starting
  <2>2. runRow'.status = "running"
    BY <1>12, Readings DEF ParentLinks
  <2>3. at'["parent"] = "running"
    BY <1>12 DEF ParentLinks
  <2> QED
    BY <2>1, <2>2, <2>3, RegisteringLabels DEF Starting, Open
<1>13. ASSUME ParentReturns PROVE Starting'
  BY <1>13, Readings, StoppingLabels, SettlingLabels, RegisteringLabels DEF ParentReturns, Starting, Open
<1>14. ASSUME ChildFinishes PROVE Starting'
  BY <1>14, StoppingLabels, SettlingLabels, RegisteringLabels DEF ChildFinishes, Starting, Open
<1>15. ASSUME ChildLoads PROVE Starting'
  BY <1>15, StoppingLabels, SettlingLabels, RegisteringLabels DEF ChildLoads, Starting, Open
<1>16. ASSUME SettleTask("parent") PROVE Starting'
  <2>1. at'["parent"] \in Settling \cup {"done"}
    BY <1>16, SettlingLabels DEF SettleTask
  <2> QED
    BY <2>1, SettlingLabels, RegisteringLabels DEF Starting
<1>17. ASSUME SettleTask("child") PROVE Starting'
  <2>1. at["parent"] = "done" /\ at'["parent"] = "done"
    BY <1>17, SettlingLabels, RegisteringLabels DEF SettleTask, Together, OneWriter, ChildWrites, ParentWrites
  <2> QED
    BY <2>1, RegisteringLabels DEF Starting
<1>18. ASSUME SettleRun("parent") PROVE Starting'
  <2>1. at'["parent"] \in Settling \cup {"done"}
    BY <1>18, SettlingLabels DEF SettleRun
  <2> QED
    BY <2>1, SettlingLabels, RegisteringLabels DEF Starting
<1>19. ASSUME SettleRun("child") PROVE Starting'
  <2>1. at["parent"] = "done" /\ at'["parent"] = "done"
    BY <1>19, SettlingLabels, RegisteringLabels DEF SettleRun, Together, OneWriter, ChildWrites, ParentWrites
  <2> QED
    BY <2>1, RegisteringLabels DEF Starting
<1>20. ASSUME SettleJob("parent") PROVE Starting'
  BY <1>20, StoppingLabels, SettlingLabels, RegisteringLabels DEF SettleJob, Starting, Open
<1>21. ASSUME SettleJob("child") PROVE Starting'
  BY <1>21, StoppingLabels, SettlingLabels, RegisteringLabels DEF SettleJob, Starting, Open
<1>22. ASSUME SettleJobEvent("parent") PROVE Starting'
  BY <1>22, StoppingLabels, SettlingLabels, RegisteringLabels DEF SettleJobEvent, Starting, Open
<1>23. ASSUME SettleJobEvent("child") PROVE Starting'
  BY <1>23, StoppingLabels, SettlingLabels, RegisteringLabels DEF SettleJobEvent, Starting, Open
<1>24. ASSUME SettleTaskEvent("parent") PROVE Starting'
  <2>1. at'["parent"] \in Settling \cup {"done"}
    BY <1>24, SettlingLabels DEF SettleTaskEvent
  <2> QED
    BY <2>1, SettlingLabels, RegisteringLabels DEF Starting
<1>25. ASSUME SettleTaskEvent("child") PROVE Starting'
  <2>1. at["parent"] = "done" /\ at'["parent"] = "done"
    BY <1>25, SettlingLabels, RegisteringLabels DEF SettleTaskEvent, Together, OneWriter, ChildWrites,
       ParentWrites
  <2> QED
    BY <2>1, RegisteringLabels DEF Starting
<1>26. ASSUME SettleRunEvent("parent") PROVE Starting'
  <2>1. at'["parent"] \in Settling \cup {"done"}
    BY <1>26, SettlingLabels DEF SettleRunEvent
  <2> QED
    BY <2>1, SettlingLabels, RegisteringLabels DEF Starting
<1>27. ASSUME SettleRunEvent("child") PROVE Starting'
  <2>1. at["parent"] = "done" /\ at'["parent"] = "done"
    BY <1>27, SettlingLabels, RegisteringLabels DEF SettleRunEvent, Together, OneWriter, ChildWrites,
       ParentWrites
  <2> QED
    BY <2>1, RegisteringLabels DEF Starting
<1>28. ASSUME NEW q \in Stoppers, StopLoads(q) PROVE Starting'
  BY <1>28, StoppingLabels, SettlingLabels, RegisteringLabels DEF StopLoads, Starting, Open
<1>29. ASSUME NEW q \in Stoppers, StopLoadsJob(q) PROVE Starting'
  BY <1>29, StoppingLabels, SettlingLabels, RegisteringLabels DEF StopLoadsJob, Starting, Open
<1>30. ASSUME NEW q \in Stoppers, JobStopLoads(q) PROVE Starting'
  BY <1>30, StoppingLabels, SettlingLabels, RegisteringLabels DEF JobStopLoads, Starting, Open
<1>31. ASSUME NEW q \in Stoppers,
              Kill(q, "kill", "stop job") \/ Kill(q, "kill only job", "stop only job")
       PROVE  Starting'
  BY <1>31, StoppingLabels, SettlingLabels, RegisteringLabels DEF Kill, Starting, Open
<1>32. ASSUME NEW q \in Stoppers, StopChildJob(q) PROVE Starting'
  BY <1>32, StoppingLabels, SettlingLabels, RegisteringLabels DEF StopChildJob, Starting, Open
<1>33. ASSUME NEW q \in Stoppers, StopTask(q) PROVE Starting'
  BY <1>33, StoppingLabels, SettlingLabels, RegisteringLabels DEF StopTask, Together, StopsLast,
     Starting, Open
<1>34. ASSUME NEW q \in Stoppers, StopRun(q) PROVE Starting'
  BY <1>34, StoppingLabels, SettlingLabels, RegisteringLabels DEF StopRun, Together, StopsLast, Starting, Open
<1>35. ASSUME NEW q \in Stoppers, StopJobEvent(q) PROVE Starting'
  BY <1>35, StoppingLabels, SettlingLabels, RegisteringLabels DEF StopJobEvent, Starting, Open
<1>36. ASSUME NEW q \in Stoppers, StopTaskEvent(q) PROVE Starting'
  BY <1>36, StoppingLabels, SettlingLabels, RegisteringLabels DEF StopTaskEvent, Together, StopsLast,
     Starting, Open
<1>37. ASSUME NEW q \in Stoppers, StopOnlyJob(q) PROVE Starting'
  BY <1>37, StoppingLabels, SettlingLabels, RegisteringLabels DEF StopOnlyJob, Starting, Open
<1>38. ASSUME Attach PROVE Starting'
  BY <1>38, StoppingLabels, SettlingLabels, RegisteringLabels DEF Attach, Starting, Open
<1>39. ASSUME CancelTask PROVE Starting'
  BY <1>39, StoppingLabels, SettlingLabels, RegisteringLabels DEF CancelTask, Starting, Open
<1>40. ASSUME NEW q \in Stoppers, UpdateTask(q) PROVE Starting'
  BY <1>40, StoppingLabels, SettlingLabels, RegisteringLabels DEF UpdateTask, Starting, Open
<1>41. ASSUME NEW q \in Stoppers, UpdateTaskEvent(q) PROVE Starting'
  BY <1>41, StoppingLabels, SettlingLabels, RegisteringLabels DEF UpdateTaskEvent, Starting, Open
<1> QED
  BY <1>1, <1>2, <1>3, <1>4, <1>5, <1>6, <1>7, <1>8, <1>9, <1>10, <1>11, <1>12, <1>13, <1>14, <1>15,
     <1>16, <1>17, <1>18, <1>19, <1>20, <1>21, <1>22, <1>23, <1>24, <1>25, <1>26, <1>27, <1>28, <1>29,
     <1>30, <1>31, <1>32, <1>33, <1>34, <1>35, <1>36, <1>37, <1>38, <1>39, <1>40, <1>41 DEF Step

\* Every step by a single writer keeps what the parent has recorded of the ending (spawn_task).
LEMMA ParentSettlesStep ==
    ASSUME RowsOK, PlacesOK, ~MayFail, Together, StopsLast, OneWriter, Settles("parent"), "cancelled" \notin past', "updated" \notin past', Step
    PROVE  Settles("parent")'
<1> /\ runRow \in Run /\ taskRow \in Task /\ jobRow \in Job
    /\ \A p \in Procs : copies[p].job \in Job /\ copies[p].run \in Run
  BY DEF RowsOK, Copy
<1> USE SubagentRunsAssumption DEF Procs, IsAt, GoesTo, Terminated, Ends, Forget
<1> DOMAIN at = Procs /\ DOMAIN ending = {"parent", "child"}
  BY DEF PlacesOK
<1> DOMAIN copies = Procs /\ \A p \in Procs : copies[p] \in Copy
  BY DEF RowsOK
<1> \A c \in Copy : DOMAIN c = {"run", "job"}
  BY DEF Copy
<1>1. ~ParentFails /\ ~ParentEnds /\ ~ChildEnds /\ \A q \in Stoppers : ~StopperEnds(q)
  BY DEF ParentFails, ParentEnds, ChildEnds, StopperEnds
<1>2. ASSUME InsertTask PROVE Settles("parent")'
  BY <1>2, StoppingLabels, SettlingLabels, RegisteringLabels DEF InsertTask, Together, Settles
<1>3. ASSUME InsertRun PROVE Settles("parent")'
  BY <1>3, StoppingLabels, SettlingLabels, RegisteringLabels DEF InsertRun, Together, Settles
<1>4. ASSUME ThreadEnds PROVE Settles("parent")'
  BY <1>4, StoppingLabels, SettlingLabels, RegisteringLabels DEF ThreadEnds, Together, Settles
<1>5. ASSUME Promote PROVE Settles("parent")'
  BY <1>5, StoppingLabels, SettlingLabels, RegisteringLabels DEF Promote, Together, Settles
<1>6. ASSUME Promoted PROVE Settles("parent")'
  BY <1>6, StoppingLabels, SettlingLabels, RegisteringLabels DEF Promoted, Together, Settles
<1>7. ASSUME StartChild PROVE Settles("parent")'
  BY <1>7, StoppingLabels, SettlingLabels, RegisteringLabels DEF StartChild, Settles
<1>8. ASSUME InsertChildJob PROVE Settles("parent")'
  BY <1>8, StoppingLabels, SettlingLabels, RegisteringLabels DEF InsertChildJob, Settles
<1>9. ASSUME JobStarted PROVE Settles("parent")'
  BY <1>9, StoppingLabels, SettlingLabels, RegisteringLabels DEF JobStarted, Settles
<1>10. ASSUME InsertJobAgain PROVE Settles("parent")'
  BY <1>10, StoppingLabels, SettlingLabels, RegisteringLabels DEF InsertJobAgain, Settles
<1>11. ASSUME ParentLoads PROVE Settles("parent")'
  BY <1>11, StoppingLabels, SettlingLabels, RegisteringLabels DEF ParentLoads, Settles
<1>12. ASSUME ParentLinks PROVE Settles("parent")'
  BY <1>12, StoppingLabels, SettlingLabels, RegisteringLabels DEF ParentLinks, Together, OneWriter,
     ParentWrites, ChildWrites, StopperWrites, Settles
<1>13. ASSUME ParentReturns PROVE Settles("parent")'
  BY <1>13, StoppingLabels, SettlingLabels, RegisteringLabels DEF ParentReturns, Together, OneWriter,
     ParentWrites, ChildWrites, StopperWrites, Settles
<1>14. ASSUME ChildFinishes PROVE Settles("parent")'
  BY <1>14, StoppingLabels, SettlingLabels, RegisteringLabels DEF ChildFinishes, Together, Settles
<1>15. ASSUME ChildLoads PROVE Settles("parent")'
  BY <1>15, StoppingLabels, SettlingLabels, RegisteringLabels DEF ChildLoads, Settles
<1>16. ASSUME SettleTask("parent") PROVE Settles("parent")'
  <2>1. taskRow'.status = ending["parent"]
    BY <1>16, SettlingLabels, Readings DEF SettleTask
  <2>2. ending' = ending
    BY <1>16 DEF SettleTask
  <2> QED
    BY <1>16, <2>1, <2>2, SettlingLabels DEF SettleTask, Settles
<1>17. ASSUME SettleTask("child") PROVE Settles("parent")'
  <2>1. at["parent"] \notin Settling /\ at'["parent"] = at["parent"]
    BY <1>17, SettlingLabels, RegisteringLabels DEF SettleTask, Together
  <2> QED
    BY <2>1 DEF Settles
<1>18. ASSUME SettleRun("parent") PROVE Settles("parent")'
  <2>1. runRow'.status = ending["parent"]
    BY <1>18, SettlingLabels, Readings DEF SettleRun
  <2>2. ending' = ending /\ taskRow' = taskRow
    BY <1>18 DEF SettleRun
  <2> QED
    BY <1>18, <2>1, <2>2, SettlingLabels DEF SettleRun, Settles
<1>19. ASSUME SettleRun("child") PROVE Settles("parent")'
  <2>1. at["parent"] \notin Settling /\ at'["parent"] = at["parent"]
    BY <1>19, SettlingLabels, RegisteringLabels DEF SettleRun, Together
  <2> QED
    BY <2>1 DEF Settles
<1>20. ASSUME SettleJob("parent") PROVE Settles("parent")'
  BY <1>20, StoppingLabels, SettlingLabels, RegisteringLabels DEF SettleJob, Settles
<1>21. ASSUME SettleJob("child") PROVE Settles("parent")'
  BY <1>21, StoppingLabels, SettlingLabels, RegisteringLabels DEF SettleJob, Settles
<1>22. ASSUME SettleJobEvent("parent") PROVE Settles("parent")'
  BY <1>22, StoppingLabels, SettlingLabels, RegisteringLabels DEF SettleJobEvent, Settles
<1>23. ASSUME SettleJobEvent("child") PROVE Settles("parent")'
  BY <1>23, StoppingLabels, SettlingLabels, RegisteringLabels DEF SettleJobEvent, Settles
<1>24. ASSUME SettleTaskEvent("parent") PROVE Settles("parent")'
  <2>1. taskRow'.status = ending["parent"]
    BY <1>24, SettlingLabels DEF SettleTaskEvent, Task
  <2>2. ending' = ending /\ runRow' = runRow
    BY <1>24 DEF SettleTaskEvent
  <2> QED
    BY <1>24, <2>1, <2>2, SettlingLabels DEF SettleTaskEvent, Settles
<1>25. ASSUME SettleTaskEvent("child") PROVE Settles("parent")'
  <2>1. at["parent"] \notin Settling /\ at'["parent"] = at["parent"]
    BY <1>25, SettlingLabels, RegisteringLabels DEF SettleTaskEvent, Together
  <2> QED
    BY <2>1 DEF Settles
<1>26. ASSUME SettleRunEvent("parent") PROVE Settles("parent")'
  <2>1. runRow'.status = ending["parent"]
    BY <1>26, SettlingLabels, Readings DEF SettleRunEvent
  <2>2. ending' = ending /\ taskRow' = taskRow /\ at' = [at EXCEPT !["parent"] = "done"]
    BY <1>26 DEF SettleRunEvent
  <2> QED
    BY <1>26, <2>1, <2>2, SettlingLabels DEF SettleRunEvent, Settles
<1>27. ASSUME SettleRunEvent("child") PROVE Settles("parent")'
  <2>1. at["parent"] \notin Settling /\ at'["parent"] = at["parent"]
    BY <1>27, SettlingLabels, RegisteringLabels DEF SettleRunEvent, Together
  <2> QED
    BY <2>1 DEF Settles
<1>28. ASSUME NEW q \in Stoppers, StopLoads(q) PROVE Settles("parent")'
  BY <1>28, StoppingLabels, SettlingLabels, RegisteringLabels DEF StopLoads, Settles
<1>29. ASSUME NEW q \in Stoppers, StopLoadsJob(q) PROVE Settles("parent")'
  BY <1>29, StoppingLabels, SettlingLabels, RegisteringLabels DEF StopLoadsJob, Settles
<1>30. ASSUME NEW q \in Stoppers, JobStopLoads(q) PROVE Settles("parent")'
  BY <1>30, StoppingLabels, SettlingLabels, RegisteringLabels DEF JobStopLoads, Settles
<1>31. ASSUME NEW q \in Stoppers,
              Kill(q, "kill", "stop job") \/ Kill(q, "kill only job", "stop only job")
       PROVE  Settles("parent")'
  BY <1>31, StoppingLabels, SettlingLabels, RegisteringLabels DEF Kill, Settles
<1>32. ASSUME NEW q \in Stoppers, StopChildJob(q) PROVE Settles("parent")'
  BY <1>32, StoppingLabels, SettlingLabels, RegisteringLabels DEF StopChildJob, Settles
<1>33. ASSUME NEW q \in Stoppers, StopTask(q) PROVE Settles("parent")'
  BY <1>33, StoppingLabels, SettlingLabels, RegisteringLabels DEF StopTask, StopsLast, Settles
<1>34. ASSUME NEW q \in Stoppers, StopRun(q) PROVE Settles("parent")'
  BY <1>34, StoppingLabels, SettlingLabels, RegisteringLabels DEF StopRun, StopsLast, Settles
<1>35. ASSUME NEW q \in Stoppers, StopJobEvent(q) PROVE Settles("parent")'
  BY <1>35, StoppingLabels, SettlingLabels, RegisteringLabels DEF StopJobEvent, Settles
<1>36. ASSUME NEW q \in Stoppers, StopTaskEvent(q) PROVE Settles("parent")'
  BY <1>36, StoppingLabels, SettlingLabels, RegisteringLabels DEF StopTaskEvent, StopsLast, Settles
<1>37. ASSUME NEW q \in Stoppers, StopOnlyJob(q) PROVE Settles("parent")'
  BY <1>37, StoppingLabels, SettlingLabels, RegisteringLabels DEF StopOnlyJob, Settles
<1>38. ASSUME Attach PROVE Settles("parent")'
  BY <1>38, StoppingLabels, SettlingLabels, RegisteringLabels DEF Attach, Settles
<1>39. ASSUME CancelTask PROVE Settles("parent")'
  BY <1>39, StoppingLabels, SettlingLabels, RegisteringLabels DEF CancelTask, Settles
<1>40. ASSUME NEW q \in Stoppers, UpdateTask(q) PROVE Settles("parent")'
  BY <1>40, StoppingLabels, SettlingLabels, RegisteringLabels DEF UpdateTask, Settles
<1>41. ASSUME NEW q \in Stoppers, UpdateTaskEvent(q) PROVE Settles("parent")'
  BY <1>41, StoppingLabels, SettlingLabels, RegisteringLabels DEF UpdateTaskEvent, Settles
<1> QED
  BY <1>1, <1>2, <1>3, <1>4, <1>5, <1>6, <1>7, <1>8, <1>9, <1>10, <1>11, <1>12, <1>13, <1>14, <1>15,
     <1>16, <1>17, <1>18, <1>19, <1>20, <1>21, <1>22, <1>23, <1>24, <1>25, <1>26, <1>27, <1>28, <1>29,
     <1>30, <1>31, <1>32, <1>33, <1>34, <1>35, <1>36, <1>37, <1>38, <1>39, <1>40, <1>41 DEF Step

\* Every step by a single writer keeps what the child has recorded of the ending
\* (finalize_background_subagent_run).
LEMMA ChildSettlesStep ==
    ASSUME RowsOK, PlacesOK, ~MayFail, Together, StopsLast, OneWriter, Settles("child"), "cancelled" \notin past', "updated" \notin past', Step
    PROVE  Settles("child")'
<1> /\ runRow \in Run /\ taskRow \in Task /\ jobRow \in Job
    /\ \A p \in Procs : copies[p].job \in Job /\ copies[p].run \in Run
  BY DEF RowsOK, Copy
<1> USE SubagentRunsAssumption DEF Procs, IsAt, GoesTo, Terminated, Ends, Forget
<1> DOMAIN at = Procs /\ DOMAIN ending = {"parent", "child"}
  BY DEF PlacesOK
<1> DOMAIN copies = Procs /\ \A p \in Procs : copies[p] \in Copy
  BY DEF RowsOK
<1> \A c \in Copy : DOMAIN c = {"run", "job"}
  BY DEF Copy
<1>1. ~ParentFails /\ ~ParentEnds /\ ~ChildEnds /\ \A q \in Stoppers : ~StopperEnds(q)
  BY DEF ParentFails, ParentEnds, ChildEnds, StopperEnds
<1>2. ASSUME InsertTask PROVE Settles("child")'
  BY <1>2, StoppingLabels, SettlingLabels, RegisteringLabels DEF InsertTask, Together, Settles
<1>3. ASSUME InsertRun PROVE Settles("child")'
  BY <1>3, StoppingLabels, SettlingLabels, RegisteringLabels DEF InsertRun, Together, Settles
<1>4. ASSUME ThreadEnds PROVE Settles("child")'
  BY <1>4, StoppingLabels, SettlingLabels, RegisteringLabels DEF ThreadEnds, Together, Settles
<1>5. ASSUME Promote PROVE Settles("child")'
  BY <1>5, StoppingLabels, SettlingLabels, RegisteringLabels DEF Promote, Together, Settles
<1>6. ASSUME Promoted PROVE Settles("child")'
  BY <1>6, StoppingLabels, SettlingLabels, RegisteringLabels DEF Promoted, Together, Settles
<1>7. ASSUME StartChild PROVE Settles("child")'
  BY <1>7, StoppingLabels, SettlingLabels, RegisteringLabels DEF StartChild, Settles
<1>8. ASSUME InsertChildJob PROVE Settles("child")'
  BY <1>8, StoppingLabels, SettlingLabels, RegisteringLabels DEF InsertChildJob, Settles
<1>9. ASSUME JobStarted PROVE Settles("child")'
  BY <1>9, StoppingLabels, SettlingLabels, RegisteringLabels DEF JobStarted, Settles
<1>10. ASSUME InsertJobAgain PROVE Settles("child")'
  BY <1>10, StoppingLabels, SettlingLabels, RegisteringLabels DEF InsertJobAgain, Settles
<1>11. ASSUME ParentLoads PROVE Settles("child")'
  BY <1>11, StoppingLabels, SettlingLabels, RegisteringLabels DEF ParentLoads, Settles
<1>12. ASSUME ParentLinks PROVE Settles("child")'
  BY <1>12, StoppingLabels, SettlingLabels, RegisteringLabels DEF ParentLinks, Together, OneWriter,
     ParentWrites, ChildWrites, StopperWrites, Settles
<1>13. ASSUME ParentReturns PROVE Settles("child")'
  BY <1>13, StoppingLabels, SettlingLabels, RegisteringLabels DEF ParentReturns, Together, OneWriter,
     ParentWrites, ChildWrites, StopperWrites, Settles
<1>14. ASSUME ChildFinishes PROVE Settles("child")'
  BY <1>14, StoppingLabels, SettlingLabels, RegisteringLabels DEF ChildFinishes, Together, Settles
<1>15. ASSUME ChildLoads PROVE Settles("child")'
  BY <1>15, StoppingLabels, SettlingLabels, RegisteringLabels DEF ChildLoads, Settles
<1>16. ASSUME SettleTask("parent") PROVE Settles("child")'
  <2>1. at["child"] \notin Settling /\ at'["child"] = at["child"]
    BY <1>16, SettlingLabels, RegisteringLabels DEF SettleTask, Together
  <2> QED
    BY <2>1 DEF Settles
<1>17. ASSUME SettleTask("child") PROVE Settles("child")'
  <2>1. taskRow'.status = ending["child"]
    BY <1>17, SettlingLabels, Readings DEF SettleTask
  <2>2. ending' = ending
    BY <1>17 DEF SettleTask
  <2> QED
    BY <1>17, <2>1, <2>2, SettlingLabels DEF SettleTask, Settles
<1>18. ASSUME SettleRun("parent") PROVE Settles("child")'
  <2>1. at["child"] \notin Settling /\ at'["child"] = at["child"]
    BY <1>18, SettlingLabels, RegisteringLabels DEF SettleRun, Together
  <2> QED
    BY <2>1 DEF Settles
<1>19. ASSUME SettleRun("child") PROVE Settles("child")'
  <2>1. runRow'.status = ending["child"]
    BY <1>19, SettlingLabels, Readings DEF SettleRun
  <2>2. ending' = ending /\ taskRow' = taskRow
    BY <1>19 DEF SettleRun
  <2> QED
    BY <1>19, <2>1, <2>2, SettlingLabels DEF SettleRun, Settles
<1>20. ASSUME SettleJob("parent") PROVE Settles("child")'
  BY <1>20, StoppingLabels, SettlingLabels, RegisteringLabels DEF SettleJob, Settles
<1>21. ASSUME SettleJob("child") PROVE Settles("child")'
  BY <1>21, StoppingLabels, SettlingLabels, RegisteringLabels DEF SettleJob, Settles
<1>22. ASSUME SettleJobEvent("parent") PROVE Settles("child")'
  BY <1>22, StoppingLabels, SettlingLabels, RegisteringLabels DEF SettleJobEvent, Settles
<1>23. ASSUME SettleJobEvent("child") PROVE Settles("child")'
  BY <1>23, StoppingLabels, SettlingLabels, RegisteringLabels DEF SettleJobEvent, Settles
<1>24. ASSUME SettleTaskEvent("parent") PROVE Settles("child")'
  <2>1. at["child"] \notin Settling /\ at'["child"] = at["child"]
    BY <1>24, SettlingLabels, RegisteringLabels DEF SettleTaskEvent, Together
  <2> QED
    BY <2>1 DEF Settles
<1>25. ASSUME SettleTaskEvent("child") PROVE Settles("child")'
  <2>1. taskRow'.status = ending["child"]
    BY <1>25, SettlingLabels DEF SettleTaskEvent, Task
  <2>2. ending' = ending /\ runRow' = runRow
    BY <1>25 DEF SettleTaskEvent
  <2> QED
    BY <1>25, <2>1, <2>2, SettlingLabels DEF SettleTaskEvent, Settles
<1>26. ASSUME SettleRunEvent("parent") PROVE Settles("child")'
  <2>1. at["child"] \notin Settling /\ at'["child"] = at["child"]
    BY <1>26, SettlingLabels, RegisteringLabels DEF SettleRunEvent, Together
  <2> QED
    BY <2>1 DEF Settles
<1>27. ASSUME SettleRunEvent("child") PROVE Settles("child")'
  <2>1. runRow'.status = ending["child"]
    BY <1>27, SettlingLabels, Readings DEF SettleRunEvent
  <2>2. ending' = ending /\ taskRow' = taskRow /\ at' = [at EXCEPT !["child"] = "done"]
    BY <1>27 DEF SettleRunEvent
  <2> QED
    BY <1>27, <2>1, <2>2, SettlingLabels DEF SettleRunEvent, Settles
<1>28. ASSUME NEW q \in Stoppers, StopLoads(q) PROVE Settles("child")'
  BY <1>28, StoppingLabels, SettlingLabels, RegisteringLabels DEF StopLoads, Settles
<1>29. ASSUME NEW q \in Stoppers, StopLoadsJob(q) PROVE Settles("child")'
  BY <1>29, StoppingLabels, SettlingLabels, RegisteringLabels DEF StopLoadsJob, Settles
<1>30. ASSUME NEW q \in Stoppers, JobStopLoads(q) PROVE Settles("child")'
  BY <1>30, StoppingLabels, SettlingLabels, RegisteringLabels DEF JobStopLoads, Settles
<1>31. ASSUME NEW q \in Stoppers,
              Kill(q, "kill", "stop job") \/ Kill(q, "kill only job", "stop only job")
       PROVE  Settles("child")'
  BY <1>31, StoppingLabels, SettlingLabels, RegisteringLabels DEF Kill, Settles
<1>32. ASSUME NEW q \in Stoppers, StopChildJob(q) PROVE Settles("child")'
  BY <1>32, StoppingLabels, SettlingLabels, RegisteringLabels DEF StopChildJob, Settles
<1>33. ASSUME NEW q \in Stoppers, StopTask(q) PROVE Settles("child")'
  BY <1>33, StoppingLabels, SettlingLabels, RegisteringLabels DEF StopTask, StopsLast, Settles
<1>34. ASSUME NEW q \in Stoppers, StopRun(q) PROVE Settles("child")'
  BY <1>34, StoppingLabels, SettlingLabels, RegisteringLabels DEF StopRun, StopsLast, Settles
<1>35. ASSUME NEW q \in Stoppers, StopJobEvent(q) PROVE Settles("child")'
  BY <1>35, StoppingLabels, SettlingLabels, RegisteringLabels DEF StopJobEvent, Settles
<1>36. ASSUME NEW q \in Stoppers, StopTaskEvent(q) PROVE Settles("child")'
  BY <1>36, StoppingLabels, SettlingLabels, RegisteringLabels DEF StopTaskEvent, StopsLast, Settles
<1>37. ASSUME NEW q \in Stoppers, StopOnlyJob(q) PROVE Settles("child")'
  BY <1>37, StoppingLabels, SettlingLabels, RegisteringLabels DEF StopOnlyJob, Settles
<1>38. ASSUME Attach PROVE Settles("child")'
  BY <1>38, StoppingLabels, SettlingLabels, RegisteringLabels DEF Attach, Settles
<1>39. ASSUME CancelTask PROVE Settles("child")'
  BY <1>39, StoppingLabels, SettlingLabels, RegisteringLabels DEF CancelTask, Settles
<1>40. ASSUME NEW q \in Stoppers, UpdateTask(q) PROVE Settles("child")'
  BY <1>40, StoppingLabels, SettlingLabels, RegisteringLabels DEF UpdateTask, Settles
<1>41. ASSUME NEW q \in Stoppers, UpdateTaskEvent(q) PROVE Settles("child")'
  BY <1>41, StoppingLabels, SettlingLabels, RegisteringLabels DEF UpdateTaskEvent, Settles
<1> QED
  BY <1>1, <1>2, <1>3, <1>4, <1>5, <1>6, <1>7, <1>8, <1>9, <1>10, <1>11, <1>12, <1>13, <1>14, <1>15,
     <1>16, <1>17, <1>18, <1>19, <1>20, <1>21, <1>22, <1>23, <1>24, <1>25, <1>26, <1>27, <1>28, <1>29,
     <1>30, <1>31, <1>32, <1>33, <1>34, <1>35, <1>36, <1>37, <1>38, <1>39, <1>40, <1>41 DEF Step

\* Every step by a single writer keeps what a stop has written (task_stop).
LEMMA StopsStep ==
    ASSUME RowsOK, PlacesOK, ~MayFail, Together, StopsLast, OneWriter, Stops, "cancelled" \notin past', "updated" \notin past', Step
    PROVE  Stops'
<1> /\ runRow \in Run /\ taskRow \in Task /\ jobRow \in Job
    /\ \A p \in Procs : copies[p].job \in Job /\ copies[p].run \in Run
  BY DEF RowsOK, Copy
<1> USE SubagentRunsAssumption DEF Procs, IsAt, GoesTo, Terminated, Ends, Forget
<1> DOMAIN at = Procs /\ DOMAIN ending = {"parent", "child"}
  BY DEF PlacesOK
<1> DOMAIN copies = Procs /\ \A p \in Procs : copies[p] \in Copy
  BY DEF RowsOK
<1> \A c \in Copy : DOMAIN c = {"run", "job"}
  BY DEF Copy
<1>1. ~ParentFails /\ ~ParentEnds /\ ~ChildEnds /\ \A q \in Stoppers : ~StopperEnds(q)
  BY DEF ParentFails, ParentEnds, ChildEnds, StopperEnds
<1>2. ASSUME InsertTask PROVE Stops'
  BY <1>2, StoppingLabels DEF InsertTask, StopsLast, Stops
<1>3. ASSUME InsertRun PROVE Stops'
  <2>1. \A q \in Stoppers : at[q] \notin Stopping
    BY <1>3 DEF InsertRun, StopsLast
  <2>2. \A q \in Stoppers : at'[q] = at[q]
    BY <1>3 DEF InsertRun
  <2> QED
    BY <2>1, <2>2, StoppingLabels DEF Stops
<1>4. ASSUME ThreadEnds PROVE Stops'
  BY <1>4, StoppingLabels DEF ThreadEnds, Stops
<1>5. ASSUME Promote PROVE Stops'
  BY <1>5, StoppingLabels DEF Promote, StopsLast, Stops
<1>6. ASSUME Promoted PROVE Stops'
  BY <1>6, StoppingLabels DEF Promoted, StopsLast, Stops
<1>7. ASSUME StartChild PROVE Stops'
  BY <1>7, StoppingLabels DEF StartChild, Stops
<1>8. ASSUME InsertChildJob PROVE Stops'
  BY <1>8, StoppingLabels DEF InsertChildJob, Stops
<1>9. ASSUME JobStarted PROVE Stops'
  BY <1>9, StoppingLabels DEF JobStarted, Stops
<1>10. ASSUME InsertJobAgain PROVE Stops'
  BY <1>10, StoppingLabels DEF InsertJobAgain, Stops
<1>11. ASSUME ParentLoads PROVE Stops'
  BY <1>11, StoppingLabels DEF ParentLoads, Stops
<1>12. ASSUME ParentLinks PROVE Stops'
  BY <1>12, StoppingLabels DEF ParentLinks, StopsLast, Stops
<1>13. ASSUME ParentReturns PROVE Stops'
  BY <1>13, StoppingLabels DEF ParentReturns, StopsLast, Stops
<1>14. ASSUME ChildFinishes PROVE Stops'
  BY <1>14, StoppingLabels DEF ChildFinishes, Stops
<1>15. ASSUME ChildLoads PROVE Stops'
  BY <1>15, StoppingLabels DEF ChildLoads, Stops
<1>16. ASSUME SettleTask("parent") PROVE Stops'
  <2>1. \A q \in Stoppers : at[q] \notin Stopping /\ at'[q] = at[q]
    BY <1>16, SettlingLabels DEF SettleTask, StopsLast
  <2> QED
    BY <2>1, StoppingLabels DEF Stops
<1>17. ASSUME SettleTask("child") PROVE Stops'
  <2>1. \A q \in Stoppers : at[q] \notin Stopping /\ at'[q] = at[q]
    BY <1>17, SettlingLabels DEF SettleTask, StopsLast
  <2> QED
    BY <2>1, StoppingLabels DEF Stops
<1>18. ASSUME SettleRun("parent") PROVE Stops'
  <2>1. \A q \in Stoppers : at[q] \notin Stopping /\ at'[q] = at[q]
    BY <1>18, SettlingLabels DEF SettleRun, StopsLast
  <2> QED
    BY <2>1, StoppingLabels DEF Stops
<1>19. ASSUME SettleRun("child") PROVE Stops'
  <2>1. \A q \in Stoppers : at[q] \notin Stopping /\ at'[q] = at[q]
    BY <1>19, SettlingLabels DEF SettleRun, StopsLast
  <2> QED
    BY <2>1, StoppingLabels DEF Stops
<1>20. ASSUME SettleJob("parent") PROVE Stops'
  BY <1>20, StoppingLabels DEF SettleJob, Stops
<1>21. ASSUME SettleJob("child") PROVE Stops'
  BY <1>21, StoppingLabels DEF SettleJob, Stops
<1>22. ASSUME SettleJobEvent("parent") PROVE Stops'
  BY <1>22, StoppingLabels DEF SettleJobEvent, Stops
<1>23. ASSUME SettleJobEvent("child") PROVE Stops'
  BY <1>23, StoppingLabels DEF SettleJobEvent, Stops
<1>24. ASSUME SettleTaskEvent("parent") PROVE Stops'
  <2>1. \A q \in Stoppers : at[q] \notin Stopping /\ at'[q] = at[q]
    BY <1>24, SettlingLabels DEF SettleTaskEvent, StopsLast
  <2> QED
    BY <2>1, StoppingLabels DEF Stops
<1>25. ASSUME SettleTaskEvent("child") PROVE Stops'
  <2>1. \A q \in Stoppers : at[q] \notin Stopping /\ at'[q] = at[q]
    BY <1>25, SettlingLabels DEF SettleTaskEvent, StopsLast
  <2> QED
    BY <2>1, StoppingLabels DEF Stops
<1>26. ASSUME SettleRunEvent("parent") PROVE Stops'
  <2>1. \A q \in Stoppers : at[q] \notin Stopping /\ at'[q] = at[q]
    BY <1>26, SettlingLabels DEF SettleRunEvent, StopsLast
  <2> QED
    BY <2>1, StoppingLabels DEF Stops
<1>27. ASSUME SettleRunEvent("child") PROVE Stops'
  <2>1. \A q \in Stoppers : at[q] \notin Stopping /\ at'[q] = at[q]
    BY <1>27, SettlingLabels DEF SettleRunEvent, StopsLast
  <2> QED
    BY <2>1, StoppingLabels DEF Stops
<1>28. ASSUME NEW q \in Stoppers, StopLoads(q) PROVE Stops'
  BY <1>28, StoppingLabels DEF StopLoads, Stops
<1>29. ASSUME NEW q \in Stoppers, StopLoadsJob(q) PROVE Stops'
  BY <1>29, StoppingLabels DEF StopLoadsJob, Stops
<1>30. ASSUME NEW q \in Stoppers, JobStopLoads(q) PROVE Stops'
  BY <1>30, StoppingLabels DEF JobStopLoads, Stops
<1>31. ASSUME NEW q \in Stoppers,
              Kill(q, "kill", "stop job") \/ Kill(q, "kill only job", "stop only job")
       PROVE  Stops'
  BY <1>31, StoppingLabels DEF Kill, Stops
<1>32. ASSUME NEW q \in Stoppers, StopChildJob(q) PROVE Stops'
  BY <1>32, StoppingLabels DEF StopChildJob, Stops
<1>33. ASSUME NEW q \in Stoppers, StopTask(q) PROVE Stops'
  <2>1. taskRow'.status = "cancelled" /\ runRow' = runRow
    BY <1>33 DEF StopTask
  <2>2. at' = [at EXCEPT ![q] = "stop run"]
    BY <1>33 DEF StopTask
  <2> QED
    BY <2>1, <2>2 DEF Stops
<1>34. ASSUME NEW q \in Stoppers, StopRun(q) PROVE Stops'
  <2>1. runRow'.status = "stopped" /\ taskRow' = taskRow
    BY <1>34, Readings DEF StopRun
  <2>2. at' = [at EXCEPT ![q] = "stop job event"] /\ at[q] = "stop run"
    BY <1>34 DEF StopRun
  <2> QED
    BY <2>1, <2>2 DEF Stops
<1>35. ASSUME NEW q \in Stoppers, StopJobEvent(q) PROVE Stops'
  BY <1>35, StoppingLabels DEF StopJobEvent, Stops
<1>36. ASSUME NEW q \in Stoppers, StopTaskEvent(q) PROVE Stops'
  <2>1. taskRow'.status = "cancelled" /\ runRow' = runRow
    BY <1>36 DEF StopTaskEvent, Task
  <2>2. at' = [at EXCEPT ![q] = "idle"]
    BY <1>36 DEF StopTaskEvent
  <2> QED
    BY <2>1, <2>2 DEF Stops
<1>37. ASSUME NEW q \in Stoppers, StopOnlyJob(q) PROVE Stops'
  BY <1>37, StoppingLabels DEF StopOnlyJob, Stops
<1>38. ASSUME Attach PROVE Stops'
  BY <1>38, StoppingLabels DEF Attach, Stops
<1>39. ASSUME CancelTask PROVE Stops'
  BY <1>39, StoppingLabels DEF CancelTask, Stops
<1>40. ASSUME NEW q \in Stoppers, UpdateTask(q) PROVE Stops'
  BY <1>40, StoppingLabels DEF UpdateTask, Stops
<1>41. ASSUME NEW q \in Stoppers, UpdateTaskEvent(q) PROVE Stops'
  BY <1>41, StoppingLabels DEF UpdateTaskEvent, Stops
<1> QED
  BY <1>1, <1>2, <1>3, <1>4, <1>5, <1>6, <1>7, <1>8, <1>9, <1>10, <1>11, <1>12, <1>13, <1>14, <1>15,
     <1>16, <1>17, <1>18, <1>19, <1>20, <1>21, <1>22, <1>23, <1>24, <1>25, <1>26, <1>27, <1>28, <1>29,
     <1>30, <1>31, <1>32, <1>33, <1>34, <1>35, <1>36, <1>37, <1>38, <1>39, <1>40, <1>41 DEF Step

\* Every step by a single writer keeps run and task in agreement (all writes of the two rows).
LEMMA MatchesStep ==
    ASSUME RowsOK, PlacesOK, ~MayFail, Together, StopsLast, OneWriter,
           Starting, Settles("parent"), Settles("child"), Stops, Matches, "cancelled" \notin past', "updated" \notin past', Step
    PROVE  Matches'
<1> /\ runRow \in Run /\ taskRow \in Task /\ jobRow \in Job
    /\ \A p \in Procs : copies[p].job \in Job /\ copies[p].run \in Run
  BY DEF RowsOK, Copy
<1> USE SubagentRunsAssumption DEF Procs, IsAt, GoesTo, Terminated, Ends, Forget
<1> DOMAIN at = Procs /\ DOMAIN ending = {"parent", "child"}
  BY DEF PlacesOK
<1> DOMAIN copies = Procs /\ \A p \in Procs : copies[p] \in Copy
  BY DEF RowsOK
<1> \A c \in Copy : DOMAIN c = {"run", "job"}
  BY DEF Copy
<1>1. ~ParentFails /\ ~ParentEnds /\ ~ChildEnds /\ \A q \in Stoppers : ~StopperEnds(q)
  BY DEF ParentFails, ParentEnds, ChildEnds, StopperEnds
<1>2. ASSUME InsertTask PROVE Matches'
  <2>1. runRow' = NoRun
    BY <1>2 DEF InsertTask, Starting
  <2> QED
    BY <2>1 DEF Matches
<1>3. ASSUME InsertRun PROVE Matches'
  <2>1. runRow'.status = "running" /\ taskRow'.status = "in_progress"
    BY <1>3, Readings DEF InsertRun, Starting
  <2> QED
    BY <2>1 DEF Matches, Matching, Open
<1>4. ASSUME ThreadEnds PROVE Matches'
  BY <1>4, SettlingLabels, StoppingLabels DEF ThreadEnds, Matches, Matching, Open
<1>5. ASSUME Promote PROVE Matches'
  <2>1. Open /\ runRow' = runRow
    BY <1>5, RegisteringLabels DEF Promote, Starting
  <2>2. taskRow' = taskRow \/ taskRow' = [status |-> "running", outcome |-> "none"]
    BY <1>5 DEF Promote
  <2>3. Open'
    BY <2>1, <2>2 DEF Open
  <2> QED
    BY <2>3 DEF Matches, Matching
<1>6. ASSUME Promoted PROVE Matches'
  <2>1. Open
    BY <1>6, RegisteringLabels DEF Promoted, Starting
  <2>2. runRow'.status = "running" /\ taskRow' = taskRow
    BY <1>6, <2>1, Readings DEF Promoted, Open
  <2> QED
    BY <2>1, <2>2 DEF Open, Matching, Matches
<1>7. ASSUME StartChild PROVE Matches'
  <2>1. at["parent"] = "start" /\ UNCHANGED <<runRow, taskRow>>
    BY <1>7 DEF StartChild
  <2>2. Open
    BY <2>1 DEF Starting
  <2> QED
    BY <2>1, <2>2 DEF Matches, Matching, Open
<1>8. ASSUME InsertChildJob PROVE Matches'
  BY <1>8, SettlingLabels, StoppingLabels DEF InsertChildJob, Matches, Matching, Open
<1>9. ASSUME JobStarted PROVE Matches'
  BY <1>9, SettlingLabels, StoppingLabels DEF JobStarted, Matches, Matching, Open
<1>10. ASSUME InsertJobAgain PROVE Matches'
  BY <1>10, SettlingLabels, StoppingLabels DEF InsertJobAgain, Matches, Matching, Open
<1>11. ASSUME ParentLoads PROVE Matches'
  BY <1>11, SettlingLabels, StoppingLabels DEF ParentLoads, Matches, Matching, Open
<1>12. ASSUME ParentLinks PROVE Matches'
  <2>1. Open
    BY <1>12, RegisteringLabels DEF ParentLinks, Starting
  <2>2. runRow'.status = "running" /\ taskRow' = taskRow
    BY <1>12, Readings DEF ParentLinks
  <2> QED
    BY <2>1, <2>2 DEF Open, Matching, Matches
<1>13. ASSUME ParentReturns PROVE Matches'
  <2>1. Open
    BY <1>13, RegisteringLabels DEF ParentReturns, Starting
  <2>2. runRow'.status = "running" /\ taskRow' = taskRow
    BY <1>13, Readings DEF ParentReturns
  <2> QED
    BY <2>1, <2>2 DEF Open, Matching, Matches
<1>14. ASSUME ChildFinishes PROVE Matches'
  BY <1>14, SettlingLabels, StoppingLabels DEF ChildFinishes, Matches, Matching, Open
<1>15. ASSUME ChildLoads PROVE Matches'
  BY <1>15, SettlingLabels, StoppingLabels DEF ChildLoads, Matches, Matching, Open
<1>16. ASSUME SettleTask("parent") PROVE Matches'
  <2>1. at'["parent"] = "settle run"
    BY <1>16 DEF SettleTask
  <2> QED
    BY <2>1 DEF Matches
<1>17. ASSUME SettleTask("child") PROVE Matches'
  <2>1. at'["child"] = "settle run"
    BY <1>17 DEF SettleTask
  <2> QED
    BY <2>1 DEF Matches
<1>18. ASSUME SettleRun("parent") PROVE Matches'
  <2>1. runRow'.status = ending["parent"] /\ ending["parent"] \in {"completed", "failed"}
    BY <1>18, RunRecorded
  <2>2. taskRow'.status = ending["parent"]
    BY <1>18, SettlingLabels DEF SettleRun, Settles
  <2> QED
    BY <2>1, <2>2 DEF Matches, Matching
<1>19. ASSUME SettleRun("child") PROVE Matches'
  <2>1. runRow'.status = ending["child"] /\ ending["child"] \in {"completed", "failed"}
    BY <1>19, RunRecorded
  <2>2. taskRow'.status = ending["child"]
    BY <1>19, SettlingLabels DEF SettleRun, Settles
  <2> QED
    BY <2>1, <2>2 DEF Matches, Matching
<1>20. ASSUME SettleJob("parent") PROVE Matches'
  BY <1>20, SettlingLabels, StoppingLabels DEF SettleJob, Matches, Matching, Open
<1>21. ASSUME SettleJob("child") PROVE Matches'
  BY <1>21, SettlingLabels, StoppingLabels DEF SettleJob, Matches, Matching, Open
<1>22. ASSUME SettleJobEvent("parent") PROVE Matches'
  BY <1>22, SettlingLabels, StoppingLabels DEF SettleJobEvent, Matches, Matching, Open
<1>23. ASSUME SettleJobEvent("child") PROVE Matches'
  BY <1>23, SettlingLabels, StoppingLabels DEF SettleJobEvent, Matches, Matching, Open
<1>24. ASSUME SettleTaskEvent("parent") PROVE Matches'
  <2>1. runRow'.status = ending["parent"] /\ ending["parent"] \in {"completed", "failed"}
    BY <1>24, EndingKnown, SettlingLabels DEF SettleTaskEvent, Settles
  <2>2. taskRow'.status = ending["parent"]
    BY <1>24, SettlingLabels DEF SettleTaskEvent, Task
  <2> QED
    BY <2>1, <2>2 DEF Matches, Matching
<1>25. ASSUME SettleTaskEvent("child") PROVE Matches'
  <2>1. runRow'.status = ending["child"] /\ ending["child"] \in {"completed", "failed"}
    BY <1>25, EndingKnown, SettlingLabels DEF SettleTaskEvent, Settles
  <2>2. taskRow'.status = ending["child"]
    BY <1>25, SettlingLabels DEF SettleTaskEvent, Task
  <2> QED
    BY <2>1, <2>2 DEF Matches, Matching
<1>26. ASSUME SettleRunEvent("parent") PROVE Matches'
  <2>1. runRow'.status = ending["parent"] /\ ending["parent"] \in {"completed", "failed"}
    BY <1>26, RunRecorded
  <2>2. taskRow'.status = ending["parent"]
    BY <1>26, SettlingLabels DEF SettleRunEvent, Settles
  <2> QED
    BY <2>1, <2>2 DEF Matches, Matching
<1>27. ASSUME SettleRunEvent("child") PROVE Matches'
  <2>1. runRow'.status = ending["child"] /\ ending["child"] \in {"completed", "failed"}
    BY <1>27, RunRecorded
  <2>2. taskRow'.status = ending["child"]
    BY <1>27, SettlingLabels DEF SettleRunEvent, Settles
  <2> QED
    BY <2>1, <2>2 DEF Matches, Matching
<1>28. ASSUME NEW q \in Stoppers, StopLoads(q) PROVE Matches'
  BY <1>28, SettlingLabels, StoppingLabels DEF StopLoads, Matches, Matching, Open
<1>29. ASSUME NEW q \in Stoppers, StopLoadsJob(q) PROVE Matches'
  BY <1>29, SettlingLabels, StoppingLabels DEF StopLoadsJob, Matches, Matching, Open
<1>30. ASSUME NEW q \in Stoppers, JobStopLoads(q) PROVE Matches'
  BY <1>30, SettlingLabels, StoppingLabels DEF JobStopLoads, Matches, Matching, Open
<1>31. ASSUME NEW q \in Stoppers,
              Kill(q, "kill", "stop job") \/ Kill(q, "kill only job", "stop only job")
       PROVE  Matches'
  <2>1. at["child"] # "settle run"
    BY <1>31, SettlingLabels DEF Kill, OneWriter, StopperWrites, ChildWrites
  <2>2. UNCHANGED <<runRow, taskRow>>
    BY <1>31 DEF Kill
  <2>3. at["parent"] = "settle run" => at'["parent"] = "settle run"
    BY <1>31 DEF Kill
  <2>4. \A o \in Stoppers : at[o] = "stop run" => at'[o] = "stop run"
    BY <1>31 DEF Kill
  <2> QED
    BY <2>1, <2>2, <2>3, <2>4 DEF Matches, Matching, Open
<1>32. ASSUME NEW q \in Stoppers, StopChildJob(q) PROVE Matches'
  BY <1>32, SettlingLabels, StoppingLabels DEF StopChildJob, Matches, Matching, Open
<1>33. ASSUME NEW q \in Stoppers, StopTask(q) PROVE Matches'
  <2>1. at'[q] = "stop run"
    BY <1>33 DEF StopTask
  <2> QED
    BY <2>1 DEF Matches
<1>34. ASSUME NEW q \in Stoppers, StopRun(q) PROVE Matches'
  <2>1. runRow'.status = "stopped" /\ taskRow'.status = "cancelled"
    BY <1>34, Readings DEF StopRun, Stops
  <2> QED
    BY <2>1 DEF Matches, Matching
<1>35. ASSUME NEW q \in Stoppers, StopJobEvent(q) PROVE Matches'
  BY <1>35, SettlingLabels, StoppingLabels DEF StopJobEvent, Matches, Matching, Open
<1>36. ASSUME NEW q \in Stoppers, StopTaskEvent(q) PROVE Matches'
  <2>1. taskRow'.status = "cancelled" /\ runRow'.status = "stopped"
    BY <1>36 DEF StopTaskEvent, Task, Stops
  <2> QED
    BY <2>1 DEF Matches, Matching
<1>37. ASSUME NEW q \in Stoppers, StopOnlyJob(q) PROVE Matches'
  BY <1>37, SettlingLabels, StoppingLabels DEF StopOnlyJob, Matches, Matching, Open
<1>38. ASSUME Attach PROVE Matches'
  BY <1>38, SettlingLabels, StoppingLabels DEF Attach, Matches, Matching, Open
<1>39. ASSUME CancelTask PROVE Matches'
  BY <1>39, CancelKept
<1>40. ASSUME NEW q \in Stoppers, UpdateTask(q) PROVE Matches'
  BY <1>40, CancelKept
<1>41. ASSUME NEW q \in Stoppers, UpdateTaskEvent(q) PROVE Matches'
  BY <1>41, CancelKept
<1> QED
  BY <1>1, <1>2, <1>3, <1>4, <1>5, <1>6, <1>7, <1>8, <1>9, <1>10, <1>11, <1>12, <1>13, <1>14, <1>15,
     <1>16, <1>17, <1>18, <1>19, <1>20, <1>21, <1>22, <1>23, <1>24, <1>25, <1>26, <1>27, <1>28, <1>29,
     <1>30, <1>31, <1>32, <1>33, <1>34, <1>35, <1>36, <1>37, <1>38, <1>39, <1>40, <1>41 DEF Step

-----------------------------------------------------------------------------
(* Delegated runs: the theorems *)

\* The initial state satisfies the invariant.
LEMMA RunInitOK == RunInit => RunInv
<1> SUFFICES ASSUME RunInit PROVE RunInv
  OBVIOUS
<1> USE SubagentRunsAssumption
<1>1. /\ DOMAIN at = Procs /\ at["parent"] = "task" /\ at["child"] = "none"
      /\ \A q \in Stoppers : at[q] = "idle"
  BY DEF RunInit, Procs
<1>2. DOMAIN ending = {"parent", "child"} /\ ending["parent"] = "open" /\ ending["child"] = "open"
  BY DEF RunInit
<1>3. \A p \in Procs : copies[p] = NoCopy
  BY DEF RunInit
<1>4. RowsOK
  <2>1. NoCopy \in Copy
    BY Values DEF NoCopy, Copy
  <2> QED
    BY <2>1, Values DEF RunInit, RowsOK
<1>5. PlacesOK
  <2>1. ending \in [{"parent", "child"} -> {"open", "completed", "failed"}]
    BY DEF RunInit
  <2> QED
    BY <1>1, <1>2, <2>1 DEF PlacesOK, ParentPlaces, ChildPlaces, StopperPlaces, Settling
<1>6. CountsOK
  <2>1. 0 \in 0..MaxOps /\ 0 \in 0..MaxFailures
    OBVIOUS
  <2>2. past = {} /\ overlap = FALSE /\ ops = 0 /\ failures = 0
    BY DEF RunInit
  <2> QED
    BY <2>1, <2>2 DEF CountsOK
<1>7. "parent" \in Procs /\ "child" \in Procs /\ Stoppers \subseteq Procs
  BY DEF Procs
<1>8. runRow = NoRun /\ jobRow = NoJob /\ past = {} /\ overlap = FALSE
  BY DEF RunInit
<1>9. \A p \in Procs : copies[p].job = NoJob /\ copies[p].run = NoRun
  BY <1>3 DEF NoCopy
<1>10. NoRun.error = FALSE /\ NoRun.status = "none" /\ NoJob.status = "none"
  BY Readings
<1>11. Together /\ JobKnown /\ CopiesKnown /\ Endings
  BY <1>1, <1>2, <1>7, <1>8, <1>9, RegisteringLabels, SettlingLabels
  DEF Together, JobKnown, CopiesKnown, Endings
<1>12. Answered /\ OutputKept /\ InOrder /\ RunSettled /\ JobSettled
  BY <1>1, <1>7, <1>8, <1>9, <1>10, RegisteringLabels, SettlingLabels, StoppingLabels
  DEF Answered, OutputKept, InOrder, RunSettled, JobSettled
<1>13. Calm
  BY <1>1, <1>8, <1>10, StoppingLabels
  DEF Calm, OneWriter, ParentWrites, ChildWrites, StopperWrites, PidKnown, Alive, Killing, StopsLast, StoppedLast
<1>14. Agreeing
  BY <1>1, <1>8, RegisteringLabels, SettlingLabels
  DEF Agreeing, Starting, Settles, Stops, Matches
<1> QED
  BY <1>4, <1>5, <1>6, <1>11, <1>12, <1>13, <1>14 DEF RunInv, RunTypeOK, Unfailed

\* Every step keeps the types.
LEMMA RunTypeStep == ASSUME RunTypeOK, RunNext PROVE RunTypeOK'
<1>1. Step /\ overlap' \in BOOLEAN
  BY DEF RunNext, RunTypeOK, CountsOK
<1> QED
  BY <1>1, RowsStep, PlacesStep, CountsStep DEF RunTypeOK

\* Every step without a failure keeps the rest of the invariant.
LEMMA UnfailedStep ==
    ASSUME RunTypeOK, RunTypeOK', Unfailed, ~MayFail, RunNext
    PROVE  Unfailed'
<1>1. RowsOK /\ PlacesOK /\ PlacesOK' /\ Step
  BY DEF RunTypeOK, RunNext
<1>2. /\ Together /\ JobKnown /\ CopiesKnown /\ Endings
      /\ Answered /\ OutputKept /\ InOrder /\ RunSettled /\ JobSettled /\ Calm /\ Agreeing
  BY DEF Unfailed
<1>3. Together' /\ JobKnown' /\ CopiesKnown' /\ Endings'
  BY <1>1, <1>2, TogetherStep, JobKnownStep, CopiesKnownStep, EndingsStep
<1>4. Answered' /\ OutputKept' /\ InOrder' /\ RunSettled' /\ JobSettled'
  BY <1>1, <1>2, AnsweredStep, OutputKeptStep, InOrderStep, RunSettledStep, JobSettledStep
<1>5. ~overlap' => ~overlap /\ OneWriter'
  BY <1>1, OneWriterStep DEF RunNext
<1>6. Calm'
  <2> SUFFICES ASSUME ~overlap' PROVE OneWriter' /\ PidKnown' /\ Killing' /\ StopsLast' /\ StoppedLast'
    BY DEF Calm
  <2>1. OneWriter' /\ OneWriter /\ PidKnown /\ Killing /\ StopsLast /\ StoppedLast
    BY <1>2, <1>5 DEF Calm
  <2> QED
    BY <1>1, <1>2, <2>1, PidKnownStep, KillingStep, StopsLastStep, StoppedLastStep
<1>7. Agreeing'
  <2> SUFFICES ASSUME ~overlap', "cancelled" \notin past', "updated" \notin past'
               PROVE  Starting' /\ Settles("parent")' /\ Settles("child")' /\ Stops' /\ Matches'
    BY DEF Agreeing
  <2>1. "cancelled" \notin past /\ "updated" \notin past
    BY <1>1, CancelKept
  <2>2. OneWriter /\ StopsLast /\ Starting /\ Settles("parent") /\ Settles("child") /\ Stops /\ Matches
    BY <1>2, <1>5, <2>1 DEF Calm, Agreeing
  <2> QED
    BY <1>1, <1>2, <2>2, StartingStep, ParentSettlesStep, ChildSettlesStep, StopsStep, MatchesStep
<1> QED
  BY <1>3, <1>4, <1>6, <1>7 DEF Unfailed

\* So does a step that changes nothing.
LEMMA RunInvStays == RunInv /\ UNCHANGED runVars => RunInv'
<1> SUFFICES ASSUME RunInv, UNCHANGED runVars PROVE RunInv'
  OBVIOUS
<1> USE DEF runVars
<1>1. RunTypeOK'
  BY DEF RunInv, RunTypeOK, RowsOK, PlacesOK, CountsOK
<1>2. NoFailure' = NoFailure
  BY DEF NoFailure
<1>3. ASSUME Unfailed PROVE Unfailed'
  <2>1. Together' /\ JobKnown' /\ CopiesKnown' /\ Endings'
    BY <1>3 DEF Unfailed, Together, JobKnown, CopiesKnown, Endings
  <2>2. Answered' /\ OutputKept'
    BY <1>3 DEF Unfailed, Answered, Failed, Completed, OutputKept, Undisturbed
  <2>3. InOrder' /\ RunSettled' /\ JobSettled'
    BY <1>3 DEF Unfailed, InOrder, RunSettled, RunStops, JobSettled, JobStops
  <2>4. Calm'
    BY <1>3 DEF Unfailed, Calm, OneWriter, ParentWrites, ChildWrites, StopperWrites, PidKnown, Alive, Killing,
       StopsLast, StoppedLast
  <2>5. Agreeing'
    BY <1>3 DEF Unfailed, Agreeing, Starting, Open, Settles, Stops, Matches, Matching
  <2> QED
    BY <2>1, <2>2, <2>3, <2>4, <2>5 DEF Unfailed
<1> QED
  BY <1>1, <1>2, <1>3 DEF RunInv

\* Rows, places, copies and history have their types, and while nothing has failed parent,
\* child and stoppers keep their order, for any number of stoppers (spawn_task,
\* finalize_background_subagent_run, task_stop, background stop and attach).
THEOREM SubagentInvariant == RunSpec => []RunInv
<1>1. RunInv /\ [RunNext]_runVars => RunInv'
  <2> SUFFICES ASSUME RunInv, RunNext PROVE RunInv'
    BY RunInvStays
  <2>1. RunTypeOK'
    BY RunTypeStep DEF RunInv
  <2>2. ASSUME NoFailure' PROVE Unfailed'
    <3>1. NoFailure /\ ~MayFail
      BY <2>2, NothingFails DEF RunInv, RunTypeOK, RunNext
    <3> QED
      BY <2>1, <3>1, UnfailedStep DEF RunInv
  <2> QED
    BY <2>1, <2>2 DEF RunInv
<1> QED
  BY <1>1, RunInitOK, PTL DEF RunSpec

\* When every process has finished, parent and child are done and no stop is under way.
LEMMA RestPlaces ==
    ASSUME RunTypeOK, Unfailed, AtRest
    PROVE  at["parent"] = "done" /\ at["child"] \in {"none", "done"} /\ \A q \in Stoppers : at[q] = "idle"
<1>1. \A p \in Procs : at[p] \in {"idle", "none", "working", "thread", "wait", "done"}
  BY DEF AtRest, Writing
<1>2. "parent" \in Procs /\ "child" \in Procs /\ Stoppers \subseteq Procs
  BY DEF Procs
<1>3. at["parent"] \in {"wait", "done"}
  BY <1>1, <1>2 DEF RunTypeOK, PlacesOK, ParentPlaces, Registering, Linking, Settling
<1>4. at["child"] \in {"none", "done"}
  BY <1>1, <1>2 DEF AtRest, RunTypeOK, PlacesOK, ChildPlaces, Settling
<1>5. \A q \in Stoppers : at[q] = "idle"
  BY <1>1, <1>2 DEF RunTypeOK, PlacesOK, StopperPlaces, Stopping, StoppingJob
<1> QED
  BY <1>3, <1>4, <1>5 DEF Unfailed, Together

\* However many processes stop the run, it and its job stay open at rest only for one of the
\* known reasons (spawn_task, finalize_background_subagent_run).
THEOREM RunsAlwaysSettle == RunSpec => []RunsSettle
<1>1. RunInv => RunsSettle
  <2> SUFFICES ASSUME RunInv, AtRest, failures = 0
               PROVE  /\ runRow.status = "running" => past \cap {"promoted", "kill only job", "early"} # {}
                      /\ jobRow.status = "running" => past \cap {"attached", "early"} # {}
    BY DEF RunsSettle
  <2>1. Unfailed /\ RunTypeOK
    BY DEF RunInv, NoFailure
  <2>2. at["parent"] = "done" /\ at["child"] \in {"none", "done"} /\ \A q \in Stoppers : at[q] = "idle"
    BY <2>1, RestPlaces
  <2>3. ~ \E q \in Stoppers : RunStops(q) \/ JobStops(q)
    BY <2>2 DEF RunStops, JobStops, Stopping, StoppingJob
  <2>4. RunSettled /\ JobSettled /\ JobKnown
    BY <2>1 DEF Unfailed
  <2>5. jobRow.status = "running" => at["child"] = "done"
    BY <2>2, <2>4, Readings DEF JobKnown
  <2>6. runRow.status = "running" => "promoted" \in past \/ "kill only job" \in past \/ "early" \in past
    BY <2>2, <2>3, <2>4 DEF RunSettled
  <2>7. jobRow.status = "running" => "attached" \in past \/ "early" \in past
    BY <2>2, <2>3, <2>4, <2>5 DEF JobSettled
  <2> QED
    BY <2>6, <2>7
<1> QED
  BY <1>1, SubagentInvariant, PTL

\* At rest the task says what the run says, unless two processes were writing at the same
\* time or a user wrote the task alone (subagent_runs and task_queue of the store).
THEOREM RecordsAlwaysAgree == RunSpec => []RecordsAgree
<1>1. RunInv => RecordsAgree
  <2> SUFFICES ASSUME RunInv, AtRest, failures = 0, ~overlap, past \cap {"cancelled", "updated"} = {}, runRow # NoRun
               PROVE  CASE runRow.status = "running" -> taskRow.status \in {"in_progress", "running"}
                        [] runRow.status = "stopped" -> taskRow.status = "cancelled"
                        [] OTHER                  -> taskRow.status = runRow.status
    BY DEF RecordsAgree
  <2>1. Unfailed /\ RunTypeOK
    BY DEF RunInv, NoFailure
  <2>2. at["parent"] = "done" /\ at["child"] \in {"none", "done"} /\ \A q \in Stoppers : at[q] = "idle"
    BY <2>1, RestPlaces
  <2>3. Matching
    BY <2>1, <2>2 DEF Unfailed, Agreeing, Matches
  <2> QED
    BY <2>3 DEF Matching, Open
<1> QED
  BY <1>1, SubagentInvariant, PTL

\* An answer that was recorded can be read by the id of the task until somebody stops, cancels
\* or updates the task, although spawn_task writes the run after the child; by the id of the run
\* once the writers are done, unless spawn_task did so (spawn_task, task_output).
THEOREM AnswersAlwaysStay == RunSpec => []AnswersStay
<1>1. RunInv => AnswersStay
  <2> SUFFICES ASSUME RunInv, "answered" \in past, failures = 0, past \cap {"kill", "cancelled", "updated"} = {}
               PROVE  /\ TaskOutput(TRUE) = "answer"
                      /\ AtRest /\ past \cap {"early", "kill only job"} = {} => TaskOutput(FALSE) = "answer"
    BY DEF AnswersStay
  <2>1. Unfailed /\ RunTypeOK /\ Answered /\ Endings /\ OutputKept
    BY DEF RunInv, NoFailure, Unfailed
  <2>2. Completed /\ taskRow.outcome = "answer" /\ (runRow.error => Failed)
    BY <2>1 DEF Answered
  <2>3. ~runRow.error
    BY <2>1, <2>2 DEF Endings, Completed, Failed
  <2>4. TaskOutput(TRUE) = "answer"
    BY <2>2, <2>3 DEF TaskOutput
  <2>5. ASSUME AtRest, past \cap {"early", "kill only job"} = {} PROVE TaskOutput(FALSE) = "answer"
    <3>1. at["parent"] = "done" /\ at["child"] \in {"none", "done"}
      BY <2>1, <2>5, RestPlaces
    <3>2. runRow.output
      BY <2>1, <2>5, <3>1 DEF OutputKept, Undisturbed
    <3> QED
      BY <3>2 DEF TaskOutput
  <2> QED
    BY <2>4, <2>5
<1> QED
  BY <1>1, SubagentInvariant, PTL

\* A stopped run stays stopped if no two processes were writing at the same time
\* (task_stop kills the child before it writes).
THEOREM StoppedAlwaysStays == RunSpec => StoppedStays
<1>1. RunInv /\ [RunNext]_runVars =>
          [runRow.status = "stopped" /\ failures = 0 /\ ~overlap => runRow'.status = "stopped"]_runVars
  <2> SUFFICES ASSUME RunInv, RunNext, runRow.status = "stopped", failures = 0, ~overlap
               PROVE  runRow'.status = "stopped"
    OBVIOUS
  <2>1. at["parent"] = "done" /\ at["child"] = "done"
    BY DEF RunInv, NoFailure, Unfailed, Calm, StoppedLast
  <2>2. \A p \in Procs : copies[p].run \in Run
    BY DEF RunInv, RunTypeOK, RowsOK, Copy
  <2>3. UNCHANGED runRow \/ \E q \in Stoppers : StopRun(q)
    BY <2>1 DEF RunNext, Step, IsAt, InsertTask, InsertRun, ThreadEnds, Promote, Promoted, StartChild,
       InsertChildJob,
       JobStarted, InsertJobAgain, ParentLoads, ParentLinks, ParentReturns, ParentFails, ParentEnds,
       ChildFinishes, ChildLoads, ChildEnds, SettleTask, SettleRun, SettleJob, SettleJobEvent, SettleTaskEvent,
       SettleRunEvent, StopLoads, StopLoadsJob, JobStopLoads, Kill, StopChildJob, StopTask, StopJobEvent,
       StopTaskEvent, StopOnlyJob, StopperEnds, Attach, UpdateTask, UpdateTaskEvent, CancelTask
  <2>4. ASSUME NEW q \in Stoppers, StopRun(q) PROVE runRow'.status = "stopped"
    BY <2>2, <2>4, Readings DEF StopRun, Procs
  <2> QED
    BY <2>3, <2>4
<1> QED
  BY <1>1, SubagentInvariant, PTL DEF RunSpec, StoppedStays
=============================================================================
