------------------------------ MODULE EventStore ------------------------------
(***************************************************************************)
(* The event store of codingbuddy-store: an append-only log of JSON lines  *)
(* shared by all processes of a workspace, the events table of SQLite, and *)
(* the projections that each append updates.  An append takes a sequence   *)
(* number, locks the appends of its own process, writes the text of the    *)
(* event and its newline with two calls, inserts the row and projects it.  *)
(* Each of these steps may fail, and a process may be killed at any point. *)
(*                                                                         *)
(* A client polls the rows of a session with a cursor (events/poll).       *)
(***************************************************************************)
EXTENDS Integers, FiniteSets, Sequences

CONSTANTS
    Threads,      \* threads that append events
    Processes,    \* processes of the workspace
    ProcessOf,    \* the process of a thread
    Sessions,     \* sessions
    NoThread,     \* no thread
    MaxEvents,    \* bound: appends
    MaxFailures   \* bound: failed appends and killed processes

ASSUME EventStoreAssumption ==
    /\ ProcessOf \in [Threads -> Processes]
    /\ NoThread \notin Threads
    /\ MaxEvents \in Nat /\ MaxFailures \in Nat

VARIABLES
    file,       \* events.jsonl: ids of the events whose text stands there, and newlines
    rows,       \* the events table, in the order of insertion
    status,     \* sessions.status
    holder,     \* per process: the thread that holds APPEND_LOCK
    pc,         \* per thread: its place in append_event
    cur,        \* per thread: the event in hand
    issued,     \* appends so far
    failures,   \* failures so far
    damage,     \* what has cut or mixed lines of the log so far (history variable)
    lost,       \* rows whose projection never ran (history variable)
    cursor,     \* per session: next_cursor of its polling client
    delivered   \* ids of the rows the clients have received

log == <<file, rows, status>>
locals == <<holder, pc, cur>>
history == <<damage, lost>>
client == <<cursor, delivered>>
vars == <<log, locals, issued, failures, history, client>>

Newline == 0

Kinds == {"turn", "plan", "exit"}
Statuses == {"Idle", "Planning", "AwaitingApproval"}

Event == [id : 1..MaxEvents, session : Sessions, kind : Kinds, seq : 0..MaxEvents, by : Threads]
NoEvent == [id |-> 0]

Init ==
    /\ file = <<>> /\ rows = <<>>
    /\ status = [s \in Sessions |-> "Idle"]
    /\ holder = [p \in Processes |-> NoThread]
    /\ pc = [t \in Threads |-> "idle"]
    /\ cur = [t \in Threads |-> NoEvent]
    /\ issued = 0 /\ failures = 0
    /\ damage = {} /\ lost = {}
    /\ cursor = [s \in Sessions |-> 0]
    /\ delivered = {}

Goto(t, place) == pc' = [pc EXCEPT ![t] = place]
Release(t) == holder' = [holder EXCEPT ![ProcessOf[t]] = NoThread]

RowsOf(s) == {i \in DOMAIN rows : rows[i].session = s}
Greatest(S) == CHOOSE n \in S : \A m \in S : m <= n

\* A mistake the checks of this definition must notice: NextSeqNo.
NextSeqNoRepeats(s) == Greatest({0} \cup {rows[i].seq : i \in RowsOf(s)})

\* SELECT COALESCE(MAX(seq_no), 0) + 1, outside the append lock.
NextSeqNo(s) == Greatest({0} \cup {rows[i].seq : i \in RowsOf(s)}) + 1

StartAppend(t, s, k) ==
    /\ pc[t] = "idle" /\ issued < MaxEvents
    /\ issued' = issued + 1
    /\ cur' = [cur EXCEPT ![t] = [id |-> issued + 1, session |-> s, kind |-> k,
                                  seq |-> NextSeqNo(s), by |-> t]]
    /\ Goto(t, "lock")
    /\ UNCHANGED <<log, holder, failures, history, client>>

\* A mistake the checks of this definition must notice: TakeAppendLock.
TakeAppendLockUnguarded(t) ==
    /\ pc[t] = "lock"
    /\ holder' = [holder EXCEPT ![ProcessOf[t]] = t]
    /\ Goto(t, "text")
    /\ UNCHANGED <<log, cur, issued, failures, history, client>>

TakeAppendLock(t) ==
    /\ pc[t] = "lock" /\ holder[ProcessOf[t]] = NoThread
    /\ holder' = [holder EXCEPT ![ProcessOf[t]] = t]
    /\ Goto(t, "text")
    /\ UNCHANGED <<log, cur, issued, failures, history, client>>

\* Another process is between the text and the newline of its event.
InsideALine(t) == \E u \in Threads : pc[u] = "newline" /\ ProcessOf[u] # ProcessOf[t]

\* writeln! on a File is two writes: the text, then the newline.
WriteText(t) ==
    /\ pc[t] = "text"
    /\ file' = Append(file, cur[t].id)
    /\ damage' = IF InsideALine(t) THEN damage \cup {"overlap"} ELSE damage
    /\ Goto(t, "newline")
    /\ UNCHANGED <<rows, status, holder, cur, issued, failures, lost, client>>

\* A mistake the checks of this definition must notice: WriteNewline.
WriteNewlineUnlocks(t) ==
    /\ pc[t] = "newline"
    /\ file' = Append(file, Newline)
    /\ Release(t)
    /\ Goto(t, "row")
    /\ UNCHANGED <<rows, status, cur, issued, failures, history, client>>

WriteNewline(t) ==
    /\ pc[t] = "newline"
    /\ file' = Append(file, Newline)
    /\ Goto(t, "row")
    /\ UNCHANGED <<rows, status, holder, cur, issued, failures, history, client>>

\* A mistake the checks of this definition must notice: InsertRow.
InsertRowUnlocks(t) ==
    /\ pc[t] = "row"
    /\ rows' = Append(rows, cur[t])
    /\ Release(t)
    /\ Goto(t, "project")
    /\ UNCHANGED <<file, status, cur, issued, failures, history, client>>

InsertRow(t) ==
    /\ pc[t] = "row"
    /\ rows' = Append(rows, cur[t])
    /\ Goto(t, "project")
    /\ UNCHANGED <<file, status, holder, cur, issued, failures, history, client>>

Effect(kind) == CASE kind = "plan" -> "Planning" [] kind = "exit" -> "AwaitingApproval"
SetsStatus == {"plan", "exit"}

\* project_event, as far as it concerns the sessions table.
Project(t) ==
    /\ pc[t] = "project"
    /\ status' = IF cur[t].kind \in SetsStatus
                 THEN [status EXCEPT ![cur[t].session] = Effect(cur[t].kind)]
                 ELSE status
    /\ Release(t)
    /\ cur' = [cur EXCEPT ![t] = NoEvent]
    /\ Goto(t, "idle")
    /\ UNCHANGED <<file, rows, issued, failures, history, client>>

\* The appends of these threads end where they are; nothing is undone.
Abandon(T) ==
    /\ failures < MaxFailures
    /\ failures' = failures + 1
    /\ pc' = [t \in Threads |-> IF t \in T THEN "idle" ELSE pc[t]]
    /\ cur' = [t \in Threads |-> IF t \in T THEN NoEvent ELSE cur[t]]
    /\ holder' = [p \in Processes |-> IF holder[p] \in T THEN NoThread ELSE holder[p]]
    /\ damage' = IF \E t \in T : pc[t] = "newline" THEN damage \cup {"cut"} ELSE damage
    /\ lost' = lost \cup {cur[t].id : t \in {u \in T : pc[u] = "project"}}
    /\ UNCHANGED <<log, issued, client>>

\* A write or an SQL statement fails and append_event returns the error.
AppendFails(t) == pc[t] \notin {"idle", "lock"} /\ Abandon({t})

\* The process is killed.
Crash(p) ==
    LET mine == {t \in Threads : ProcessOf[t] = p}
    IN  /\ \E t \in mine : pc[t] # "idle"
        /\ Abandon(mine)

\* events/poll: the rows after the cursor in the order of their numbers, up to
\* the limit, which may separate rows with the same number.
Poll(s) ==
    /\ \E n \in {rows[i].seq : i \in RowsOf(s)} :
          /\ n > cursor[s]
          /\ LET below == {rows[i].id : i \in {j \in RowsOf(s) : rows[j].seq > cursor[s] /\ rows[j].seq < n}}
                 at == {rows[i].id : i \in {j \in RowsOf(s) : rows[j].seq = n}}
             IN  \E part \in (SUBSET at) \ {{}} : delivered' = delivered \cup below \cup part
          /\ cursor' = [cursor EXCEPT ![s] = n]
    /\ UNCHANGED <<log, locals, issued, failures, history>>

AppendStep(t) ==
    TakeAppendLock(t) \/ WriteText(t) \/ WriteNewline(t) \/ InsertRow(t) \/ Project(t)

Next ==
    \/ \E t \in Threads, s \in Sessions, k \in Kinds : StartAppend(t, s, k)
    \/ \E t \in Threads : AppendStep(t) \/ AppendFails(t)
    \/ \E p \in Processes : Crash(p)
    \/ \E s \in Sessions : Poll(s)

Spec == Init /\ [][Next]_vars

-----------------------------------------------------------------------------
(* What readers see *)

\* rebuild_from_events parses every line and gives up at the first that is not
\* one event: each newline must end exactly one text.
Readable ==
    /\ file # <<>> => file[1] # Newline
    /\ \A i \in 1..(Len(file) - 1) : (file[i] = Newline) # (file[i + 1] = Newline)

Position(e) == CHOOSE i \in DOMAIN file : file[i] = e.id

-----------------------------------------------------------------------------
(* Properties *)

\* Types, and a thread has an event in hand exactly while it appends.
TypeOK ==
    /\ file \in Seq(1..MaxEvents \cup {Newline}) /\ rows \in Seq(Event)
    /\ status \in [Sessions -> Statuses]
    /\ holder \in [Processes -> Threads \cup {NoThread}]
    /\ pc \in [Threads -> {"idle", "lock", "text", "newline", "row", "project"}]
    /\ cur \in [Threads -> Event \cup {NoEvent}]
    /\ \A t \in Threads : IF pc[t] = "idle" THEN cur[t] = NoEvent ELSE cur[t] \in Event
    /\ issued \in 0..MaxEvents /\ failures \in 0..MaxFailures
    /\ damage \subseteq {"overlap", "cut"} /\ lost \subseteq 1..MaxEvents
    /\ cursor \in [Sessions -> 0..MaxEvents] /\ delivered \subseteq 1..MaxEvents

\* The log, which every session of the workspace is rebuilt from, becomes
\* unreadable only if two processes append at the same time or an append is
\* cut between text and newline; threads of one process never damage it.
UnreadableHasCause == damage = {} => Readable

\* The rows of one process are in its log, in the same order, so that replaying
\* the rows and rebuilding from the log agree.
RowsFollowLog ==
    /\ \A i \in DOMAIN rows : \E j \in DOMAIN file : file[j] = rows[i].id
    /\ \A i, j \in DOMAIN rows :
          i < j /\ ProcessOf[rows[i].by] = ProcessOf[rows[j].by]
            => Position(rows[i]) < Position(rows[j])

\* The rows of a process that have set the status of a session.
Settled(s, p) ==
    {i \in RowsOf(s) :
        /\ ProcessOf[rows[i].by] = p /\ rows[i].kind \in SetsStatus
        /\ rows[i].id \notin lost
        /\ \A t \in Threads : pc[t] = "project" => cur[t] # rows[i]}

\* The status of a session is what the last row of some process says: within
\* a process no earlier event overwrites a later one.
StatusFromLastRow ==
    \A s \in Sessions :
        \/ status[s] = "Idle" /\ \A p \in Processes : Settled(s, p) = {}
        \/ \E p \in Processes :
              /\ Settled(s, p) # {}
              /\ status[s] = Effect(rows[Greatest(Settled(s, p))].kind)

\* A polling client misses a row only if another thread took the same number
\* at the same time and its row was delivered instead.
MissedOnlyByRace ==
    \A i \in DOMAIN rows :
        rows[i].seq <= cursor[rows[i].session] /\ rows[i].id \notin delivered =>
            \E j \in DOMAIN rows :
                /\ rows[j].session = rows[i].session /\ rows[j].seq = rows[i].seq
                /\ rows[j].by # rows[i].by /\ rows[j].id \in delivered
=============================================================================
