--------------------------- MODULE EventStoreProofs ---------------------------
(***************************************************************************)
(* EventStore for any number of threads, processes and sessions.           *)
(*                                                                         *)
(* The append lock of a process is held by whoever is between its text and *)
(* its projection; so of the threads that are inside a line at the same    *)
(* time no two are of one process.  As long as nothing has cut or mixed a  *)
(* line, at most one thread is inside a line, and the log ends with a text *)
(* exactly then.                                                           *)
(*                                                                         *)
(* The numbers of a session have no gaps, and a thread never repeats one;  *)
(* so a client whose cursor has passed a number has received a row of it.  *)
(***************************************************************************)
EXTENDS EventStore, TLAPS, WellFoundedInduction

-----------------------------------------------------------------------------
(* Sequence numbers *)

\* A set of numbers up to a bound has a greatest element.
LEMMA GreatestOf ==
    ASSUME NEW N \in Nat, NEW S \in SUBSET (0..N), S # {}
    PROVE  Greatest(S) \in S /\ \A m \in S : m <= Greatest(S)
<1>1. \E n \in S : \A m \in S : m <= n
  <2> DEFINE T == {k \in 0..N : N - k \in S}
  <2>0. PICK s \in S : TRUE
    OBVIOUS
  <2>1. N - s \in T /\ T \subseteq Nat
    BY <2>0
  <2>2. PICK x \in T : \A y \in T : ~ (<<y, x>> \in OpToRel(<, Nat))
    BY <2>1, NatLessThanWellFounded, WFMin, Zenon
  <2> DEFINE n == N - x
  <2>3. x \in 0..N /\ n \in S /\ x = N - n
    OBVIOUS
  <2>4. ASSUME NEW m \in S PROVE m <= n
    <3>1. N - m \in T
      OBVIOUS
    <3>2. <<N - m, x>> \notin OpToRel(<, Nat)
      BY <2>2, <3>1, Zenon
    <3>3. ~ (N - m < x)
      BY <2>1, <3>1, <3>2 DEF OpToRel
    <3> QED
      BY <2>3, <3>3
  <2> QED
    BY <2>3, <2>4
<1> QED
  BY <1>1 DEF Greatest

\* Numbers grow with the appends; ids are new, and carried by their thread.
Numbered ==
    /\ \A i \in DOMAIN rows : rows[i].id <= issued /\ rows[i].seq <= issued
    /\ \A t \in Threads :
          pc[t] # "idle" => cur[t].id <= issued /\ cur[t].seq <= issued /\ cur[t].by = t
    /\ \A t, u \in Threads : t # u /\ pc[t] # "idle" /\ pc[u] # "idle" => cur[t].id # cur[u].id
    /\ \A j \in DOMAIN file : file[j] <= issued

Typed == TypeOK /\ Numbered

\* The fields of the events in the table and in hand.
LEMMA EventFields ==
    ASSUME TypeOK
    PROVE  /\ \A i \in DOMAIN rows :
                 rows[i] \in Event /\ rows[i].id \in 1..MaxEvents /\ rows[i].seq \in 0..MaxEvents
           /\ \A t \in Threads : pc[t] # "idle" =>
                 cur[t] \in Event /\ cur[t].id \in 1..MaxEvents /\ cur[t].seq \in 0..MaxEvents
<1>1. \A e \in Event : e.id \in 1..MaxEvents /\ e.seq \in 0..MaxEvents
  BY DEF Event
<1>2. \A i \in DOMAIN rows : rows[i] \in Event
  BY DEF TypeOK
<1>3. \A t \in Threads : pc[t] # "idle" => cur[t] \in Event
  BY DEF TypeOK
<1> QED
  BY <1>1, <1>2, <1>3

\* The number a new event gets lies just above those of its session.
LEMMA NextSeqNoBound ==
    ASSUME Typed, NEW s \in Sessions
    PROVE  NextSeqNo(s) \in 1..(issued + 1)
<1> DEFINE S == {0} \cup {rows[i].seq : i \in RowsOf(s)}
<1>1. issued \in Nat
  BY EventStoreAssumption DEF Typed, TypeOK
<1>2. S \in SUBSET (0..issued) /\ S # {}
  <2>1. \A i \in DOMAIN rows : rows[i].seq \in 0..issued
    BY <1>1, EventFields, EventStoreAssumption DEF Typed, Numbered
  <2> QED
    BY <1>1, <2>1 DEF RowsOf
<1> HIDE DEF S
<1>3. Greatest(S) \in 0..issued
  BY <1>1, <1>2, GreatestOf
<1> QED
  BY <1>1, <1>3 DEF NextSeqNo, S

LEMMA TypedInit ==
    ASSUME Init PROVE Typed
BY EventStoreAssumption
DEF Init, Typed, TypeOK, Numbered, Statuses, NoEvent, Newline, Event

USE DEF log, locals, history, client, Goto, Release

\* Every step keeps the types and the numbers.
LEMMA TypedStep ==
    ASSUME Typed, [Next]_vars
    PROVE  Typed'
<1> USE EventStoreAssumption DEF Typed
<1>1. ASSUME NEW t \in Threads, NEW s \in Sessions, NEW k \in Kinds, StartAppend(t, s, k)
      PROVE  Typed'
  <2>1. NextSeqNo(s) \in 1..(issued + 1)
    BY NextSeqNoBound
  <2>2. cur'[t] \in Event /\ cur'[t].id = issued + 1 /\ cur'[t].seq <= issued + 1 /\ cur'[t].by = t
    BY <1>1, <2>1 DEF StartAppend, TypeOK, Event
  <2>3. \A u \in Threads \ {t} : cur'[u] = cur[u] /\ pc'[u] = pc[u]
    BY <1>1 DEF StartAppend, TypeOK
  <2>4. pc' \in [Threads -> {"idle", "lock", "text", "newline", "row", "project"}] /\ pc'[t] = "lock"
    BY <1>1 DEF StartAppend, TypeOK
  <2>5. TypeOK'
    BY <1>1, <2>2, <2>3, <2>4 DEF StartAppend, TypeOK
  <2>6. \A u \in Threads \ {t} : pc'[u] # "idle" => cur[u].id <= issued /\ cur[u].seq <= issued
    BY <2>3 DEF Numbered
  <2>7. issued' = issued + 1 /\ issued \in Nat /\ file' = file /\ rows' = rows
    BY <1>1 DEF StartAppend, TypeOK
  <2>8. \A u \in Threads : pc'[u] # "idle" => cur'[u].id <= issued' /\ cur'[u].seq <= issued' /\ cur'[u].by = u
    BY <2>2, <2>3, <2>6, <2>7, EventFields DEF Numbered
  <2>9. \A u \in Threads \ {t} : pc'[u] # "idle" => cur'[u].id # cur'[t].id
    BY <2>2, <2>3, <2>6, <2>7, EventFields
  <2>10. \A u, v \in Threads : u # v /\ pc'[u] # "idle" /\ pc'[v] # "idle" => cur'[u].id # cur'[v].id
    BY <2>3, <2>9 DEF Numbered
  <2>11. \A i \in DOMAIN rows' : rows'[i].id <= issued' /\ rows'[i].seq <= issued'
    BY <2>7, EventFields DEF Numbered
  <2>12. \A j \in DOMAIN file' : file'[j] <= issued'
    BY <2>7 DEF Numbered, TypeOK, Newline
  <2>13. Numbered'
    BY <2>8, <2>10, <2>11, <2>12 DEF Numbered
  <2> QED
    BY <2>5, <2>13
<1>2. ASSUME NEW t \in Threads, TakeAppendLock(t) PROVE Typed'
  BY <1>2 DEF TakeAppendLock, TypeOK, Numbered
<1>3. ASSUME NEW t \in Threads, WriteText(t) PROVE Typed'
  <2>1. cur[t].id \in 1..MaxEvents /\ cur[t].id <= issued
    BY <1>3 DEF WriteText, TypeOK, Numbered, Event
  <2>2. TypeOK'
    BY <1>3, <2>1 DEF WriteText, TypeOK
  <2>3. Numbered'
    BY <1>3, <2>1 DEF WriteText, TypeOK, Numbered
  <2> QED
    BY <2>2, <2>3
<1>4. ASSUME NEW t \in Threads, WriteNewline(t) PROVE Typed'
  BY <1>4 DEF WriteNewline, TypeOK, Numbered, Newline
<1>5. ASSUME NEW t \in Threads, InsertRow(t) PROVE Typed'
  <2>1. cur[t] \in Event /\ cur[t].id <= issued /\ cur[t].seq <= issued
    BY <1>5 DEF InsertRow, TypeOK, Numbered
  <2>2. TypeOK'
    BY <1>5, <2>1 DEF InsertRow, TypeOK
  <2>3. Numbered'
    BY <1>5, <2>1 DEF InsertRow, TypeOK, Numbered
  <2> QED
    BY <2>2, <2>3
<1>6. ASSUME NEW t \in Threads, Project(t) PROVE Typed'
  <2>1. status' \in [Sessions -> Statuses]
    BY <1>6 DEF Project, TypeOK, Effect, SetsStatus, Statuses, Event
  <2>2. TypeOK'
    BY <1>6, <2>1 DEF Project, TypeOK
  <2>3. Numbered'
    BY <1>6 DEF Project, TypeOK, Numbered
  <2> QED
    BY <2>2, <2>3
<1>7. ASSUME NEW T \in SUBSET Threads, Abandon(T) PROVE Typed'
  <2>1. lost' \subseteq 1..MaxEvents
    <3>1. \A u \in T : pc[u] = "project" => cur[u].id \in 1..MaxEvents
      BY EventFields
    <3>2. lost' = lost \cup {cur[u].id : u \in {v \in T : pc[v] = "project"}}
      BY <1>7 DEF Abandon
    <3>3. lost \subseteq 1..MaxEvents
      BY DEF TypeOK
    <3> QED
      BY <3>1, <3>2, <3>3
  <2>2. TypeOK'
    BY <1>7, <2>1 DEF Abandon, TypeOK
  <2>3. Numbered'
    BY <1>7 DEF Abandon, TypeOK, Numbered
  <2> QED
    BY <2>2, <2>3
<1>8. ASSUME NEW s \in Sessions, Poll(s) PROVE Typed'
  <2>1. cursor' \in [Sessions -> 0..MaxEvents]
    BY <1>8, EventFields DEF Poll, TypeOK, RowsOf
  <2>2. delivered' \subseteq 1..MaxEvents
    <3> DEFINE ids == {rows[i].id : i \in DOMAIN rows}
    <3>1. ids \subseteq 1..MaxEvents
      BY EventFields
    <3>2. delivered' \subseteq delivered \cup ids
      BY <1>8 DEF Poll, RowsOf
    <3>3. delivered \subseteq 1..MaxEvents
      BY DEF TypeOK
    <3> QED
      BY <3>1, <3>2, <3>3
  <2>3. TypeOK'
    BY <1>8, <2>1, <2>2 DEF Poll, TypeOK
  <2> QED
    BY <1>8, <2>3 DEF Poll, Numbered
<1>9. CASE UNCHANGED vars
  BY <1>9 DEF vars, TypeOK, Numbered
<1> QED
  BY <1>1, <1>2, <1>3, <1>4, <1>5, <1>6, <1>7, <1>8, <1>9
  DEF Next, AppendStep, AppendFails, Crash

\* Every reachable state is of the types of TypeOK.
THEOREM TypeCorrect == Spec => []TypeOK
<1>1. Typed => TypeOK
  BY DEF Typed
<1> QED
  BY <1>1, TypedInit, TypedStep, PTL DEF Spec

-----------------------------------------------------------------------------
(* The append lock and the lines of the log *)

\* The lock of a process is held from the text to the projection.
HoldersWrite ==
    \A t \in Threads : pc[t] \in {"text", "newline", "row", "project"} => holder[ProcessOf[t]] = t

InText == file # <<>> /\ file[Len(file)] # Newline

\* Without damage one thread at most is inside a line, and the log ends with a
\* text exactly then.
LinesWhole ==
    damage = {} =>
        /\ \A t, u \in Threads : pc[t] = "newline" /\ pc[u] = "newline" => t = u
        /\ InText <=> \E t \in Threads : pc[t] = "newline"
        /\ Readable

LogShape == HoldersWrite /\ LinesWhole

\* What an append to the log does to its last element and to its alternation.
LEMMA AppendLine ==
    ASSUME NEW S, file \in Seq(S), NEW x \in S, file' = Append(file, x)
    PROVE  /\ file' # <<>> /\ file'[Len(file')] = x
           /\ Readable /\ (InText <=> x = Newline) => Readable'
<1>1. Len(file') = Len(file) + 1 /\ file'[Len(file')] = x /\ file' # <<>>
  OBVIOUS
<1>2. \A i \in 1..Len(file) : file'[i] = file[i]
  OBVIOUS
<1>3. file = <<>> <=> Len(file) = 0
  OBVIOUS
<1>4. ASSUME Readable, InText <=> x = Newline PROVE Readable'
  <2>1. file'[1] # Newline
    BY <1>1, <1>2, <1>3, <1>4 DEF Readable, InText
  <2>2. ASSUME NEW i \in 1..(Len(file') - 1) PROVE (file'[i] = Newline) # (file'[i + 1] = Newline)
    <3>1. CASE i < Len(file)
      BY <1>1, <1>2, <1>4, <3>1 DEF Readable
    <3>2. CASE i = Len(file)
      BY <1>1, <1>2, <1>3, <1>4, <3>2 DEF InText
    <3> QED
      BY <1>1, <3>1, <3>2
  <2> QED
    BY <2>1, <2>2 DEF Readable
<1> QED
  BY <1>1, <1>4

LEMMA LogShapeStep ==
    ASSUME Typed, LogShape, [Next]_vars
    PROVE  LogShape'
<1> USE EventStoreAssumption DEF Typed, LogShape
<1>0. TypeOK' /\ pc \in [Threads -> {"idle", "lock", "text", "newline", "row", "project"}]
  BY TypedStep DEF TypeOK
<1>1. ASSUME NEW t \in Threads, NEW s \in Sessions, NEW k \in Kinds, StartAppend(t, s, k)
      PROVE  LogShape'
  BY <1>0, <1>1 DEF StartAppend, HoldersWrite, LinesWhole, InText, Readable
<1>2. ASSUME NEW t \in Threads, TakeAppendLock(t) PROVE LogShape'
  <2>1. HoldersWrite'
    BY <1>0, <1>2 DEF TakeAppendLock, HoldersWrite, TypeOK
  <2>2. LinesWhole'
    BY <1>0, <1>2 DEF TakeAppendLock, LinesWhole, InText, Readable
  <2> QED
    BY <2>1, <2>2
<1>3. ASSUME NEW t \in Threads, WriteText(t) PROVE LogShape'
  <2>1. HoldersWrite'
    BY <1>0, <1>3 DEF WriteText, HoldersWrite
  <2>2. ASSUME damage' = {}
        PROVE  damage = {} /\ \A u \in Threads : pc[u] # "newline"
    <3>1. damage = {} /\ ~InsideALine(t)
      BY <1>3, <2>2 DEF WriteText
    <3>2. ASSUME NEW u \in Threads, pc[u] = "newline" PROVE FALSE
      <4>1. ProcessOf[u] = ProcessOf[t]
        BY <3>1, <3>2 DEF InsideALine
      <4>2. holder[ProcessOf[t]] = t /\ holder[ProcessOf[u]] = u
        BY <1>3, <3>2 DEF WriteText, HoldersWrite
      <4> QED
        BY <1>3, <3>2, <4>1, <4>2 DEF WriteText
    <3> QED
      BY <3>1, <3>2
  <2>3. cur[t].id # Newline /\ file \in Seq(1..MaxEvents \cup {Newline})
    BY <1>3, EventFields DEF WriteText, Newline, TypeOK
  <2>4. cur[t].id \in 1..MaxEvents \cup {Newline}
    BY <1>3, EventFields DEF WriteText
  <2>5. pc' = [pc EXCEPT ![t] = "newline"] /\ file' = Append(file, cur[t].id)
    BY <1>3 DEF WriteText
  <2>6. InText'
    BY <2>3, <2>4, <2>5, AppendLine DEF InText
  <2>7. damage' = {} => Readable'
    BY <2>2, <2>3, <2>4, <2>5, AppendLine DEF LinesWhole
  <2>8. LinesWhole'
    BY <1>0, <2>2, <2>5, <2>6, <2>7 DEF LinesWhole
  <2> QED
    BY <2>1, <2>8
<1>4. ASSUME NEW t \in Threads, WriteNewline(t) PROVE LogShape'
  <2>1. HoldersWrite'
    BY <1>0, <1>4 DEF WriteNewline, HoldersWrite
  <2>2. file \in Seq(1..MaxEvents \cup {Newline}) /\ Newline \in 1..MaxEvents \cup {Newline}
    BY DEF TypeOK
  <2>3. pc' = [pc EXCEPT ![t] = "row"] /\ pc[t] = "newline" /\ damage' = damage
    BY <1>4 DEF WriteNewline
  <2>4. file' = Append(file, Newline)
    BY <1>4 DEF WriteNewline
  <2>5. ~InText'
    BY <2>2, <2>4, AppendLine DEF InText
  <2>6. damage' = {} => Readable'
    BY <2>2, <2>3, <2>4, AppendLine DEF LinesWhole
  <2>7. LinesWhole'
    BY <1>0, <2>3, <2>5, <2>6 DEF LinesWhole
  <2> QED
    BY <2>1, <2>7
<1>5. ASSUME NEW t \in Threads, InsertRow(t) PROVE LogShape'
  BY <1>0, <1>5 DEF InsertRow, HoldersWrite, LinesWhole, InText, Readable
<1>6. ASSUME NEW t \in Threads, Project(t) PROVE LogShape'
  <2>1. HoldersWrite'
    BY <1>0, <1>6 DEF Project, HoldersWrite, TypeOK
  <2>2. LinesWhole'
    BY <1>0, <1>6 DEF Project, LinesWhole, InText, Readable
  <2> QED
    BY <2>1, <2>2
<1>7. ASSUME NEW T \in SUBSET Threads, Abandon(T) PROVE LogShape'
  <2>1. HoldersWrite'
    BY <1>0, <1>7 DEF Abandon, HoldersWrite
  <2>2. damage' = {} => damage = {} /\ \A t \in T : pc[t] # "newline"
    BY <1>7 DEF Abandon
  <2>3. LinesWhole'
    BY <1>0, <1>7, <2>2 DEF Abandon, LinesWhole, InText, Readable
  <2> QED
    BY <2>1, <2>3
<1>8. ASSUME NEW s \in Sessions, Poll(s) PROVE LogShape'
  BY <1>8 DEF Poll, HoldersWrite, LinesWhole, InText, Readable
<1>9. CASE UNCHANGED vars
  BY <1>9 DEF vars, HoldersWrite, LinesWhole, InText, Readable
<1> QED
  BY <1>1, <1>2, <1>3, <1>4, <1>5, <1>6, <1>7, <1>8, <1>9
  DEF Next, AppendStep, AppendFails, Crash

\* The log becomes unreadable only if two processes append at the same time or
\* an append is cut between text and newline.
THEOREM LogReadable == Spec => []UnreadableHasCause
<1>1. Init => LogShape
  BY DEF Init, LogShape, HoldersWrite, LinesWhole, InText, Readable
<1>2. LogShape => UnreadableHasCause
  BY DEF LogShape, LinesWhole, UnreadableHasCause
<1> QED
  BY <1>1, <1>2, TypedInit, TypedStep, LogShapeStep, PTL DEF Spec

-----------------------------------------------------------------------------
(* The rows follow the log *)

\* An event reaches the log with its text, and the table only after that.
Logged ==
    /\ \A t \in Threads : pc[t] \in {"lock", "text"} => \A j \in DOMAIN file : file[j] # cur[t].id
    /\ \A t \in Threads :
          pc[t] \in {"newline", "row", "project"} => \E j \in DOMAIN file : file[j] = cur[t].id
    /\ \A i \in DOMAIN rows : \E j \in DOMAIN file : file[j] = rows[i].id

\* In the log, a row comes before the later rows of its process, and before the
\* event that its process is appending.
Before(x, y) == \A a, b \in DOMAIN file : file[a] = x /\ file[b] = y => a < b

Ordered ==
    /\ \A i, j \in DOMAIN rows :
          i < j /\ ProcessOf[rows[i].by] = ProcessOf[rows[j].by] => Before(rows[i].id, rows[j].id)
    /\ \A t \in Threads, i \in DOMAIN rows :
          pc[t] \in {"newline", "row"} /\ ProcessOf[rows[i].by] = ProcessOf[t]
            => Before(rows[i].id, cur[t].id)

LogOrder == Logged /\ Ordered

LEMMA LogOrderStep ==
    ASSUME Typed, HoldersWrite, LogOrder, [Next]_vars
    PROVE  LogOrder'
<1> USE EventStoreAssumption DEF Typed, LogOrder
<1>0. pc \in [Threads -> {"idle", "lock", "text", "newline", "row", "project"}]
  BY DEF TypeOK
<1>1. ASSUME NEW t \in Threads, NEW s \in Sessions, NEW k \in Kinds, StartAppend(t, s, k)
      PROVE  LogOrder'
  <2>1. cur'[t].id = issued + 1 /\ pc'[t] = "lock"
    BY <1>0, <1>1 DEF StartAppend, TypeOK
  <2>2. \A u \in Threads \ {t} : cur'[u] = cur[u] /\ pc'[u] = pc[u]
    BY <1>1 DEF StartAppend, TypeOK
  <2>3. file' = file /\ rows' = rows
    BY <1>1 DEF StartAppend
  <2>4. \A j \in DOMAIN file : file[j] # issued + 1
    BY DEF Numbered, TypeOK, Newline
  <2>5. Logged'
    BY <2>1, <2>2, <2>3, <2>4 DEF Logged
  <2>6. Ordered'
    BY <2>1, <2>2, <2>3 DEF Ordered, Before
  <2> QED
    BY <2>5, <2>6
<1>2. ASSUME NEW t \in Threads, TakeAppendLock(t) PROVE LogOrder'
  BY <1>0, <1>2 DEF TakeAppendLock, Logged, Ordered, Before
<1>3. ASSUME NEW t \in Threads, WriteText(t) PROVE LogOrder'
  <2>1. file' = Append(file, cur[t].id) /\ rows' = rows /\ cur' = cur /\ pc[t] = "text"
    BY <1>3 DEF WriteText
  <2>2. pc' = [pc EXCEPT ![t] = "newline"]
    BY <1>3 DEF WriteText
  <2>3. file \in Seq(1..MaxEvents \cup {Newline}) /\ cur[t].id \in 1..MaxEvents \cup {Newline}
    BY <2>1, EventFields DEF TypeOK
  <2>4. /\ DOMAIN file = 1..Len(file) /\ DOMAIN file' = 1..(Len(file) + 1) /\ Len(file) \in Nat
        /\ \A j \in DOMAIN file : file'[j] = file[j]
        /\ file'[Len(file) + 1] = cur[t].id
    BY <2>1, <2>3
  <2>5. \A u \in Threads \ {t} : pc[u] # "idle" => cur[u].id # cur[t].id
    BY <2>1 DEF Numbered
  <2>6. \A i \in DOMAIN rows : rows[i].id # cur[t].id
    BY <2>1 DEF Logged
  <2>7. \A j \in DOMAIN file : file[j] # cur[t].id
    BY <2>1 DEF Logged
  <2>8. Logged'
    <3>1. \A u \in Threads : pc'[u] \in {"lock", "text"} => \A j \in DOMAIN file' : file'[j] # cur'[u].id
      BY <1>0, <2>1, <2>2, <2>4, <2>5 DEF Logged
    <3>2. \A u \in Threads :
             pc'[u] \in {"newline", "row", "project"} => \E j \in DOMAIN file' : file'[j] = cur'[u].id
      BY <1>0, <2>1, <2>2, <2>4 DEF Logged
    <3>3. \A i \in DOMAIN rows' : \E j \in DOMAIN file' : file'[j] = rows'[i].id
      BY <2>1, <2>4 DEF Logged
    <3> QED
      BY <3>1, <3>2, <3>3 DEF Logged
  <2>9. \A x, y : x # cur[t].id /\ y # cur[t].id /\ Before(x, y) => Before(x, y)'
    BY <2>4 DEF Before
  <2>10. \A x : x # cur[t].id => Before(x, cur[t].id)'
    BY <2>1, <2>4, <2>7 DEF Before
  <2>11. \A i, j \in DOMAIN rows' :
            i < j /\ ProcessOf[rows'[i].by] = ProcessOf[rows'[j].by] => Before(rows[i].id, rows[j].id)'
    BY <2>1, <2>6, <2>9 DEF Ordered, Before
  <2>12. ASSUME NEW u \in Threads, NEW i \in DOMAIN rows',
                pc'[u] \in {"newline", "row"}, ProcessOf[rows'[i].by] = ProcessOf[u]
         PROVE  Before(rows[i].id, cur[u].id)'
    <3>1. CASE u = t
      BY <2>1, <2>4, <2>6, <2>7, <3>1 DEF Before
    <3>2. CASE u # t
      <4>1. pc[u] \in {"newline", "row"} /\ cur[u].id # cur[t].id
        BY <1>0, <2>2, <2>5, <2>12, <3>2
      <4>2. Before(rows[i].id, cur[u].id)
        BY <2>1, <2>12, <4>1 DEF Ordered
      <4> QED
        BY <2>1, <2>4, <2>6, <4>1, <4>2 DEF Before
    <3> QED
      BY <3>1, <3>2
  <2>13. Ordered'
    BY <2>11, <2>12 DEF Ordered
  <2> QED
    BY <2>8, <2>13
<1>4. ASSUME NEW t \in Threads, WriteNewline(t) PROVE LogOrder'
  <2>1. file' = Append(file, Newline) /\ rows' = rows /\ cur' = cur /\ pc[t] = "newline"
    BY <1>4 DEF WriteNewline
  <2>2. pc' = [pc EXCEPT ![t] = "row"]
    BY <1>4 DEF WriteNewline
  <2>3. file \in Seq(1..MaxEvents \cup {Newline})
    BY DEF TypeOK
  <2>4. /\ DOMAIN file = 1..Len(file) /\ DOMAIN file' = 1..(Len(file) + 1) /\ Len(file) \in Nat
        /\ \A j \in DOMAIN file : file'[j] = file[j]
        /\ file'[Len(file) + 1] = Newline
    BY <2>1, <2>3
  <2>5. /\ \A i \in DOMAIN rows : rows[i].id # Newline
        /\ \A u \in Threads : pc[u] # "idle" => cur[u].id # Newline
    BY EventFields DEF Newline
  <2>6. Logged'
    <3>1. \A u \in Threads : pc'[u] \in {"lock", "text"} => \A j \in DOMAIN file' : file'[j] # cur'[u].id
      BY <1>0, <2>1, <2>2, <2>4, <2>5 DEF Logged
    <3>2. \A u \in Threads :
             pc'[u] \in {"newline", "row", "project"} => \E j \in DOMAIN file' : file'[j] = cur'[u].id
      BY <1>0, <2>1, <2>2, <2>4 DEF Logged
    <3>3. \A i \in DOMAIN rows' : \E j \in DOMAIN file' : file'[j] = rows'[i].id
      BY <2>1, <2>4 DEF Logged
    <3> QED
      BY <3>1, <3>2, <3>3 DEF Logged
  <2>7. \A i, j \in DOMAIN rows' :
            i < j /\ ProcessOf[rows'[i].by] = ProcessOf[rows'[j].by] => Before(rows[i].id, rows[j].id)'
    BY <2>1, <2>4, <2>5 DEF Ordered, Before
  <2>8. ASSUME NEW u \in Threads, NEW i \in DOMAIN rows',
               pc'[u] \in {"newline", "row"}, ProcessOf[rows'[i].by] = ProcessOf[u]
        PROVE  Before(rows[i].id, cur[u].id)'
    <3>1. pc[u] \in {"newline", "row"}
      BY <1>0, <2>1, <2>2, <2>8
    <3>2. Before(rows[i].id, cur[u].id)
      BY <2>1, <2>8, <3>1 DEF Ordered
    <3> QED
      BY <2>1, <2>4, <2>5, <3>1, <3>2 DEF Before
  <2>9. Ordered'
    BY <2>7, <2>8 DEF Ordered
  <2> QED
    BY <2>6, <2>9
<1>5. ASSUME NEW t \in Threads, InsertRow(t) PROVE LogOrder'
  <2>1. rows' = Append(rows, cur[t]) /\ file' = file /\ cur' = cur /\ pc[t] = "row"
    BY <1>5 DEF InsertRow
  <2>2. pc' = [pc EXCEPT ![t] = "project"]
    BY <1>5 DEF InsertRow
  <2>3. rows \in Seq(Event) /\ cur[t] \in Event /\ cur[t].by = t
    BY <2>1, EventFields DEF TypeOK, Numbered
  <2>4. /\ DOMAIN rows = 1..Len(rows) /\ DOMAIN rows' = 1..(Len(rows) + 1) /\ Len(rows) \in Nat
        /\ \A i \in DOMAIN rows : rows'[i] = rows[i]
        /\ rows'[Len(rows) + 1] = cur[t]
    BY <2>1, <2>3
  <2>5. Logged'
    BY <1>0, <2>1, <2>2, <2>4 DEF Logged
  <2>6. ASSUME NEW i \in DOMAIN rows', NEW j \in DOMAIN rows',
               i < j, ProcessOf[rows'[i].by] = ProcessOf[rows'[j].by]
        PROVE  Before(rows[i].id, rows[j].id)'
    <3>1. CASE j \in DOMAIN rows
      <4>1. i \in DOMAIN rows
        BY <2>4, <2>6, <3>1
      <4> QED
        BY <2>1, <2>4, <2>6, <3>1, <4>1 DEF Ordered, Before
    <3>2. CASE j = Len(rows) + 1
      <4>1. i \in DOMAIN rows
        BY <2>4, <2>6, <3>2
      <4>2. Before(rows[i].id, cur[t].id)
        BY <2>1, <2>3, <2>4, <2>6, <3>2, <4>1 DEF Ordered
      <4> QED
        BY <2>1, <2>4, <3>2, <4>1, <4>2 DEF Before
    <3> QED
      BY <2>4, <3>1, <3>2
  <2>7. ASSUME NEW u \in Threads, NEW i \in DOMAIN rows',
               pc'[u] \in {"newline", "row"}, ProcessOf[rows'[i].by] = ProcessOf[u]
        PROVE  Before(rows[i].id, cur[u].id)'
    <3>1. u # t /\ pc[u] \in {"newline", "row"}
      BY <1>0, <2>2, <2>7
    <3>2. ProcessOf[u] # ProcessOf[t]
      BY <2>1, <3>1 DEF HoldersWrite
    <3>3. i \in DOMAIN rows
      BY <2>3, <2>4, <2>7, <3>2
    <3> QED
      BY <2>1, <2>4, <2>7, <3>1, <3>3 DEF Ordered, Before
  <2>8. Ordered'
    BY <2>6, <2>7 DEF Ordered
  <2> QED
    BY <2>5, <2>8
<1>6. ASSUME NEW t \in Threads, Project(t) PROVE LogOrder'
  <2>1. file' = file /\ rows' = rows /\ pc'[t] = "idle"
    BY <1>0, <1>6 DEF Project
  <2>2. \A u \in Threads \ {t} : cur'[u] = cur[u] /\ pc'[u] = pc[u]
    BY <1>6 DEF Project, TypeOK
  <2> QED
    BY <2>1, <2>2 DEF Logged, Ordered, Before
<1>7. ASSUME NEW T \in SUBSET Threads, Abandon(T) PROVE LogOrder'
  <2>1. file' = file /\ rows' = rows /\ \A u \in T : pc'[u] = "idle"
    BY <1>7 DEF Abandon
  <2>2. \A u \in Threads \ T : cur'[u] = cur[u] /\ pc'[u] = pc[u]
    BY <1>7 DEF Abandon
  <2> QED
    BY <2>1, <2>2 DEF Logged, Ordered, Before
<1>8. ASSUME NEW s \in Sessions, Poll(s) PROVE LogOrder'
  BY <1>8 DEF Poll, Logged, Ordered, Before
<1>9. CASE UNCHANGED vars
  BY <1>9 DEF vars, Logged, Ordered, Before
<1> QED
  BY <1>1, <1>2, <1>3, <1>4, <1>5, <1>6, <1>7, <1>8, <1>9
  DEF Next, AppendStep, AppendFails, Crash

\* Every row is in the log, and the rows of one process are there in the order
\* in which they were inserted.
THEOREM RowsInLogOrder == Spec => []RowsFollowLog
<1>1. Init => LogShape /\ LogOrder
  BY DEF Init, LogShape, HoldersWrite, LinesWhole, InText, Readable, LogOrder, Logged, Ordered
<1>2. Typed /\ LogOrder => RowsFollowLog
  BY DEF Typed, TypeOK, LogOrder, Logged, Ordered, Before, RowsFollowLog, Position
<1>3. LogShape => HoldersWrite
  BY DEF LogShape
<1> QED
  BY <1>1, <1>2, <1>3, TypedInit, TypedStep, LogShapeStep, LogOrderStep, PTL DEF Spec

-----------------------------------------------------------------------------
(* The status of a session *)

\* An id names one event, and a projection that never runs never runs later.
RowIds ==
    /\ \A i, j \in DOMAIN rows : i # j => rows[i].id # rows[j].id
    /\ \A t \in Threads, i \in DOMAIN rows :
          pc[t] \notin {"idle", "project"} => rows[i].id # cur[t].id
    /\ \A t \in Threads : pc[t] # "idle" => cur[t].id \notin lost
    /\ \A i \in lost : i <= issued

\* The row that is being projected is the last one of its process.
ProjectsLast ==
    \A t \in Threads : pc[t] = "project" =>
        \E i \in DOMAIN rows :
           /\ rows[i] = cur[t]
           /\ \A j \in DOMAIN rows : ProcessOf[rows[j].by] = ProcessOf[t] => j <= i

RowsInHand == RowIds /\ ProjectsLast

\* What a new row adds to the table.
LEMMA InsertedRow ==
    ASSUME Typed, NEW t \in Threads, InsertRow(t)
    PROVE  /\ pc[t] = "row" /\ pc' = [pc EXCEPT ![t] = "project"] /\ UNCHANGED <<cur, lost, issued, status>>
           /\ cur[t].by = t /\ cur[t] \in Event
           /\ Len(rows) \in Nat /\ DOMAIN rows = 1..Len(rows) /\ DOMAIN rows' = 1..(Len(rows) + 1)
           /\ \A i \in DOMAIN rows : rows'[i] = rows[i]
           /\ rows'[Len(rows) + 1] = cur[t]
<1>1. /\ pc[t] = "row" /\ pc' = [pc EXCEPT ![t] = "project"] /\ UNCHANGED <<cur, lost, issued, status>>
      /\ rows' = Append(rows, cur[t])
  BY DEF InsertRow, history
<1>2. rows \in Seq(Event) /\ cur[t] \in Event /\ cur[t].by = t
  BY <1>1, EventFields DEF Typed, TypeOK, Numbered
<1> QED
  BY <1>1, <1>2

\* A step that leaves the rows and the projections alone.
Elsewhere ==
    /\ rows' = rows /\ lost' = lost /\ status' = status
    /\ \A u \in Threads : (pc'[u] = "project" <=> pc[u] = "project")
                             /\ (pc[u] = "project" => cur'[u] = cur[u])

LEMMA OtherSteps ==
    ASSUME Typed, NEW t \in Threads,
           \/ \E s \in Sessions, k \in Kinds : StartAppend(t, s, k)
           \/ TakeAppendLock(t) \/ WriteText(t) \/ WriteNewline(t)
    PROVE  Elsewhere
<1>1. pc \in [Threads -> {"idle", "lock", "text", "newline", "row", "project"}] /\ DOMAIN cur = Threads
  BY DEF Typed, TypeOK
<1>2. CASE \E s \in Sessions, k \in Kinds : StartAppend(t, s, k)
  BY <1>1, <1>2 DEF StartAppend, Elsewhere, Goto, log, history
<1>3. CASE TakeAppendLock(t)
  BY <1>1, <1>3 DEF TakeAppendLock, Elsewhere, Goto, log, history
<1>4. CASE WriteText(t)
  BY <1>1, <1>4 DEF WriteText, Elsewhere, Goto
<1>5. CASE WriteNewline(t)
  BY <1>1, <1>5 DEF WriteNewline, Elsewhere, Goto, history
<1> QED
  BY <1>2, <1>3, <1>4, <1>5

LEMMA RowsInHandStep ==
    ASSUME Typed, HoldersWrite, RowsInHand, [Next]_vars
    PROVE  RowsInHand'
<1> USE DEF RowsInHand
<1>0. pc \in [Threads -> {"idle", "lock", "text", "newline", "row", "project"}] /\ DOMAIN cur = Threads
  BY DEF Typed, TypeOK
<1>1. ASSUME NEW t \in Threads, NEW s \in Sessions, NEW k \in Kinds, StartAppend(t, s, k)
      PROVE  RowsInHand'
  <2>1. /\ cur'[t].id = issued + 1 /\ pc'[t] = "lock" /\ rows' = rows /\ lost' = lost /\ issued' = issued + 1
        /\ \A u \in Threads \ {t} : cur'[u] = cur[u] /\ pc'[u] = pc[u]
    BY <1>0, <1>1 DEF StartAppend, Goto, log, history
  <2>2. /\ \A i \in DOMAIN rows : rows[i].id # issued + 1
        /\ issued + 1 \notin lost /\ \A i \in lost : i <= issued + 1
    BY DEF Typed, TypeOK, Numbered, RowIds
  <2>3. RowIds'
    BY <2>1, <2>2 DEF RowIds
  <2>4. ProjectsLast'
    BY <2>1 DEF ProjectsLast
  <2> QED
    BY <2>3, <2>4
<1>2. ASSUME NEW t \in Threads, TakeAppendLock(t) \/ WriteText(t) \/ WriteNewline(t)
      PROVE  RowsInHand'
  <2>1. cur' = cur /\ rows' = rows /\ lost' = lost /\ issued' = issued
    BY <1>2 DEF TakeAppendLock, WriteText, WriteNewline, log, history
  <2>2. /\ pc[t] \notin {"idle", "project"} /\ pc'[t] \notin {"idle", "project"}
        /\ \A u \in Threads \ {t} : pc'[u] = pc[u]
    BY <1>0, <1>2 DEF TakeAppendLock, WriteText, WriteNewline, Goto
  <2>3. RowIds'
    BY <2>1, <2>2 DEF RowIds
  <2>4. ProjectsLast'
    BY <2>1, <2>2 DEF ProjectsLast
  <2> QED
    BY <2>3, <2>4
<1>3. ASSUME NEW t \in Threads, InsertRow(t) PROVE RowsInHand'
  <2>1. /\ pc[t] = "row" /\ pc' = [pc EXCEPT ![t] = "project"] /\ UNCHANGED <<cur, lost, issued, status>>
        /\ cur[t].by = t
        /\ Len(rows) \in Nat /\ DOMAIN rows = 1..Len(rows) /\ DOMAIN rows' = 1..(Len(rows) + 1)
        /\ \A i \in DOMAIN rows : rows'[i] = rows[i]
        /\ rows'[Len(rows) + 1] = cur[t]
    BY <1>3, InsertedRow
  <2>2. \A u \in Threads \ {t} : pc[u] # "idle" => cur[u].id # cur[t].id
    BY <2>1 DEF Typed, Numbered
  <2>3. \A i \in DOMAIN rows : rows[i].id # cur[t].id
    BY <2>1 DEF RowIds
  <2>4. RowIds'
    <3>1. \A i, j \in DOMAIN rows' : i # j => rows'[i].id # rows'[j].id
      BY <2>1, <2>3 DEF RowIds
    <3>2. \A u \in Threads, i \in DOMAIN rows' :
             pc'[u] \notin {"idle", "project"} => rows'[i].id # cur'[u].id
      BY <1>0, <2>1, <2>2 DEF RowIds
    <3> QED
      BY <1>0, <2>1, <3>1, <3>2 DEF RowIds
  <2>5. ASSUME NEW u \in Threads, pc'[u] = "project"
        PROVE  \E i \in DOMAIN rows' :
                  /\ rows'[i] = cur'[u]
                  /\ \A j \in DOMAIN rows' : ProcessOf[rows'[j].by] = ProcessOf[u] => j <= i
    <3>1. CASE u = t
      BY <2>1, <3>1
    <3>2. CASE u # t
      <4>1. pc[u] = "project"
        BY <1>0, <2>1, <2>5, <3>2
      <4>2. PICK i \in DOMAIN rows :
               /\ rows[i] = cur[u]
               /\ \A j \in DOMAIN rows : ProcessOf[rows[j].by] = ProcessOf[u] => j <= i
        BY <4>1 DEF ProjectsLast
      <4>3. ProcessOf[u] # ProcessOf[t]
        BY <2>1, <3>2, <4>1 DEF HoldersWrite
      <4>4. \A j \in DOMAIN rows' : ProcessOf[rows'[j].by] = ProcessOf[u] => j \in DOMAIN rows
        BY <2>1, <4>3
      <4> QED
        BY <2>1, <4>2, <4>4
    <3> QED
      BY <3>1, <3>2
  <2> QED
    BY <2>4, <2>5 DEF ProjectsLast
<1>4. ASSUME NEW t \in Threads, Project(t) PROVE RowsInHand'
  <2>1. /\ pc'[t] = "idle" /\ rows' = rows /\ lost' = lost /\ issued' = issued
        /\ \A u \in Threads \ {t} : cur'[u] = cur[u] /\ pc'[u] = pc[u]
    BY <1>0, <1>4 DEF Project, Goto, history
  <2> QED
    BY <2>1 DEF RowIds, ProjectsLast
<1>5. ASSUME NEW T \in SUBSET Threads, Abandon(T) PROVE RowsInHand'
  <2>1. /\ rows' = rows /\ issued' = issued
        /\ \A u \in T : pc'[u] = "idle"
        /\ \A u \in Threads \ T : cur'[u] = cur[u] /\ pc'[u] = pc[u]
        /\ lost' = lost \cup {cur[t].id : t \in {u \in T : pc[u] = "project"}}
    BY <1>5 DEF Abandon, log
  <2>2. \A u \in Threads \ T : pc[u] # "idle" => cur[u].id \notin lost'
    BY <2>1 DEF RowIds, Typed, Numbered
  <2>3. \A i \in lost' : i <= issued
    BY <2>1 DEF RowIds, Typed, Numbered
  <2>4. RowIds'
    BY <2>1, <2>2, <2>3 DEF RowIds
  <2>5. ProjectsLast'
    BY <2>1 DEF ProjectsLast
  <2> QED
    BY <2>4, <2>5
<1>6. ASSUME NEW s \in Sessions, Poll(s) PROVE RowsInHand'
  BY <1>6 DEF Poll, log, locals, history, RowIds, ProjectsLast
<1>7. CASE UNCHANGED vars
  BY <1>7 DEF vars, log, locals, history, RowIds, ProjectsLast
<1> QED
  BY <1>1, <1>2, <1>3, <1>4, <1>5, <1>6, <1>7
  DEF Next, AppendStep, AppendFails, Crash

\* As long as the same rows are settled and the status stays, they agree.
LEMMA SameSettled ==
    ASSUME Typed, StatusFromLastRow, status' = status,
           \A s \in Sessions, p \in Processes : Settled(s, p)' = Settled(s, p),
           \A i \in DOMAIN rows : rows'[i] = rows[i]
    PROVE  StatusFromLastRow'
<1>1. ASSUME NEW s \in Sessions, NEW p \in Processes, Settled(s, p) # {}
      PROVE  Greatest(Settled(s, p)) \in DOMAIN rows
  <2>1. rows \in Seq(Event)
    BY DEF Typed, TypeOK
  <2>2. Len(rows) \in Nat /\ Settled(s, p) \subseteq 0..Len(rows) /\ Settled(s, p) \subseteq DOMAIN rows
    BY <2>1 DEF Settled, RowsOf
  <2>3. Settled(s, p) \in SUBSET (0..Len(rows))
    BY <2>2
  <2>4. Greatest(Settled(s, p)) \in Settled(s, p)
    BY <1>1, <2>2, <2>3, GreatestOf
  <2> QED
    BY <2>2, <2>4
<1>2. ASSUME NEW s \in Sessions
      PROVE  \/ status'[s] = "Idle" /\ \A p \in Processes : Settled(s, p)' = {}
             \/ \E p \in Processes :
                   /\ Settled(s, p)' # {}
                   /\ status'[s] = Effect(rows'[Greatest(Settled(s, p)')].kind)
  BY <1>1 DEF StatusFromLastRow
<1> QED
  BY <1>2 DEF StatusFromLastRow

LEMMA StatusStep ==
    ASSUME Typed, RowsInHand, StatusFromLastRow, [Next]_vars
    PROVE  StatusFromLastRow'
<1> USE DEF RowsInHand
<1>0. pc \in [Threads -> {"idle", "lock", "text", "newline", "row", "project"}] /\ DOMAIN cur = Threads
  BY DEF Typed, TypeOK
<1>1. ASSUME Elsewhere PROVE StatusFromLastRow'
  <2>1. \A s \in Sessions, p \in Processes : Settled(s, p)' = Settled(s, p)
    BY <1>1 DEF Elsewhere, Settled, RowsOf
  <2> QED
    BY <1>1, <2>1, SameSettled DEF Elsewhere
<1>2. ASSUME NEW t \in Threads, InsertRow(t) PROVE StatusFromLastRow'
  <2>1. /\ pc[t] = "row" /\ pc' = [pc EXCEPT ![t] = "project"] /\ UNCHANGED <<cur, lost, issued, status>>
        /\ Len(rows) \in Nat /\ DOMAIN rows = 1..Len(rows) /\ DOMAIN rows' = 1..(Len(rows) + 1)
        /\ \A i \in DOMAIN rows : rows'[i] = rows[i]
        /\ rows'[Len(rows) + 1] = cur[t]
    BY <1>2, InsertedRow
  <2>2. \A i \in DOMAIN rows : rows[i] # cur[t]
    BY <2>1 DEF RowIds
  <2>3. pc'[t] = "project" /\ \A u \in Threads \ {t} : pc'[u] = pc[u]
    BY <1>0, <2>1
  <2>4. ASSUME NEW s \in Sessions, NEW p \in Processes PROVE Settled(s, p)' = Settled(s, p)
    <3>1. \A i \in DOMAIN rows : i \in Settled(s, p)' <=> i \in Settled(s, p)
      BY <2>1, <2>2, <2>3 DEF Settled, RowsOf
    <3>2. Len(rows) + 1 \notin Settled(s, p)'
      BY <2>1, <2>3 DEF Settled, RowsOf
    <3>3. Settled(s, p)' \subseteq DOMAIN rows' /\ Settled(s, p) \subseteq DOMAIN rows
      BY DEF Settled, RowsOf
    <3> DEFINE A == Settled(s, p)'
               B == Settled(s, p)
    <3>4. \A i \in A : i \in B
      BY <2>1, <3>1, <3>2, <3>3
    <3>5. \A i \in B : i \in A
      BY <3>1, <3>3
    <3> HIDE DEF A, B
    <3>6. A = B
      BY <3>4, <3>5
    <3> QED
      BY <3>6 DEF A, B
  <2> QED
    BY <2>1, <2>4, SameSettled
<1>3. ASSUME NEW T \in SUBSET Threads, Abandon(T) PROVE StatusFromLastRow'
  <2>1. /\ rows' = rows /\ status' = status
        /\ \A u \in T : pc'[u] = "idle"
        /\ \A u \in Threads \ T : cur'[u] = cur[u] /\ pc'[u] = pc[u]
        /\ lost' = lost \cup {cur[t].id : t \in {u \in T : pc[u] = "project"}}
    BY <1>3 DEF Abandon, log
  <2>2. \A t \in Threads, i \in DOMAIN rows :
           pc[t] = "project" => (rows[i].id = cur[t].id <=> rows[i] = cur[t])
    BY DEF RowIds, ProjectsLast
  <2>3. ASSUME NEW s \in Sessions, NEW p \in Processes PROVE Settled(s, p)' = Settled(s, p)
    <3>1. \A i \in DOMAIN rows :
             (rows[i].id \notin lost' /\ \A t \in Threads : pc'[t] = "project" => cur'[t] # rows[i])
             <=> (rows[i].id \notin lost /\ \A t \in Threads : pc[t] = "project" => cur[t] # rows[i])
      BY <2>1, <2>2
    <3> QED
      BY <2>1, <3>1 DEF Settled, RowsOf
  <2> QED
    BY <2>1, <2>3, SameSettled
<1>4. ASSUME NEW t \in Threads, Project(t) PROVE StatusFromLastRow'
  <2>1. /\ pc[t] = "project" /\ pc'[t] = "idle" /\ rows' = rows /\ lost' = lost
        /\ \A u \in Threads \ {t} : cur'[u] = cur[u] /\ pc'[u] = pc[u]
    BY <1>0, <1>4 DEF Project, Goto, history
  <2>2. PICK i \in DOMAIN rows :
           /\ rows[i] = cur[t]
           /\ \A j \in DOMAIN rows : ProcessOf[rows[j].by] = ProcessOf[t] => j <= i
    BY <2>1 DEF ProjectsLast
  <2>3. \A j \in DOMAIN rows \ {i} : rows[j] # cur[t]
    BY <2>2 DEF RowIds
  <2>4. \A s \in Sessions, p \in Processes, j \in DOMAIN rows :
           j # i => (j \in Settled(s, p)' <=> j \in Settled(s, p))
    BY <2>1, <2>3 DEF Settled, RowsOf
  <2>5. \A s \in Sessions, p \in Processes :
           Settled(s, p) \subseteq DOMAIN rows /\ Settled(s, p)' \subseteq DOMAIN rows
    BY <2>1 DEF Settled, RowsOf
  <2>6. \A s \in Sessions, p \in Processes :
           ~(s = rows[i].session /\ rows[i].kind \in SetsStatus) => Settled(s, p)' = Settled(s, p)
    <3>1. \A s \in Sessions, p \in Processes :
             ~(s = rows[i].session /\ rows[i].kind \in SetsStatus) => i \notin Settled(s, p) /\ i \notin Settled(s, p)'
      BY <2>1 DEF Settled, RowsOf
    <3> QED
      BY <2>4, <2>5, <3>1
  <2>7. CASE rows[i].kind \notin SetsStatus
    <3>1. status' = status
      BY <1>4, <2>2, <2>7 DEF Project
    <3> QED
      BY <2>1, <2>6, <2>7, <3>1, SameSettled
  <2>8. CASE rows[i].kind \in SetsStatus
    <3> DEFINE q == ProcessOf[t]
               r == rows[i].session
    <3>1. status \in [Sessions -> Statuses] /\ rows \in Seq(Event) /\ q \in Processes /\ r \in Sessions
          /\ rows[i].by = t
      <4>1. rows[i].by = t
        BY <2>1, <2>2 DEF Typed, Numbered
      <4>2. rows[i] \in Event
        BY EventFields DEF Typed
      <4> QED
        BY <4>1, <4>2, EventStoreAssumption DEF Typed, TypeOK, Event
    <3>2. status' = [status EXCEPT ![r] = Effect(rows[i].kind)]
      BY <1>4, <2>2, <2>8 DEF Project
    <3>3. i \in Settled(r, q)'
      <4>1. rows[i].id \notin lost
        BY <2>1, <2>2 DEF RowIds
      <4>2. \A u \in Threads \ {t} : pc[u] = "project" => cur[u] # rows[i]
        BY <2>1, <2>2 DEF Typed, Numbered
      <4> QED
        BY <2>1, <2>8, <3>1, <4>1, <4>2 DEF Settled, RowsOf
    <3>4. \A j \in Settled(r, q)' : j <= i
      BY <2>1, <2>2 DEF Settled, RowsOf
    <3>5. Greatest(Settled(r, q)') = i
      <4> DEFINE S == Settled(r, q)'
      <4>1. Len(rows) \in Nat /\ DOMAIN rows = 1..Len(rows)
        BY <3>1
      <4>2. S \subseteq DOMAIN rows /\ i \in S
        BY <2>1, <3>3 DEF Settled, RowsOf
      <4> HIDE DEF S
      <4>3. S \in SUBSET (0..Len(rows)) /\ S # {}
        BY <4>1, <4>2
      <4>4. Greatest(S) \in S /\ \A m \in S : m <= Greatest(S)
        BY <4>1, <4>3, GreatestOf
      <4> QED
        BY <3>3, <3>4, <4>1, <4>3, <4>4 DEF S
    <3>6. ASSUME NEW s \in Sessions
          PROVE  \/ status'[s] = "Idle" /\ \A p \in Processes : Settled(s, p)' = {}
                 \/ \E p \in Processes :
                       /\ Settled(s, p)' # {}
                       /\ status'[s] = Effect(rows'[Greatest(Settled(s, p)')].kind)
      <4>1. CASE s = r
        BY <2>1, <3>1, <3>2, <3>3, <3>5, <4>1
      <4>2. CASE s # r
        <5>1. status'[s] = status[s] /\ \A p \in Processes : Settled(s, p)' = Settled(s, p)
          BY <2>6, <3>1, <3>2, <4>2
        <5> QED
          BY <2>1, <5>1 DEF StatusFromLastRow
      <4> QED
        BY <4>1, <4>2
    <3> QED
      BY <3>6 DEF StatusFromLastRow
  <2> QED
    BY <2>7, <2>8
<1>5. ASSUME NEW s \in Sessions, Poll(s) PROVE StatusFromLastRow'
  BY <1>1, <1>5 DEF Poll, log, locals, history, Elsewhere
<1>6. CASE UNCHANGED vars
  BY <1>1, <1>6 DEF vars, log, locals, history, Elsewhere
<1>7. ASSUME NEW t \in Threads,
             \/ \E s \in Sessions, k \in Kinds : StartAppend(t, s, k)
             \/ TakeAppendLock(t) \/ WriteText(t) \/ WriteNewline(t)
      PROVE  StatusFromLastRow'
  BY <1>1, <1>7, OtherSteps
<1> QED
  BY <1>2, <1>3, <1>4, <1>5, <1>6, <1>7
  DEF Next, AppendStep, AppendFails, Crash

\* The status of a session is what the last settled row of some process says,
\* whatever threads append to it and wherever their appends fail.
THEOREM StatusFollowsRows == Spec => []StatusFromLastRow
<1>1. Init => LogShape /\ RowsInHand /\ StatusFromLastRow
  BY DEF Init, LogShape, HoldersWrite, LinesWhole, InText, Readable, RowsInHand, RowIds, ProjectsLast,
     StatusFromLastRow, Settled, RowsOf
<1>2. LogShape => HoldersWrite
  BY DEF LogShape
<1> QED
  BY <1>1, <1>2, TypedInit, TypedStep, LogShapeStep, RowsInHandStep, StatusStep, PTL DEF Spec

-----------------------------------------------------------------------------
(* What a polling client receives *)

\* A number for which the session has a row.
Taken(s, n) == \E j \in DOMAIN rows : rows[j].session = s /\ rows[j].seq = n

\* The numbers of a session have no gaps: below the number of a row, or of an
\* event in hand, every number is that of a row.
NoGaps ==
    /\ \A i \in DOMAIN rows : \A n \in 1..rows[i].seq : Taken(rows[i].session, n)
    /\ \A t \in Threads : pc[t] # "idle" =>
          cur[t].seq >= 1 /\ \A n \in 1..(cur[t].seq - 1) : Taken(cur[t].session, n)

\* A number is repeated in a session by different threads only: the event that
\* a thread has in hand has a greater number than the rows of the thread.
RepeatedByOthers ==
    /\ \A i, j \in DOMAIN rows :
          i # j /\ rows[i].by = rows[j].by /\ rows[i].session = rows[j].session => rows[i].seq # rows[j].seq
    /\ \A t \in Threads, i \in DOMAIN rows :
          /\ pc[t] \in {"lock", "text", "newline", "row"}
          /\ rows[i].by = t /\ rows[i].session = cur[t].session
          => rows[i].seq < cur[t].seq

\* Up to its cursor a client has received a row of every number.
Received(s) ==
    \A n \in 1..cursor[s] :
        \E j \in DOMAIN rows : rows[j].session = s /\ rows[j].seq = n /\ rows[j].id \in delivered

PollInv ==
    /\ \A i \in DOMAIN rows : rows[i].seq >= 1
    /\ NoGaps /\ RepeatedByOthers
    /\ \A s \in Sessions : Received(s)

\* A new number follows those of the session.
LEMMA NewNumber ==
    ASSUME Typed, NoGaps, NEW s \in Sessions
    PROVE  /\ NextSeqNo(s) \in Nat /\ NextSeqNo(s) >= 1
           /\ \A i \in RowsOf(s) : rows[i].seq < NextSeqNo(s)
           /\ \A n \in 1..(NextSeqNo(s) - 1) : Taken(s, n)
<1> DEFINE S == {0} \cup {rows[i].seq : i \in RowsOf(s)}
<1>1. \A i \in DOMAIN rows : rows[i].seq \in 0..MaxEvents
  BY EventFields DEF Typed
<1>2. S \in SUBSET (0..MaxEvents) /\ S # {}
  BY <1>1, EventStoreAssumption DEF RowsOf
<1>3. \A i \in RowsOf(s) : rows[i].seq \in S
  OBVIOUS
<1>4. ASSUME NEW g \in S, NEW n \in 1..g PROVE Taken(s, n)
  <2>1. PICK i \in RowsOf(s) : rows[i].seq = g
    BY <1>4
  <2>2. i \in DOMAIN rows /\ rows[i].session = s /\ n \in 1..rows[i].seq
    BY <1>4, <2>1 DEF RowsOf
  <2> QED
    BY <2>2 DEF NoGaps
<1> DEFINE g == Greatest(S)
<1>5. NextSeqNo(s) = g + 1
  BY DEF NextSeqNo
<1> HIDE DEF S
<1>6. g \in S /\ \A m \in S : m <= g
  BY <1>2, EventStoreAssumption, GreatestOf
<1>7. g \in Nat
  <2>1. g \in 0..MaxEvents
    BY <1>2, <1>6
  <2> QED
    BY <2>1, EventStoreAssumption
<1> HIDE DEF g
<1>8. \A i \in RowsOf(s) : rows[i].seq <= g /\ rows[i].seq \in Nat
  BY <1>1, <1>3, <1>6, EventStoreAssumption DEF RowsOf
<1>9. \A n \in 1..((g + 1) - 1) : Taken(s, n)
  BY <1>4, <1>6, <1>7
<1> QED
  BY <1>5, <1>7, <1>8, <1>9

\* A step that leaves the rows and the clients alone, and gives no thread a new
\* event.
SameNumbers ==
    /\ UNCHANGED <<rows, cursor, delivered>>
    /\ \A t \in Threads :
          \/ pc'[t] = "idle"
          \/ cur'[t] = cur[t] /\ pc[t] # "idle"
             /\ (pc'[t] \in {"lock", "text", "newline", "row"} => pc[t] \in {"lock", "text", "newline", "row"})

LEMMA SameNumbersStep ==
    ASSUME PollInv, SameNumbers PROVE PollInv'
<1>1. \A s, n : Taken(s, n)' = Taken(s, n)
  BY DEF Taken, SameNumbers
<1>2. NoGaps'
  BY <1>1 DEF NoGaps, SameNumbers, PollInv
<1>3. RepeatedByOthers'
  BY DEF RepeatedByOthers, SameNumbers, PollInv
<1>4. \A s \in Sessions : Received(s)'
  BY DEF Received, SameNumbers, PollInv
<1> QED
  BY <1>2, <1>3, <1>4 DEF PollInv, SameNumbers

LEMMA PollInvStep ==
    ASSUME Typed, PollInv, [Next]_vars
    PROVE  PollInv'
<1>0. pc \in [Threads -> {"idle", "lock", "text", "newline", "row", "project"}] /\ DOMAIN cur = Threads
  BY DEF Typed, TypeOK
<1>1. ASSUME NEW t \in Threads, NEW s \in Sessions, NEW k \in Kinds, StartAppend(t, s, k)
      PROVE  PollInv'
  <2>1. /\ cur'[t].session = s /\ cur'[t].seq = NextSeqNo(s) /\ UNCHANGED <<rows, cursor, delivered>>
        /\ \A u \in Threads \ {t} : cur'[u] = cur[u] /\ pc'[u] = pc[u]
    BY <1>0, <1>1 DEF StartAppend
  <2>2. /\ NextSeqNo(s) >= 1 /\ \A n \in 1..(NextSeqNo(s) - 1) : Taken(s, n)
        /\ \A i \in DOMAIN rows : rows[i].session = s => rows[i].seq < NextSeqNo(s)
    BY NewNumber DEF PollInv, RowsOf
  <2>3. \A r, n : Taken(r, n)' = Taken(r, n)
    BY <2>1 DEF Taken
  <2>4. NoGaps'
    BY <2>1, <2>2, <2>3 DEF NoGaps, PollInv
  <2>5. RepeatedByOthers'
    BY <2>1, <2>2 DEF RepeatedByOthers, PollInv
  <2>6. \A r \in Sessions : Received(r)'
    BY <2>1 DEF Received, PollInv
  <2> QED
    BY <2>1, <2>4, <2>5, <2>6 DEF PollInv
<1>2. ASSUME NEW t \in Threads, InsertRow(t) PROVE PollInv'
  <2>1. /\ pc[t] = "row" /\ pc' = [pc EXCEPT ![t] = "project"] /\ cur' = cur
        /\ cur[t].by = t /\ cur[t] \in Event
        /\ Len(rows) \in Nat /\ DOMAIN rows = 1..Len(rows) /\ DOMAIN rows' = 1..(Len(rows) + 1)
        /\ \A i \in DOMAIN rows : rows'[i] = rows[i]
        /\ rows'[Len(rows) + 1] = cur[t]
    BY <1>2, InsertedRow
  <2>2. cursor' = cursor /\ delivered' = delivered
    BY <1>2 DEF InsertRow
  <2>3. /\ \A u \in Threads \ {t} : pc'[u] = pc[u]
        /\ pc'[t] = "project" /\ pc[t] # "idle"
    BY <1>0, <2>1
  <2>4. cur[t].seq \in Nat /\ cur[t].seq >= 1 /\ \A n \in 1..(cur[t].seq - 1) : Taken(cur[t].session, n)
    <3>1. cur[t].seq \in 0..MaxEvents
      BY <2>3, EventFields DEF Typed
    <3> QED
      BY <2>3, <3>1, EventStoreAssumption DEF PollInv, NoGaps
  <2> DEFINE After(s, n) == \E j \in DOMAIN rows' : rows'[j].session = s /\ rows'[j].seq = n
  <2>5. \A s, n : Taken(s, n) => After(s, n)
    BY <2>1 DEF Taken
  <2>6. After(cur[t].session, cur[t].seq)
    BY <2>1
  <2>7. NoGaps'
    <3>1. ASSUME NEW i \in DOMAIN rows', NEW n \in 1..rows'[i].seq
          PROVE  After(rows'[i].session, n)
      <4> HIDE DEF After
      <4>1. CASE i \in DOMAIN rows
        <5>1. rows'[i] = rows[i] /\ n \in 1..rows[i].seq
          BY <2>1, <3>1, <4>1
        <5>2. Taken(rows[i].session, n)
          BY <4>1, <5>1 DEF NoGaps, PollInv
        <5> QED
          BY <2>5, <5>1, <5>2
      <4>2. CASE i = Len(rows) + 1
        <5>1. n \in 1..(cur[t].seq - 1) \/ n = cur[t].seq
          BY <2>1, <2>4, <3>1, <4>2
        <5> QED
          BY <2>1, <2>4, <2>5, <2>6, <4>2, <5>1
      <4> QED
        BY <2>1, <4>1, <4>2
    <3>2. \A u \in Threads : pc'[u] # "idle" =>
             cur'[u].seq >= 1 /\ \A n \in 1..(cur'[u].seq - 1) : After(cur'[u].session, n)
      <4> HIDE DEF After
      <4> QED
        BY <2>1, <2>3, <2>5 DEF NoGaps, PollInv
    <3>3. \A i \in DOMAIN rows' : \A n \in 1..rows'[i].seq : After(rows'[i].session, n)
      BY <3>1
    <3> QED
      BY <3>2, <3>3 DEF NoGaps, Taken
  <2>8. RepeatedByOthers'
    <3>1. \A i \in DOMAIN rows :
             rows[i].by = t /\ rows[i].session = cur[t].session => rows[i].seq < cur[t].seq
      BY <2>1 DEF RepeatedByOthers, PollInv
    <3>2. \A i \in DOMAIN rows : rows[i].seq \in Nat
      BY EventFields, EventStoreAssumption DEF Typed
    <3>3. \A i \in DOMAIN rows' : i \in DOMAIN rows \/ i = Len(rows) + 1
      BY <2>1
    <3>4. ASSUME NEW i \in DOMAIN rows', NEW j \in DOMAIN rows',
                 i # j, rows'[i].by = rows'[j].by, rows'[i].session = rows'[j].session
          PROVE  rows'[i].seq # rows'[j].seq
      <4>1. CASE i \in DOMAIN rows /\ j \in DOMAIN rows
        BY <2>1, <3>4, <4>1 DEF RepeatedByOthers, PollInv
      <4>2. CASE i \in DOMAIN rows /\ j = Len(rows) + 1
        BY <2>1, <2>4, <3>1, <3>2, <3>4, <4>2
      <4>3. CASE j \in DOMAIN rows /\ i = Len(rows) + 1
        BY <2>1, <2>4, <3>1, <3>2, <3>4, <4>3
      <4> QED
        BY <3>3, <3>4, <4>1, <4>2, <4>3
    <3>5. ASSUME NEW u \in Threads, NEW i \in DOMAIN rows', pc'[u] \in {"lock", "text", "newline", "row"},
                 rows'[i].by = u, rows'[i].session = cur'[u].session
          PROVE  rows'[i].seq < cur'[u].seq
      <4>1. u # t /\ pc[u] = pc'[u]
        BY <2>3, <3>5
      <4>2. i \in DOMAIN rows
        BY <2>1, <3>3, <3>5, <4>1
      <4> QED
        BY <2>1, <3>5, <4>1, <4>2 DEF RepeatedByOthers, PollInv
    <3>6. \A i, j \in DOMAIN rows' :
             i # j /\ rows'[i].by = rows'[j].by /\ rows'[i].session = rows'[j].session => rows'[i].seq # rows'[j].seq
      BY <3>4
    <3> QED
      BY <3>5, <3>6 DEF RepeatedByOthers
  <2>9. \A s \in Sessions : Received(s)'
    BY <2>1, <2>2 DEF Received, PollInv
  <2>10. \A i \in DOMAIN rows' : rows'[i].seq >= 1
    BY <2>1, <2>4 DEF PollInv
  <2> QED
    BY <2>7, <2>8, <2>9, <2>10 DEF PollInv
<1>3. ASSUME NEW s \in Sessions, Poll(s) PROVE PollInv'
  <2>1. UNCHANGED <<rows, pc, cur>>
    BY <1>3 DEF Poll
  <2>2. PICK n \in {rows[i].seq : i \in RowsOf(s)} :
           /\ n > cursor[s]
           /\ LET below == {rows[i].id : i \in {j \in RowsOf(s) : rows[j].seq > cursor[s] /\ rows[j].seq < n}}
                  at == {rows[i].id : i \in {j \in RowsOf(s) : rows[j].seq = n}}
              IN  \E part \in (SUBSET at) \ {{}} : delivered' = delivered \cup below \cup part
           /\ cursor' = [cursor EXCEPT ![s] = n]
    BY <1>3 DEF Poll
  <2> DEFINE below == {rows[i].id : i \in {j \in RowsOf(s) : rows[j].seq > cursor[s] /\ rows[j].seq < n}}
             at == {rows[i].id : i \in {j \in RowsOf(s) : rows[j].seq = n}}
  <2>3. PICK part \in SUBSET at : part # {} /\ delivered' = delivered \cup below \cup part
    BY <2>2
  <2>4. cursor \in [Sessions -> 0..MaxEvents] /\ n \in 0..MaxEvents
    BY <2>2, EventFields DEF Typed, TypeOK, RowsOf
  <2>5. PICK i \in DOMAIN rows : rows[i].session = s /\ rows[i].seq = n
    BY <2>2 DEF RowsOf
  <2>6. ASSUME NEW m \in 1..n
        PROVE  \E j \in DOMAIN rows : rows[j].session = s /\ rows[j].seq = m /\ rows[j].id \in delivered'
    <3>1. CASE m <= cursor[s]
      <4>1. m \in 1..cursor[s]
        BY <2>4, <3>1
      <4> QED
        BY <2>3, <4>1 DEF PollInv, Received
    <3>2. CASE m > cursor[s] /\ m < n
      <4>1. PICK j \in DOMAIN rows : rows[j].session = s /\ rows[j].seq = m
        BY <2>5, <2>6 DEF PollInv, NoGaps, Taken
      <4>2. rows[j].id \in below
        BY <3>2, <4>1 DEF RowsOf
      <4> QED
        BY <2>3, <4>1, <4>2
    <3>3. CASE m = n
      <4>1. PICK j \in RowsOf(s) : rows[j].seq = n /\ rows[j].id \in part
        BY <2>3
      <4> QED
        BY <2>3, <3>3, <4>1 DEF RowsOf
    <3> QED
      BY <2>4, <2>6, <3>1, <3>2, <3>3
  <2>7. Received(s)'
    <3>1. cursor'[s] = n
      BY <2>2, <2>4
    <3> QED
      BY <2>1, <2>6, <3>1 DEF Received
  <2>8. \A r \in Sessions \ {s} : Received(r)'
    <3>1. \A r \in Sessions \ {s} : cursor'[r] = cursor[r]
      BY <2>2, <2>4
    <3> QED
      BY <2>1, <2>3, <3>1 DEF Received, PollInv
  <2>9. NoGaps'
    BY <2>1 DEF NoGaps, PollInv, Taken
  <2>10. RepeatedByOthers'
    BY <2>1 DEF RepeatedByOthers, PollInv
  <2> QED
    BY <2>1, <2>7, <2>8, <2>9, <2>10 DEF PollInv
<1>4. ASSUME NEW t \in Threads, TakeAppendLock(t) \/ WriteText(t) \/ WriteNewline(t) \/ Project(t)
      PROVE  SameNumbers
  BY <1>0, <1>4 DEF TakeAppendLock, WriteText, WriteNewline, Project, SameNumbers
<1>5. ASSUME NEW T \in SUBSET Threads, Abandon(T) PROVE SameNumbers
  BY <1>0, <1>5 DEF Abandon, SameNumbers
<1>6. CASE UNCHANGED vars
  <2>1. UNCHANGED <<rows, cursor, delivered, pc, cur>>
    BY <1>6 DEF vars
  <2> QED
    BY <2>1, SameNumbersStep DEF SameNumbers
<1> QED
  BY <1>1, <1>2, <1>3, <1>4, <1>5, <1>6, SameNumbersStep
  DEF Next, AppendStep, AppendFails, Crash

\* A polling client misses a row only if another thread took the same number
\* at the same time and its row was delivered instead, wherever the client's
\* pages end and the appends fail.
THEOREM RowsMissedOnlyByRace == Spec => []MissedOnlyByRace
<1>1. Init => PollInv
  BY DEF Init, PollInv, NoGaps, RepeatedByOthers, Received
<1>2. Typed /\ PollInv => MissedOnlyByRace
  <2> SUFFICES ASSUME Typed, PollInv, NEW i \in DOMAIN rows,
                      rows[i].seq <= cursor[rows[i].session], rows[i].id \notin delivered
               PROVE  \E j \in DOMAIN rows :
                         /\ rows[j].session = rows[i].session /\ rows[j].seq = rows[i].seq
                         /\ rows[j].by # rows[i].by /\ rows[j].id \in delivered
    BY DEF MissedOnlyByRace
  <2>1. rows[i].session \in Sessions /\ rows[i].seq \in Nat /\ rows[i].seq >= 1
    <3>1. rows[i] \in Event /\ rows[i].seq \in 0..MaxEvents
      BY EventFields DEF Typed
    <3> QED
      BY <3>1, EventStoreAssumption DEF PollInv, Event
  <2>2. cursor[rows[i].session] \in Nat
    BY <2>1, EventStoreAssumption DEF Typed, TypeOK
  <2>3. rows[i].seq \in 1..cursor[rows[i].session]
    BY <2>1, <2>2
  <2>4. PICK j \in DOMAIN rows :
           rows[j].session = rows[i].session /\ rows[j].seq = rows[i].seq /\ rows[j].id \in delivered
    BY <2>1, <2>3 DEF PollInv, Received
  <2>5. rows[j].by # rows[i].by
    BY <2>4 DEF PollInv, RepeatedByOthers
  <2> QED
    BY <2>4, <2>5
<1> QED
  BY <1>1, <1>2, TypedInit, TypedStep, PollInvStep, PTL DEF Spec

=============================================================================
