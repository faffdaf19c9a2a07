------------------------------ MODULE RpcSessions ------------------------------
(***************************************************************************)
(* The sessions of the JSON-RPC server: prompts, the streams of their      *)
(* chunks, and conversations handed off by link.                           *)
(*                                                                         *)
(* A server answers one request after the other, but every editor window   *)
(* starts its own server on the same store.  A request appends its events  *)
(* one by one; each append may fail, and a server may end between two of   *)
(* them.  prompt/execute records question and answer in the session it was *)
(* asked for, and starts an engine that is not told this session: the      *)
(* engine records both again in the session saved last.                    *)
(*                                                                         *)
(* A log keeps the turns of a session; how they reach the disk is the      *)
(* subject of EventStore.                                                  *)
(***************************************************************************)
EXTENDS Subsequences, Integers, FiniteSets

CONSTANTS
    Servers,       \* server processes on one store
    Sessions,      \* identifiers of sessions
    Prompts,       \* prompts, each sent once
    Links,         \* identifiers of handoff links
    None,          \* no session, prompt or link
    Chunks,        \* the chunks of a streamed answer
    MaxAsked,      \* the most chunks a client asks for at a time
    MaxFailures    \* bound: failures, ends of servers and lost replies

ASSUME RpcSessionsAssumption ==
    /\ None \notin Sessions \cup Prompts \cup Links /\ IsFiniteSet(Servers)
    /\ Chunks \in Nat /\ MaxAsked \in Nat \ {0} /\ MaxFailures \in Nat

VARIABLES
    log,        \* per session: its ChatTurn events
    saved,      \* the sessions of the store, the one saved last at the end
    link,       \* per handoff link: its descriptor and bundle
    stream,     \* prompt_streams: per server and prompt, its chunks
    client,     \* per prompt: cursor and chunks received
    at, job,    \* per server: the next step of its request and its local state
    imported,   \* per link: the sessions a consumption has filled (history variable)
    failures    \* counts failures

rpcVars == <<log, saved, link, stream, client, at, job, imported, failures>>

Known == {saved[i] : i \in DOMAIN saved}

NoStream == -1
NotCreated == [made |-> FALSE, used |-> FALSE, bundle |-> <<>>]

\* session: where the handler writes; agent: where the engine writes; rest: turns
\* still to be imported; link: the link that is being consumed; text: the
\* engine has answered with some text.
Idle == [session |-> None, agent |-> None, prompt |-> None, rest |-> <<>>, link |-> None,
         text |-> FALSE]

\* What the client knows of a prompt: its server, next cursor, chunks and what
\* became of the stream; lost: the stream went away before the client heard of
\* its end (history variable).
Quiet == [server |-> None, cursor |-> 0, got |-> <<>>, state |-> "unsent", lost |-> FALSE]

RpcInit ==
    /\ log = [s \in Sessions |-> <<>>] /\ saved = <<>>
    /\ link = [h \in Links |-> NotCreated]
    /\ stream = [v \in Servers |-> [p \in Prompts |-> NoStream]]
    /\ client = [p \in Prompts |-> Quiet]
    /\ at = [v \in Servers |-> "idle"] /\ job = [v \in Servers |-> Idle]
    /\ imported = [h \in Links |-> {}]
    /\ failures = 0

Proceed(v, l, j) == at' = [at EXCEPT ![v] = l] /\ job' = [job EXCEPT ![v] = j]
Done(v) == Proceed(v, "idle", Idle)

\* save_session, and events that change the state of a session.
Saved(s) == Append(Without(saved, {s}), s)

Appended(s, role, p, by) ==
    log' = [log EXCEPT ![s] = Append(@, [role |-> role, prompt |-> p, by |-> by])]

MayFail == failures < MaxFailures /\ failures' = failures + 1

-----------------------------------------------------------------------------
(* Sessions and prompts *)

\* session/open and session/fork: a session without turns.
NewSession(v, s) ==
    /\ at[v] = "idle" /\ s \notin Known
    /\ saved' = Saved(s)
    /\ UNCHANGED <<log, link, stream, client, at, job, imported, failures>>

\* prompt/execute: the question.
Ask(v, s, p) ==
    /\ at[v] = "idle" /\ s \in Known /\ client[p].state = "unsent"
    /\ client' = [client EXCEPT ![p].server = v, ![p].state = "sent"]
    /\ Appended(s, "user", p, "handler")
    /\ Proceed(v, "engine", [Idle EXCEPT !.session = s, !.prompt = p])
    /\ UNCHANGED <<saved, link, stream, imported, failures>>

\* ensure_session_record_for without a session: the one saved last.
EngineSession(v) ==
    /\ at[v] = "engine"
    /\ Proceed(v, "question", [job[v] EXCEPT !.agent = saved[Len(saved)]])
    /\ UNCHANGED <<log, saved, link, stream, client, imported, failures>>

\* A mistake the checks of this definition must notice: EngineAsks.
EngineAsksNot(v) ==
    /\ at[v] = "question"
    /\ Proceed(v, "run", job[v])
    /\ UNCHANGED <<log, saved, link, stream, client, imported, failures>>

\* The engine appends what it can.
EngineAsks(v) ==
    /\ at[v] = "question"
    /\ \/ Appended(job[v].agent, "user", job[v].prompt, "agent") /\ UNCHANGED failures
       \/ MayFail /\ UNCHANGED log
    /\ Proceed(v, "run", job[v])
    /\ UNCHANGED <<saved, link, stream, client, imported>>

\* The run ends with a text, which may be empty, or with an error; it may have
\* changed the state of its session.
EngineAnswers(v) ==
    /\ at[v] = "run"
    /\ saved' \in {saved, Saved(job[v].agent)}
    /\ \/ /\ \/ Appended(job[v].agent, "assistant", job[v].prompt, "agent") /\ UNCHANGED failures
             \/ MayFail /\ UNCHANGED log
          /\ \E text \in BOOLEAN : Proceed(v, IF text THEN "answer" ELSE "stream", [job[v] EXCEPT !.text = text])
       \/ Proceed(v, "stream", job[v]) /\ UNCHANGED <<log, failures>>
    /\ UNCHANGED <<link, stream, client, imported>>

\* The answer, in the session of the request.
Answer(v) ==
    /\ at[v] = "answer"
    /\ Appended(job[v].session, "assistant", job[v].prompt, "handler")
    /\ Proceed(v, "stream", job[v])
    /\ UNCHANGED <<saved, link, stream, client, imported, failures>>

\* The reply; with partial messages the chunks of the run wait for the client.
Reply(v) ==
    /\ at[v] = "stream"
    /\ \/ /\ stream' = [stream EXCEPT ![v][job[v].prompt] = Chunks]
          /\ client' = [client EXCEPT ![job[v].prompt].state = "open"]
       \/ UNCHANGED <<stream, client>>
    /\ Done(v)
    /\ UNCHANGED <<log, saved, link, imported, failures>>

-----------------------------------------------------------------------------
(* prompt/stream_next *)

Least(a, b) == IF a < b THEN a ELSE b

\* A mistake the checks of this definition must notice: Finished.
FinishedEarly(end, n) == end + 1 >= n

Finished(end, n) == end >= n

\* The client asks for the chunks after its cursor and takes next_cursor and
\* done from the reply; a reply may be lost, and the client asks again.
StreamNext(v, p, asked) ==
    /\ at[v] = "idle" /\ client[p].state = "open" /\ client[p].server = v
    /\ LET n     == stream[v][p]
           start == Least(client[p].cursor, n)
           end   == Least(start + asked, n)
           got   == [i \in 1..(end - start) |-> start + i]
       IN  \/ /\ n = NoStream
              /\ client' = [client EXCEPT ![p].state = "missing"]
              /\ UNCHANGED <<stream, failures>>
           \/ /\ n # NoStream
              /\ stream' = IF Finished(end, n) THEN [stream EXCEPT ![v][p] = NoStream] ELSE stream
              /\ \/ /\ client' = [client EXCEPT ![p].cursor = end, ![p].got = @ \o got,
                                                ![p].state = IF Finished(end, n) THEN "done" ELSE @]
                    /\ UNCHANGED failures
                 \/ /\ MayFail
                    /\ client' = [client EXCEPT ![p].lost = @ \/ Finished(end, n)]
    /\ UNCHANGED <<log, saved, link, at, job, imported>>

-----------------------------------------------------------------------------
(* Handoff *)

\* session/handoff_link_create: exports the conversation and writes the descriptor.
LinkCreate(v, s, h) ==
    /\ at[v] = "idle" /\ s \in Known /\ ~link[h].made
    /\ link' = [link EXCEPT ![h] = [made |-> TRUE, used |-> FALSE, bundle |-> log[s]]]
    /\ UNCHANGED <<log, saved, stream, client, at, job, imported, failures>>

\* session/handoff_import, session/remote_resume: a new session from a bundle.
ImportBundle(v, t, h, consumed) ==
    /\ at[v] = "idle" /\ link[h].made /\ t \notin Known
    /\ saved' = Saved(t)
    /\ Proceed(v, "import", [Idle EXCEPT !.session = t, !.rest = link[h].bundle, !.link = consumed])
    /\ UNCHANGED <<log, link, stream, client, imported, failures>>

\* session/handoff_link_consume of a link that is not marked as used.
Consume(v, t, h) == ~link[h].used /\ ImportBundle(v, t, h, h)

\* A mistake the checks of this definition must notice: ImportTurn.
ImportTurnReversed(v) ==
    /\ at[v] = "import" /\ job[v].rest # <<>>
    /\ LET m == job[v].rest[Len(job[v].rest)] IN Appended(job[v].session, m.role, m.prompt, "import")
    /\ Proceed(v, "import", [job[v] EXCEPT !.rest = SubSeq(@, 1, Len(@) - 1)])
    /\ UNCHANGED <<saved, link, stream, client, imported, failures>>

ImportTurn(v) ==
    /\ at[v] = "import" /\ job[v].rest # <<>>
    /\ LET m == Head(job[v].rest) IN Appended(job[v].session, m.role, m.prompt, "import")
    /\ Proceed(v, "import", [job[v] EXCEPT !.rest = Tail(@)])
    /\ UNCHANGED <<saved, link, stream, client, imported, failures>>

ImportEnds(v) ==
    /\ at[v] = "import" /\ job[v].rest = <<>>
    /\ LET h == job[v].link
       IN  IF h = None THEN Done(v) /\ UNCHANGED imported
           ELSE Proceed(v, "mark", job[v]) /\ imported' = [imported EXCEPT ![h] = @ \cup {job[v].session}]
    /\ UNCHANGED <<log, saved, link, stream, client, failures>>

\* used_at is written after the import.
MarkUsed(v) ==
    /\ at[v] = "mark"
    /\ link' = [link EXCEPT ![job[v].link].used = TRUE]
    /\ Done(v)
    /\ UNCHANGED <<log, saved, stream, client, imported, failures>>

\* An append or a write fails and the request with it.
HandlerFails(v) ==
    /\ at[v] \in {"engine", "answer", "import", "mark"}
    /\ MayFail
    /\ Done(v)
    /\ UNCHANGED <<log, saved, link, stream, client, imported>>

\* The server ends and another one starts.
ServerEnds(v) ==
    /\ MayFail
    /\ stream' = [stream EXCEPT ![v] = [p \in Prompts |-> NoStream]]
    /\ client' = [p \in Prompts |-> [client[p] EXCEPT !.lost = @ \/ stream[v][p] # NoStream]]
    /\ Done(v)
    /\ UNCHANGED <<log, saved, link, imported>>

RpcNext ==
    \/ \E v \in Servers :
         \/ \E s \in Sessions : NewSession(v, s) \/ \E p \in Prompts : Ask(v, s, p)
         \/ EngineSession(v) \/ EngineAsks(v) \/ EngineAnswers(v) \/ Answer(v) \/ Reply(v)
         \/ \E p \in Prompts, n \in 1..MaxAsked : StreamNext(v, p, n)
         \/ \E h \in Links, s \in Sessions :
              LinkCreate(v, s, h) \/ ImportBundle(v, s, h, None) \/ Consume(v, s, h)
         \/ ImportTurn(v) \/ ImportEnds(v) \/ MarkUsed(v) \/ HandlerFails(v) \/ ServerEnds(v)

RpcSpec == RpcInit /\ [][RpcNext]_rpcVars

-----------------------------------------------------------------------------
(* Properties *)

Position(s, role, p, by) == {i \in DOMAIN log[s] : log[s][i] = [role |-> role, prompt |-> p, by |-> by]}

\* The handler and the engine each record a question at most once and an answer
\* at most once, the answer after the question; of an engine the question may
\* have failed.  All of them together are in at most two sessions.
AnswersFollowQuestions ==
    \A p \in Prompts :
        /\ \A s \in Sessions, by \in {"handler", "agent"} : \A a \in DOMAIN log[s] :
              a \in Position(s, "assistant", p, by) =>
                 /\ Position(s, "assistant", p, by) = {a}
                 /\ Cardinality(Position(s, "user", p, by)) <= 1
                 /\ (\E q \in Position(s, "user", p, by) : q < a) \/ (by = "agent" /\ failures > 0)
        /\ Cardinality({s \in Sessions : \E i \in DOMAIN log[s] :
                           log[s][i].prompt = p /\ log[s][i].by # "import"}) <= 2

\* A client that asks from next_cursor gets every chunk once and in order, even
\* when replies are lost; done means that it has them all, and missing that
\* the server ended or the last reply was lost.
StreamDelivered ==
    \A p \in Prompts :
        /\ client[p].got = [i \in 1..client[p].cursor |-> i]
        /\ client[p].state = "done" => client[p].cursor = Chunks
        /\ client[p].state = "missing" => client[p].lost

Imported == [role : {"user", "assistant"}, prompt : Prompts, by : {"import"}]

Turns(seq) == [i \in DOMAIN seq |-> [role |-> seq[i].role, prompt |-> seq[i].prompt]]

\* A session that a consumption has filled holds the turns of the bundle in
\* their order, whatever engines have written between them; and a link that is
\* used has been imported, no more often than there are servers that had begun
\* before the mark and failures between an import and its mark.
HandoffsComplete ==
    \A h \in Links :
        /\ \A s \in imported[h] :
              Turns(Only(log[s], Imported)) = Turns(link[h].bundle)
        /\ link[h].used => imported[h] # {}
        /\ Cardinality(imported[h]) <= failures + Cardinality(Servers)
=============================================================================
