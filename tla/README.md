# Verification of CodingBuddy

TLA+ models of the concurrent and stateful parts of CodingBuddy (a Rust
workspace of 18 crates under `src/crates`), TLC runs over small instances and
TLAPS proofs for every instance. `PROJECT.json` is the machine-readable index:
components, runs, mutants, the map from definitions to source lines, hazards and
theorems. Paths below are relative to `src/crates/codingbuddy-`.

- [1. Inventory](#1-inventory)
- [2. Modules and the code they model](#2-modules-and-the-code-they-model)
- [3. Runs and bounds](#3-runs-and-bounds)
- [4. Fairness](#4-fairness)
- [5. Proofs](#5-proofs)
- [6. Known limits of the code](#6-known-limits-of-the-code)
- [7. What is abstracted or left out](#7-what-is-abstracted-or-left-out)
- [8. Where to go on](#8-where-to-go-on)

## 1. Inventory

### Modelled

**Local model runtime** (`local-ml/src/completion/runtime_scheduler.rs`,
`local-ml/src/model_manager.rs`). State: a *request gate* (counters
`active_requests`, `queued_requests`, a condition variable), a *load lane*
(`active_model`, a condition variable), a map of *runners* (loaded backends), and
in `ModelManager` the *slots* with their last use and the *runner states*, both
written to `runtime_state.json`. Operations: `generate`, `prewarm`,
`maintenance_tick`. Shared by the agent and the TUI's background prewarm. Hard:
four mutexes taken one after the other, so what one critical section decided may
be stale in the next; bounded waiting with a deadline that races with a release;
evictions of a model another thread is about to use. Correct when: the counters
count threads and limits hold; no wakeup is lost; loads are serialized and never
duplicated; no runner exists that no eviction can find; an exemption from
eviction has somebody working for it.

**Tool-use loop** (`agent/src/tool_loop/mod.rs`, `agent_tools.rs`, `phases.rs`,
`compaction.rs`). State: the message list, the phase of a complex task and its
counters, counters for six kinds of retry, the calls of the response in hand.
Operations: `run` and `continue_with`, each a sequence of requests, tool batches
(parallel reads, sequential calls, calls deferred to an approval), compaction
and retrieval. Hard: a provider rejects a conversation in which a call has no
result or a result no call, and there are a dozen ways out of an iteration;
compaction cuts the list while results of errors lie about. Correct when: each
call of a user turn is answered exactly once, no result loses its call, the turn
limit holds whatever is retried, phases do not go backwards.

**Guards of the loop** (`safety.rs`, `core/src/complexity.rs` and their uses in
`mod.rs`). The circuit breaker is asked and updated call by call; escalation
signals, recovery guidance and stuck detection judge a batch; the doom loop gate
comes last and may end the user turn. They live as long as the loop object,
across user turns, and are set and cleared at different places. Correct when:
repetition always reaches the user; the counters agree with what was executed;
a ban is earned; recovery guidance is given once for each escalation, and the stuck
guidance only for failures that it has not been given for before.

**Tool result cache** (`agent/src/tool_loop/cache.rs`). Results by tool and
arguments, with a lifetime and a limit; `invalidate_path` after a write of the
loop. Hard: it recognises a file by quoted text, while calls spell paths in
several ways, hooks rewrite arguments, and parallel batches store hits again.
Correct when: after its own write the loop never sees the old content.

**Event store** (`store/src/lib.rs`). A log of JSON lines per workspace, the
events table, and projections; `append_event` changes them one after the other.
Every process of a workspace appends. Hard: kills and errors between the writes,
two processes in one file, sequence numbers taken outside the lock, clients that
poll by number. Correct when: the log stays readable and contains all rows in
order, the status of a session is that of its last event, a poll misses nothing.

**Plan mode** (`agent_tools.rs`, `mod.rs`, `cli/src/commands/plan.rs`). The
session row (status, active plan), the stored plan and the phase of the loop,
written one after the other by the agent and by `/plan` in another process.
Correct when: they tell the same story, the user reviews the plan the agent
wrote, and only the user ends drafting and review.

**Checkpoints** (`memory/src/lib.rs`, `tools/src/host.rs`). A directory of copied
files, its metadata and a row; edits make them, rewinds restore them, a starting
engine cleans old ones up. Hard: everything goes file by file and may stop
anywhere, and what cannot be read is passed over in silence. Correct when: a
recorded checkpoint lacks nothing that its walk met, a rewind restores its files
and touches no others, an edit has a checkpoint from before.

**JSON-RPC sessions** (`jsonrpc/src/lib.rs`). Sessions, prompts, streams of
chunks, handoff links; every editor window starts a server on the same store, and
`prompt/execute` starts an engine that records the turn as well. Correct when:
answers follow their questions, a stream delivers each chunk once, a consumed
link carries the whole conversation.

**Subagents and background jobs** (`agent_tools.rs`, `cli/src/context.rs`,
`cli/src/commands/background.rs`). One delegated run is three rows (run, task,
job), written by the parent, the child and whoever stops it, without a
transaction. Correct when: the run settles, the rows agree, an answer is kept, a
stopped run stays stopped.

**Autopilot** (`cli/src/commands/autopilot.rs`). A process that repeats a prompt;
other processes steer it with a stop file and a pause file and read its rows.
Correct when: a stop stops it, its rows say what it does, a resume does not
start a second run beside a live one.

### Not modelled

| Part | State and operations | Why not |
| --- | --- | --- |
| Denial and cost tracker (`agent/src/tool_loop/safety.rs`) | a window with a flag, a sum | sequential, no other state depends on it |
| Subagent manager, teams (`subagent/src/lib.rs`, `agent/src/team.rs`) | chunks of threads that are joined before the next | threads share nothing but their results; `BackgroundTaskRegistry` has no caller outside its crate |
| Session locks (`store/src/lib.rs`) | holder and heartbeat | only the fork command takes one, for a copy |
| MCP (`mcp/src/lib.rs`) | pool of connections | `McpConnectionPool::execute` has no caller outside tests; other calls open and close a connection |
| Policy (`policy/src`) | rules, modes | a pure decision over text; a free choice in the models |
| Tool host, tools (`tools/src`) | proposals, file and process I/O | I/O; checkpoints and the approval decision are modelled |
| Hooks (`hooks/src/lib.rs`) | external commands | a free choice in the models |
| LLM clients (`llm/src`) | streams, a bounded retry | HTTP and translation; sequential |
| LSP (`lsp/src`) | server processes, open documents | one thread at a time |
| Memory files (`memory/src/lib.rs`) | text files | read, append, cut |
| Index, retrieval (`index/src`, `local-ml/src/retrieval.rs`, `vector_index.rs`) | chunks and vectors | data structures, no protocol |
| Terminal UI, CLI (`ui/src`, `cli/src`) | rendering, input, one function per command | what commands change is in the modules above |
| Core, diff, testkit | types and pure helpers | -- |
| Extensions, npm, web, scripts, Formula | clients, packaging | -- |

## 2. Modules and the code they model

| Module | Models | Extends or uses |
| --- | --- | --- |
| `RequestGate` | `acquire_request_permit`, `Drop for RequestPermit` | INSTANCE `BoundedAdmission` |
| `BoundedAdmission` | what the gate promises: a service and a waiting room as sets | |
| `LocalRuntime` | `generate`, `prewarm`, `ensure_runner`, `acquire_load_lane`, `Drop for LoadLanePermit`, `touch_runtime`, `remove_runners_inner`, `maintenance_tick` and the `ModelManager` operations they call | |
| `Subsequences` | `Vec::retain` and `Iterator::filter` | |
| `Conversation` | the message list, compaction, retrieval messages, and what a provider requires of a list | `Subsequences` |
| `ToolLoop` | `execute_loop` and its callees | `Conversation`, INSTANCE `BoundedRun` |
| `BoundedRun` | what a user turn promises: a bounded number of requests, and an end | |
| `DoomLoop` | `DoomLoopTracker` and the gate in `execute_loop` | |
| `CircuitBreaker` | `CircuitBreakerState` and its uses | |
| `LoopGuards` | both, with escalation signals, recovery guidance and stuck detection, on the same batches | `CircuitBreaker`, `Subsequences`, INSTANCE `DoomLoop` |
| `EventStore` | `append_event`, `next_seq_no`, `project_event` (status), `rebuild_from_events`, `events/poll` | |
| `PlanMode` | `enter_plan_mode`, `exit_plan_mode`, phase changes and their persistence, the save of `spawn_task`, prompt approval, `/plan` | |
| `ToolCache` | `ToolCache::lookup`, `store`, `invalidate_path` and their uses on both paths of the loop | |
| `Checkpoints` | `create_checkpoint(_for_files)`, `rewind_to_checkpoint`, `delete_old_checkpoints`, the callback and the tools' own checkpoints | |
| `RpcSessions` | `session/open`, `fork`, `prompt/execute`, `prompt/stream_next`, handoff links and imports | `Subsequences` |
| `SubagentRuns` | `handle_spawn_task`, the background worker, `finalize_background_subagent_run_with_ids`, `task_stop`, `background stop` and `attach`, `task_update`, `tasks cancel`, the answer of `task_output` | |
| `Autopilot` | `run_autopilot`, its stop, pause and resume commands, `background stop` and `attach` | |
| `*Proofs` | the theorems of section 5 | the modules they are about, TLAPS |
| `MC*` | instances for TLC (symmetry sets, small trees and options) | |

How a model corresponds to its code:

*RequestGate.* `at[t]` says where a thread is; the `QueueLocations` are the threads
`queued_requests` counts, the `ServingLocations` those with a permit. One action is one
critical section of the gate mutex, except that the wait loop is one action per way round
it (`Admit`, `Sleep`, `GiveUp`), because `wait_timeout` releases the mutex.
`NotifyOne` wakes any sleeper, or nobody; `WaitElapses` is the deadline, which a
thread notices only when it tests the loop guard; wakeups may be spurious. `Snapshot` is
`refresh_live_snapshot`, which a request takes after it was counted, admitted, rejected
or released and which locks the runners with the gate in its hand. Two steps
(`HitWaitsForItself`, `PrewarmWaitsForItself`) are the self-deadlock of `ensure_runner`
that keeps the runners for ever; the next snapshot then keeps the gate for ever
(`gateHeld`), and every action that needs the gate is disabled.

*LocalRuntime.* `pc[t]` names the next critical section. One action is one
critical section of one mutex; loads and generations, which run outside every
mutex, are steps of their own with two outcomes. The request gate appears as the
set `permits`, which is the abstraction `RequestGate` is shown to implement.
`holders` are the threads in the hit branch of `ensure_runner`: the `if let`
keeps the guard of the runners mutex alive to the end of the branch, so
`RunnersFree` fails for everybody, the holder included. The memory probe may
answer anything. `Restart` keeps exactly what `runtime_state.json` keeps.

*ToolLoop.* `pc` is the place in an iteration: `head` (turn limit, compaction,
retrieval), `send`, `batch` (calls in hand, parallel reads), `calls` (the
remaining calls one by one), and `idle` between user turns. The provider, the
tools and the user are the environment. A message is its role, the ids it asks
for and the id it answers; each action pushes what its code path pushes, in order.

*LoopGuards* and its parts. The records are the Rust structs, counted up to the
numbers they are compared with. One action is one call on one of the paths:
parallel, deferred, refused, answered without execution, executed, or an
agent-level call that fails and drops the batch. `FinishBatch` is the judgement
over the batch in the order of the code: signals, guidance, stuck detection, doom
loop gate. `asked`, `streak`, `total`, `reports` and `since` are history variables.

*EventStore.* `pc[t]` is the place in `append_event`; `writeln!` on a `File` is two
writes. Processes own locks, threads own events in hand. A failure or a kill ends
an append where it is. `damage`, `lost` and `delivered` are history variables.

*PlanMode.* An operation of the agent is the queue of store writes its handler
makes, with what a failure of each does (end the turn, or skip some); one write is
one step. `copy` is the session as the operation loaded it, which is what
`save_session` writes back. `/plan` loads and decides in one step and writes in
another. `stale` and `awaited` are history variables.

*ToolCache.* `version` counts the writes of a file and `how` remembers who made
them and under which spelling; a result carries the versions it saw. `pending` are
results between execution and `store`.

*Checkpoints.* Copying, deleting and restoring are one step per file; identifiers
are handed out in order. `base`, `mixed`, `seen` and `steady` remember the
workspace at the beginning of a checkpoint and of an operation, and who was
disturbed by somebody else. `CopyFile` takes what it finds: the file, nothing (the
walk, `is_file` and the copies of a targeted checkpoint pass over errors), or, for a
targeted checkpoint of a process in `Elsewhere`, whatever its current directory holds
under the relative path. `CopyOntoItself` is an absolute path that does not begin with
the workspace as that process spells it. `gaps` remembers which files a checkpoint does
not hold as they were; `job.passed` are the files that the walks of a rewind missed.

*RpcSessions.* One action is one append or one write of a request. `job.session` is
where the handler writes, `job.agent` where its engine does: the session saved last.

*SubagentRuns.* `runRow`, `taskRow` and `jobRow` are the three rows; `at` of parent,
child and stoppers names the next store write, and `copies` are the records they have
loaded and write back. Writes projected from events are steps of their own.

*Autopilot.* `pc[r]` is the place in `run_autopilot`: before the loop, at its head
(limit, deadline, stop file), at the pause check, in an iteration, saving, ending. A
command loads a row and then acts on files, in steps; `background stop` and `attach` also
write the row of the job. `attached` records (as a history) the jobs of which an `attach`
was the last to write.

Definitions whose comment says "a mistake the checks of this definition must
notice" are not part of the models: each is a plausible bug in the definition it
is named with, and substituting it must violate a property.

## 3. Runs and bounds

| Run | Bounds; distinct states | Properties and what they say |
| --- | --- | --- |
| `gate` | 5 threads, 2 places, 2 queue positions; 180 000 | counters count threads; no stranded sleeper; a queued request returns unless a snapshot keeps the gate for ever; implements `BoundedAdmission` |
| `runtime` | 2 threads, 2 models, room for 1; 486 000 | no runner without a slot; no exemption without a worker; loads serialized and never duplicated |
| `loop_turns` | 2 user turns of 2 iterations, 3 calls; 7.4 million | each request answers each call of the turn once; no result loses its call |
| `loop_phases` | 1 user turn from each of 5 phases, 6 kinds of calls; 724 000 | the turn limit and the end of a user turn (`BoundedRun`); phases go forward |
| `guards` | 2 calls (one misspelled), 3 responses, thresholds 2; 1.5 million | repetition reaches the user; counters match executions; bans are earned; recovery guidance is current; every stuck guidance is earned |
| `event_store` | 3 threads in 2 processes, 3 appends, 1 failure; 1.6 million | the log is readable unless cut or mixed; rows follow the log; the status is the last row's; a poll misses a row only by a race |
| `plan_mode` | 3 turns, 6 operations, 2 failures; 67 000 | phase matches status; a saved plan stays under review until it is answered; only the user leaves the plan |
| `tool_cache` | 2 files, 3 directory levels, 2 spellings, batches of 2; 3.6 million | the loop sees its own writes |
| `checkpoints` | 2 processes, 2 files with 2 contents, 1 checkpoint, 3 operations; 6.1 million | recorded checkpoints hold all their walk met; a rewind restores and stays in scope; an edit can be undone |
| `rpc_sessions` | 2 servers, 4 sessions, 1 prompt, 1 link, 1 failure; 765 000 | answers follow questions; streams deliver; handoffs are complete |
| `subagent_runs` | 2 stoppers, 2 user operations, 1 failure; 4.5 million | why a run stays open; rows agree; answers stay; stopped stays |
| `autopilot` | 2 runs (one resumed), 2 users, 3 commands, 1 death; 976 000 | at most one iteration after a stop; rows follow the run; twins only while waking; a stop ends the run |

Why the bounds are enough:

- *Gate.* Five threads fill both places and both queue positions and leave one to
  be rejected or to barge in. Two places are needed for two releases to race with
  two sleepers; the theorems hold for every number.
- *Runtime.* An eviction concerns one model and the thread that works for it or for
  another one; two threads on two models with room for one evict each other's model
  at every point. A third thread on a lane and restarts are covered by the theorems.
- *Loop.* Thresholds are scaled so that short conversations reach them: compaction
  leaves lists of 7 messages alone (here 3), Explore ends after 3 reads (1), Execute
  after 5 edits (2), reminders come after 10 calls (2), retries are allowed three
  times (0 or 1). Only comparisons with these numbers appear in the code. Nothing
  refers to more than two calls of a batch or more than one earlier user turn.
- *Guards.* Repetition and failure thresholds are 2 instead of 3, so that three
  responses of two calls hold a full run of failures, a trip and what follows it;
  `repeated_error_count` keeps its 3, `should_escalate` its 2.
- *Event store.* Damage needs two processes, disorder two threads of one process;
  three appends are two that race and one that follows.
- *Plan mode.* Three turns are one that drafts, one that is approved or rejected
  meanwhile, one that goes on; six operations enter, exit, spawn and change phase.
- *Tool cache.* One file in a nested directory with two spellings and one beside it
  give every relation between an entry and a write; time to expire both lifetimes.
- *Checkpoints.* One checkpoint that is begun, rewound and cleaned by two processes;
  a second one shares nothing with the first except the workspace, which changes by
  hand already. One of the files is a `metadata.json` at the root, which rewinds skip.
  Two contents, one of them empty: a file emptied, overwritten or taken from another
  directory differs from the one the workspace began with. The editor is in `Elsewhere`.
- *RPC.* A second server changes the session saved last and consumes the same link;
  four sessions are the asked one, the latest, and two imports.
- *Subagents.* Two stoppers overlap with each other, with the parent and the child.
- *Autopilot.* Two runs are a run and its twin; three commands are two that race and
  one before them.

Symmetry is used for threads, processes, models, calls, contents and servers in runs
without liveness; no definition distinguishes them. `CHECK_DEADLOCK FALSE` appears
where the model stops because its bounded turns, appends or commands are used up, and
in `gate` and `runtime`, because the code can really stop there (section 6). Constants named
`Max...`, `InitialPhases`, `Kinds`, `Editors` and `Options` bound or select what a run
looks at; they are marked where they are declared.

## 4. Fairness

- `RequestGate!GateFairSpec`: weak fairness of a queued thread's snapshot and of its way
  round the wait loop (a thread that can take the gate mutex eventually does) and of
  `WaitElapses` (time passes, `wait_timeout` returns). Nothing is assumed of the mutex
  once a snapshot waits for the runners with it: the actions are disabled then, fairness
  asks nothing of them, and `QueuedRequestReturns` names that case. The gate is otherwise
  only held for steps that end. Nothing is assumed of generations: a permit may never be
  released, and a queued request still returns.
- `ToolLoop!FairSpec`: weak fairness of the loop: requests, tools and callbacks
  return, as their timeouts make them. Users owe no new turn.
- `Autopilot!FairSpec`: weak fairness of each run and of each command a user has
  started: they are processes of their own that wait for nothing but the clock. A
  user owes no command, and a run may die, which `StopEnds` counts as an end. The
  property therefore says that no pause file, resume or limit keeps a stopped run going.

All other runs check safety, for which no fairness is assumed.

## 5. Proofs

Every theorem is checked to its leaves, for every value of the constants that
satisfies the module's assumption. `PROJECT.json` lists them; those with a property
state one that a run checks. The type invariants and `GateBounds` are proved and have
no run of their own: the runs were used to find them and spend their time on the others.

| Proofs | About |
| --- | --- |
| `RecursionProofs` | `Only`, `Without` and folds: induction and recursion over the naturals |
| `ConversationProofs` | `Conversation`, `ToolLoop`, `ToolLoop` as a `BoundedRun`, and `RpcSessions` |
| `GuardsAndCacheProofs` | `CircuitBreaker`, `DoomLoop`, `LoopGuards`, `ToolCache` |
| `LocalRuntimeProofs` | `RequestGate`, `RequestGate` as a `BoundedAdmission`, `LocalRuntime` |
| `BackgroundJobProofs` | `Autopilot`, `SubagentRuns` |
| `EventStoreProofs`, `PlanModeProofs`, `CheckpointsProofs` | the module they are named for |

*RecursionProofs.* A recursive function is a CHOOSE, so before its equation can be used
one has to show that a function with this equation exists. The library's theorems about
that take operators as parameters; here the same is stated with sets: a set with 0 and
every successor contains the naturals (`Induction`, from the least element of a set),
and a function that takes given steps exists (`Recursion`). From there: what `Only` and
`Without` contain, where an element of theirs stood before and in which order; and that a
fold over a sequence, which the library defines by recursion over sets of indices, has a
function that obeys its equation.

*ToolLoop.* `LoopInv` has four parts. The types. The conversation: no result without its
question, no User message between the two (compaction cuts there), each id asked for
once; `OnlySelects` of `RecursionProofs` shows that filtering preserves it. The calls in
hand: of the ids handed out since the user turn began, those of the calls left to do are
asked and not answered, all others are answered once, wherever they went (parallel,
deferred, sequential, agent-level), so that the request which is sent next has one result
for each call. The limit of turns. `RefinesBoundedRun` maps each step to a request, a
return or a stutter; `PhasesGoForward` follows from the rank of the phases alone.

*RequestGate.* `GateInv` is the conjunction of types, counters equal to the
cardinality of the set they count, bounds, and `NoStrandedWaiter`. None is inductive
alone: the bounds need exact counters (a saturated decrement would free a place
nobody left), and the wakeup argument needs the bounds. `GateImplementsAdmission`
maps each step to the step of `BoundedAdmission` of the same thread or to a stutter.

*LocalRuntime.* `ThreadShape` says for each location what a thread holds and where it
may go on after dropping its victims. On it rest three invariants, proved one after
the other: the lane excludes (`LoadsSerialized`); no runner of my model appears
between the second lookup and the insertion (`LaneGuardsRunners`, which gives
`NoDuplicateLoad`); a runner without a slot has a thread at `touch` or `drop`
(`RunnersAccountedFor`). They hold for `RestartSpec`. `StatesOwned` says who ends
each Loading or Busy state and gives `ExemptionsHaveWorkers`, for `Spec` only.

*Guards.* `BreakerInv` counts: `trips * Threshold + failures <= total` for each tool, and
`failures` is the remainder of the streak by the threshold. The arithmetic of quotient
and remainder is in lemmas of its own. `LoopUsesBreaker` and `LoopUsesDoomLoop` show that
every step of `LoopGuards` is a step of the breaker and of the gate, or leaves them alone,
so that what is proved of the part holds for the whole. `GuardsInv` adds the gate: from
the question to the user until another call is recorded the window ends with the repeated
call and the warning stands, and otherwise the window holds no repetition. The gate
records a batch by a fold that stops at the first detection, so this is proved of one
call and carried over the batch by induction. `RecoveryIsCurrent` is inductive with the
types. For `StuckIsEarned`, `StuckInv` says that the list holds no text more often than it
was observed since the last guidance; the lemmas on `Places` count what `track_error`
adds and drops.

*ToolCache.* The invariant says of the results that wait to be stored what
`OwnWritesSeen` says of the cache: between execution and `store` the loop writes
nothing. The bound needs finiteness of the cache, with the library's facts on
cardinalities.

*EventStore.* The lock of a process is held by whoever is between its text and its
projection, so two threads inside a line are of two processes; while `damage` is
empty the log ends with a text exactly when one thread is inside a line. Order of rows
follows because an event's text is in the log before its row, under one lock. That
`next_seq_no` has a greatest row to look at comes from the well-foundedness of the
naturals. For the status, identifiers of rows are unique and the row a thread is about
to project is the last one of its process, so a projection always settles the greatest
row that was not skipped (`StatusFollowsRows`). For the polls, the numbers of a session
have no gaps, and the event that a thread has in hand has a greater number than the rows
of that thread; so up to its cursor a client has a row of every number, and a row it
misses is another thread's (`RowsMissedOnlyByRace`).

*PlanMode.* The queue of writes of an operation either stays with the plan (every
status in it is Planning or AwaitingApproval, every phase Plan) or leaves it, and it
leaves it only for a loop that was not planning or for a granted prompt. What remains
of a queue is of the same kind: a failed write never skips a change of phase, which is
why the invariant speaks about suffixes. `OnlyUserLeavesPlan` follows from that.
`StoryInv` is the invariant behind `PhaseMatchesStatus` and `ReviewShowsPlan`: as long as
no write failed and no verdict was outdated, what is left of the queue is a suffix of one
of five operations, with what this suffix needs of the session, of the copy and of the
phase. A verdict in time is harmless in each of them: either the loop was planning, or
the queue overwrites the verdict, or (spawn_task) it restores the status of before.
`ReviewInv` follows an unanswered `exit_plan_mode` on top of it: its own queue ends with
the review, and no operation but `enter_plan_mode` begins a queue that ends it.

*Checkpoints.* Every directory has one owner: the process that fills it until its row
exists, nobody while there is a row, then the clean-up (`Owned`). So a row stands for
fixed files, and `RecordedAreComplete` needs of the filling process only that it has
copied or passed over what is no longer in `todo`, and that the workspace is still that
of the beginning unless the checkpoint counts as mixed (`Copied`). On top of it rest two invariants about
undisturbed processes, each with a lemma that says what a step of somebody else leaves
alone: how far a rewind is, but for the files it passed over (`RewindInv`, which gives `RewindRestores` and
`RewindStaysInScope`) and what an edit relies on (`EditInv`, which gives
`EditsUndoable`). All four properties of the run are proved.

*Autopilot.* `IInv` says what the rows are at each place of the loop, that an iteration
begun late is the only one and its stop file exists, and that what a command has read of
a stopped run stays true while it goes on. One lemma per action; a command's steps
change a run only through files and, in `StopJob` and `AttachJob`, the status of its job.

*SubagentRuns.* `RunInv` is the types and, for executions in which nothing has failed,
eleven invariants that build on each other, each with a lemma of one step per handler. First
who is where: parent and child hand the run over (`Together`), the job has a row when
somebody acts on it (`JobKnown`), and one of the two records the ending (`Endings`). From
these, `Answered` gives `AnswersStay` for the id of the task although the parent writes the
run last, `OutputKept` (nothing early, nobody interfered) for the id of the run, and
`RunSettled` and `JobSettled` say who will still settle the rows, or which of the known
reasons holds, which gives `RunsSettle`. `Calm` is about a single writer: the pid of a
working child is in its job and in the copy of whoever kills it, so a kill ends the child,
a stop writes after parent and child, and `StoppedStays` follows. On top of it `Agreeing`
says what each writer has already written and gives `RecordsAgree`. What happens after a
failed write or kill is not claimed: the properties ask for `failures = 0`.

*RpcSessions.* `RpcInv` has eight parts. `RpcTypeOK`; `Requests`, what a request works on
at each of its steps; `Unknown`, a session that is not in the store has no turns. `Streams`
gives `StreamDelivered`: the text of an open prompt is at the server that was asked or was
lost with it, and what the client has is the part up to its cursor. Three parts give
`HandoffsComplete`. One server at a time fills a session, and nobody fills it after its
import (`OneImporter`); so what has arrived there and what the request still carries make
up the bundle, whatever engines append in between (`Carrying`, with `OnlyAppend` of
`RecursionProofs`). `Marked` counts who pays for a filled session: a mark still to come, a
failure, or a server that began to consume before the link was used; counting filled
sessions alone is not inductive. `Prompted` gives `AnswersFollowQuestions`: each writer
records each role of a prompt once and in one session, which needs what is already
recorded at every step of the request that is under way. Nothing is assumed about where
requests fail or servers end.

*Model-checked only.* Liveness (`QueuedRequestReturns`, the end of a user turn in
`ImplementsBoundedRun`, `StopEnds`): the prover has no ENABLED. Every safety property of
the runs is stated by a theorem.

## 6. Known limits of the code

The models reproduce these, and no property claims them away: each is a condition in a
property, or a reason why a stronger property is not stated.

- *Runtime.* The hit branch of `ensure_runner` holds the runners mutex while
  `touch_runtime` may lock it again, and then never returns
  (`runtime_scheduler.rs:493`, `:501`). The next live snapshot waits for it with the gate
  locked (`:347`, `:360`), and from then on no request is admitted, rejected or timed
  out. A waiter of the load lane publishes a snapshot
  with the mutex released and may miss its notification (`:643`). A runner state may
  be cleared while another thread generates with the model (`:698`). A reload refused
  for lack of memory leaves Reloading (`:546`), and persisted Busy and Loading states
  survive a restart (`model_manager.rs:787`): such slots are exempt from idle eviction.
- *Loop.* A breaker trip and `enter_plan_mode` push a System message between a question
  and its result (`mod.rs:2220`). An agent-level call that fails ends the user turn with
  its batch unanswered (`mod.rs:1688`). A context overflow and a stop at the doom loop
  gate move the messages out of the loop, and `continue_with` sends a list without
  system prompt (`mod.rs:1114`, `:1816`). In the Plan phase a text never starts Execute,
  though `phases.rs:38` says so.
- *Guards.* A trip resets `consecutive_failures`, which the check also asks for, so the
  cooldown refuses nothing (`mod.rs:2227`). A tool disabled for the session is executed
  under a misspelled name or on the parallel path (`mod.rs:1871`, `:1435`).
  `recent_errors` and the signals outlive the user turn. Evidence found in a successful
  batch escalates without guidance; a mixed batch never counts as stuck; parallel
  results that are JSON objects are not observed at all (`mod.rs:1605`).
- *Event store.* Numbers are taken outside the lock, so two events of a session may share
  one and a poll may miss a row (`lib.rs:718`). The log runs ahead of the rows after a
  failure. A torn or mixed line makes `rebuild_from_events` fail for the workspace.
- *Plan mode.* `PlanRevised` sets the status back to Planning until `ExitPlanMode` is
  projected. A save of `spawn_task` or of a phase change can undo a verdict given since
  the session was loaded. `enter_plan_mode` replaces an existing plan by an empty draft.
- *Tool cache.* Other spellings, redirected writes, and searches further up keep old
  results until they expire; a hit of a parallel batch gets a new lifetime.
- *Checkpoints.* A clean-up during a rewind can make a targeted rewind a full one
  (`memory/src/lib.rs:568`). A full rewind deletes a `metadata.json` at the root. A
  targeted checkpoint does not undo the creation of a file. Errors of the callback are
  ignored, and directories of failed checkpoints stay. A full checkpoint is recorded
  without the files that its walk cannot read (`:435`), and a rewind to it deletes those
  it can read by then; a targeted one is recorded without binary files and those it
  fails to copy, or with a part of them (`:509`). A targeted checkpoint looks a relative
  path up in the current directory of the process (`:493`, `:503`), which is the
  workspace only by convention. An absolute path that does not begin with the workspace
  as the process spells it is joined to the snapshot unchanged (`:501`, `:505`): the file
  is copied onto itself and is empty afterwards, before the tool has looked at the path.
- *RPC sessions.* A turn is recorded twice, the second time in the session saved last;
  the last reply removes the stream, so it cannot be repeated; a link may be imported
  again after a server ended before `used_at`.
- *Subagents.* The result of a promoted child is dropped and its run stays running; the
  parent's last write may turn a finished run into a running one, and `task_output` by
  the id of the run then finds no answer; `task_update` without an outcome clears it;
  a completion recorded between the writes of a stop leaves run and task with different
  verdicts, and a stopped run completed (`agent_tools.rs:848`); `background stop`
  leaves run and task open; `attach` marks a finished job running; `tasks cancel` does
  not stop the child; a stop between the job's event and its second row finds no pid.
- *Autopilot.* The started event empties the file names in the row, so until the row is
  saved again stop and pause use default names. Stop files are never removed, so later
  runs with the same file end at once. A crashed run stays running and is not resumed.
  Two resumes at once start two runs. A run may begin one more iteration after its stop.
  `background attach` takes any job and sets its row to running, that of a paused run or
  of one that is over as well; `RowsFollowRun` claims no more of a job attached to than
  that.

## 7. What is abstracted or left out

- *Runtime.* Metrics, events and what live snapshots say: no decision reads them. That a
  snapshot locks gate, lane and runners in turn is in `RequestGate`, not in `LocalRuntime`. Last use is
  "inside the keep-warm window or not". Downloads are part of a load.
- *Loop and guards.* Contents, costs, tokens and hooks' texts; whether a request
  overflows, a call needs an approval or an output holds evidence is a free choice. A
  call is one value for tool name and arguments, hashed without collisions.
- *Event store.* An event is its kind, session and number; of all projections only the
  status is in `EventStore`, those of plans, runs, tasks and jobs in the modules about
  them, where appending an event and projecting it is one step.
- *Plan mode.* Plans are empty or written. Statuses Paused, Failed and Completed are
  never set by the modelled operations.
- *Tool cache.* Contents are version numbers, searches see all files below a name.
- *Checkpoints.* Git shadow commits leave files alone; the first checkpoint of the
  callback is the one made when git offers none. Ignored directories are left out. A
  copy is one step; a file that a process leaves half restored is a change by hand.
- *RPC sessions.* An engine's run is a step with a free outcome; events other than chat
  turns are left out.
- *Subagents.* One run; texts are present or absent.
- *Autopilot.* Deadlines may pass at any time; `--pause-file`, which the commands do not
  know of, and the heartbeat are left out. Start and end events are one step each with
  the row they repeat.
- *Not modelled.* The parts of the second table of section 1.

## 8. Where to go on

1. Projections of tasks, jobs and runs in `EventStore` and its composition with
   `SubagentRuns`, so that a failed append and its projection are separate there too.
2. LSP documents and MCP once their pools are used by more than one thread.
