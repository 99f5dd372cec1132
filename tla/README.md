# A verification project for the agent transaction runtime

The repository is a small runtime for coding agents in Python. It has two halves that do not call each
other yet: a *durable task* layer (an event log, checkpoints, execution receipts, and a session that
drives a task through its plan and resumes it after a crash), and an *agent loop* (turns of a model,
tools that run commands on the host or in a container, context compaction, retries, verification, cancellation). This directory holds TLA+ models of
both, TLC configurations that check them on small instances, and theorems that TLAPS proves for every
value of the constants. Line numbers are those of the files under `src/`.

Contents: [1 Inventory](#1-inventory) · [2 Modules and code](#2-modules-and-code) ·
[3 Runs](#3-runs) · [4 Fairness](#4-fairness) · [5 Proofs](#5-proofs) ·
[6 Disagreements found](#6-disagreements-found) · [7 Abstractions](#7-abstractions-and-what-is-left-out) ·
[8 Plan](#8-plan)

## 1 Inventory

### 1.1 The durable task (`runtime/durable.py`, `runtime/durable_contracts.py`)

| part | state | operations |
|---|---|---|
| `TaskPlan`, `PlanNodeSpec` | an immutable list of nodes with dependencies and acceptance criteria | `__post_init__`: unique ids, known dependencies, and the peeling loop `_validate_acyclic_dependencies` |
| `DurableTaskState`, `reduce_domain_event` | task, plan with a status and evidence per node, current node, blockers, next action, number of the last event | one pure function for seven event types; `from_dict` validates what is read back |
| `JsonlDomainEventStore` | one JSONL file | `append` (reads everything, compares the number, writes, flushes, fsyncs), `read_all` |
| `JsonTaskCheckpointStore` | one file per checkpoint number | `save` (temporary file, `os.replace`), `load_latest`, `load_latest_or_none` |
| `JsonReceiptStore` | one file per receipt id | `save` (a stored receipt is never replaced), `load` |
| `DurableTaskSession` | its current state and references to the three stores | `create`, `resume`, `accept_plan`, `start_node`, `complete_node`, `add_blocker`, `resolve_blocker`, `set_next_action`, `record`, `save_checkpoint` |

*Interaction.* A session validates against its own state, reduces, appends, and only then publishes the
new state. `complete_node` stores its receipts before its event. `resume` reads the log, the latest
checkpoint, replays the rest, and then checks the receipts of every completed node.

*Hard.* A crash or a failed write between any two of these steps; a line written in part; two session
objects of one process on the same files, one of them stale; a stale session that saves a checkpoint;
a retry that presents other receipts under ids already stored.

*Correct means.* The log is numbered without gaps; no session shows, and no checkpoint holds, a state
that is not the one after a prefix of the log; a completed node has its evidence on disk; nothing runs
before its dependencies; what the runtime wrote it can resume from, into the state after the last
event; seen from outside, a task is a board on which crashes are invisible.

### 1.2 The agent loop (`runtime/loop.py`, `runtime/state.py`, `runtime/actions.py`, `runtime/model/response.py`)

*State.* `AgentState` (status, step, messages, final answer, verification history, tool history) and the
locals of `run` (the context, the attempt, the response, the pending tool calls).

*Operations.* Per turn: build the context, compact it if the budget says so, request a response (with
retries), handle its items in order, run its tools in order, stop when completed. Cancellation arrives
at any await. Any other exception ends the run as failed. The trace is written throughout.

*Interaction.* It calls the model provider, the compaction policy (which may call a summarizer), the
retry policy, the approval policy, the tool runtime, the verifier and the trace writer.

*Hard.* Cancellation while a tool runs; an exception between the execution of a tool, its record and its
result message; a rejected answer among texts; the two limits of the retry policy; failure of the
trace while a failure is being handled.

*Correct means.* Each call gets exactly one result before the model is asked again; no call is handed to
its tool twice; an answer counts only by its own passing verdict; retries stay within both limits; the
run ends, says so once, and does nothing afterwards.

### 1.3 Context, budget and compaction (`runtime/context.py`, `runtime/budget.py`, `runtime/policies/compaction.py`)

*State.* None: pure functions from the messages to the request, except for the awaited summarizer.
*Operations.* `group_context_units`, `ContextBudget.evaluate`, `SlidingWindowCompaction.compact`,
`FullSummaryCompaction.compact` with its fallback.
*Hard.* Grouping a batch of calls with its results; boundaries of the target and of `min_recent_units`;
every way a summarizer can fail.
*Correct means.* The request is the instruction, the task, perhaps a summary, and a suffix of the
conversation that contains the latest units; it has no half of a tool interaction; it fits the target
unless what must be kept does not; and the window is as large as it can be.

### 1.4 The Responses provider (`runtime/model/openai_responses.py`, `runtime/model/response.py`)

*State.* The locals of one `generate`: the stream, `stream_completed`, the completion, the output items by index.
*Operations.* Connect, read events until the stream ends, close it in the `finally` block if it was left early, parse the output into the
items the loop handles.
*Interaction.* The agent loop awaits `generate`, and `ModelRetryPolicy` reads whether its error is marked retryable; the SDK's
stream raises its own and the connection's errors.
*Hard.* Events late, repeated or out of order, or for other items than the completion lists; data of another type than the parser
expects; a failure before, between and after them; cancellation while
connecting, reading and closing, where the close is shielded and goes on in the background.
*Correct means.* What reaches the loop was completed and has the form the loop relies on, with the calls and the answer of the
completion where the events agree with it; well-typed data ends in a response or an error of the provider; a stream left early is
closed; only what is incomplete is asked for again.

### 1.5 Tools, approval, sandbox and verification (`runtime/tools/`, `runtime/policies/approval.py`, `runtime/policies/loop_detection.py`, `runtime/sandbox/`, `runtime/verification.py`)

*State.* The workspace; one process, and with docker one container, per command; `tool_history`. The
policies and verifiers themselves keep none.

*Operations.* A call passes the approval policy (deny, require approval, allow), is looked up in the
registry, and reads or writes a file or runs a command; its execution is recorded and the detector looks
at the last ones. A command is launched, awaited under a timer, and on a timeout or a cancellation killed,
with `docker rm --force` for its container. An answer is checked by a list of verifiers, over a file and by
a command through the same sandbox.

*Interaction.* The loop awaits tool and verifier; both await the same `SandboxRunner.run`; the docker client and
the docker daemon go on when their coroutine does not.

*Hard.* Timer, caller, child, pipes, client, daemon and `rm` act in any order; a handler may itself be
cancelled; killing a process that has just ended raises; a command may write to the workspace long after its
call has returned.

*Correct means.* A command that hangs does not keep the run; a result comes after its container is gone; an interrupted container is
removed; the workspace changes only by a call or a command that its owner has allowed, and a command
that may still write then is one the run awaits or knows to have outlived its result; an answer is accepted only as verified; the detector counts right.

### 1.6 The other components

| component | state | operations, and what is hard about them | here |
|---|---|---|---|
| `policies/retry.py` | none | decides a retry by error kind, attempts and tokens; delay. Off-by-one at the limits | the decision is in AgentLoop |
| `trace.py`, `events.py` | files | append; may raise | may raise anywhere |
| `summarization.py` | none | a model call with a budget | a summary of some size, or a failure |
| `memory.py` | none | a retention decision table; nothing calls it | left out |
| `policies/tool_output.py` | none | truncates texts | left out: text |
| `observer.py` | none | statistics for the trace | left out: not read back |
| `cli.py`, `__main__.py`, `model/fake.py` | none | construction of objects, a test double | left out |

## 2 Modules and code

| module | what it models |
|---|---|
| `PlanGraph` | what a valid plan is: unique ids, known dependencies, no set of nodes that all wait for each other; and the textbook reachability definition |
| `TaskPlan` | `TaskPlan.__post_init__`: the checks, then one action per round of the peeling loop |
| `TaskReducer` | `DurableTaskState`, the events, `reduce_domain_event` (`CanReduce` is where it does not raise, `Reduce` what it returns) and `from_dict` (`Deserializable`) |
| `TaskBoard` | the abstract specification of a task: accept a plan, start a node, finish it |
| `DurableSession` | the session with its three stores: calls begin (`Create`, `Record`, `Complete`, `SaveCheckpoint`, `Resume`), proceed (`SaveReceipt`, `AppendEvent`, `AppendRefused`, `Publish`, `ReplayEvent`, `FinishResume`), and fail (`AppendInterrupted`, `CreateFails`, `CallFails`, `Crash`). Extends TaskReducer; refines TaskBoard |
| `Selection` | what a list comprehension with a condition selects: the values at some positions, in order |
| `ContextWindow` | the pure functions of context and compaction. `group_context_units` is its outer loop (`Indices`, the value of `index` after each round), whose body is `next_index`; its two inner loops are `Skip` |
| `ModelResponse` | the items of a response and what `ModelResponse.__post_init__` admits: what the provider and the loop agree on |
| `AgentLoop` | one run of `AgentLoop.run`. Extends ContextWindow and ModelResponse |
| `ResponsesStream` | one `ResponsesModelClient.generate`: `Connect`, `ReceiveItem`, `ReceiveCompleted`, `EndOfStream`, its failures (`ConnectFails`, `ReadFails`), `Cancel`, and the `finally` block (`Leave`, `Close`, `CancelClose`, `CloseInBackground`). Extends ModelResponse and Selection |
| `SandboxRunner` | one `DockerSandboxRunner.run` or `HostRunner.run` with its child process, the docker daemon, the container and `docker rm` |
| `ToolCalls` | the calls of a run over one file of the workspace: approval, file and shell tool, detector, verification. Extends SandboxRunner, through which its commands go |
| `MCTaskPlan`, `MCDurableSession`, `MCAgentLoop`, `MCResponsesStream`, `MCToolCalls` | instances for TLC |
| `CommonLemmas` | induction, recursion and selection, for the proofs |
| `TaskPlanProofs`, `DurableSessionProofs`, `DurableEvidenceProofs`, `AgentLoopProofs`, `AgentRequestProofs`, `ResponsesStreamProofs`, `ToolCallsProofs` | theorems |

**DurableSession.** `log` is the sequence of events whose JSON is completely in the file, `lastLine` how
the file ends: whole, an event without its newline (which `read_all` accepts), or something it does not
accept. `checkpoints` and `receipts` are the files of the two other stores, `session[h]` is
`_state` of the session object h, `call` is the one call in progress with its local variables. `history`
is auxiliary: the state after each event; `HistoryIsReplay` says that it is what
`replay_domain_events` (`ReplayDomainEvents`) gives on the log. A call's steps are the points where a crash or a failed write makes a
difference: each receipt file, the append, the publication of the state, each replayed event. Sessions
are not closed: a handle stays open until the process dies, so several of them, at different states, is
the normal case.

**AgentLoop.** `pc` is where `run` stands. An await is a value of `pc` of its own (`summarize`,
`generate`, `backoff`, `verify`, `tool`); cancellation is possible there, and only there. `recorded` is the point
between the record of a tool's execution and its result message, `verdict` the one between a
verdict and its effect. `executed` is a history of the calls handed to a tool, `stops` counts the
`agent_stopped` events. A message's id is its position, and a call's id is the id of its message: call ids
are taken to be unique.

**ResponsesStream.** `stream` is what the code can observe of the SDK's stream; the SDK closes one that was read to its end. `completed` is
the response of the last `response.completed`: its `output`, and whether id and usage are `usable`. A null response counts as none, an output
that is null or cannot be enumerated is `None`. Items are kept apart as far as `_response_items` tells them apart: a `malformed_call` gives a protocol error, an `ill_typed` item
(arguments, summary or content of another type) and one that is `no_object` give whatever Python raises (`ParseRaises`), which
`generate` does not catch. `outcome` is what
`generate` has decided to return or raise, with the mark the retry policy reads. `closing` says that the shielded `close()` runs without a
caller. Its outcomes are AgentLoop's `Respond` (response), `ProviderFails` (retryable, error), `Cancel` and `Raise` (exception):
AgentLoop assumes of the responses (`LoopAssumption`) the first half of what `ResponsesAreValid` says here, that they are ones `ModelResponse` admits.

**SandboxRunner.** `runner` is where the coroutine stands: `connecting` is the await that creates the child (before the
try block), `communicate` the await under the timer, `waiting`, `starting_rm` and `removing` the awaits of the handlers.
`process` tells a child that has `exited` from one whose transport asyncio has `closed`, because `kill()` raises on the latter.
`request` is what the docker client has asked the daemon for and the daemon has not answered: it answers also when the client is dead.
`background` is what a shell left running, with or without its pipes. `Interrupt` is both
handlers up to their first await, `StopWaiting` and `StopRemoving` go on from there, `Cancel` is the caller at any of the awaits; the
rest (`WorldStep`) is the operating system's and docker's, and external to the repository.

**ToolCalls.** `phase` is where the run is; in `tool` and `verify_command` it awaits the command. Calls of one kind are the same
call, `Allows` is the policy's decision on them; `FailCall` covers every failure that leaves the workspace as it was, and any call of the model
may come next. `recent` is the end of `tool_history`, as long as the detector looks at; `streak` is auxiliary: the
same question answered by counting. `stray` says that a command before the latest still runs: it or the latest may write the file
at any time (`CommandWrites`). `due` and `passed` are the verifier's loop, and `meddled` is auxiliary: a command has written the file since
its content was judged. AgentLoop has the same calls as awaits and looks
at what the conversation makes of them; ToolCalls looks at what they do. That a tool and a
verification return, which AgentLoop assumes, is `CommandsReturn` here.

**Variants.** Some modules define, just before an operator, one or two *variants* of it: the operator as a
plausible slip would write it. Nothing uses them; substituted for the operator, each makes a property
fail, which is how it was established that every property can fail.

## 3 Runs

`tlc -config X.cfg M` in this directory. All runs together take a few minutes.

| run | instance and bounds | what it shows |
|---|---|---|
| durable_safety (`MCDurableSession.cfg`) | 2 session objects, 2 task ids, a chain of two nodes (the first with acceptance criteria) and a cyclic plan, five receipts under two ids, 1 blocker, no call begins once there are 6 events, 1 checkpoint. 297,000 states | the whole task with crashes, interrupted writes and a stale object: numbering, durability of published states, evidence, order of nodes, resumability, immutable receipts, history as a replay, refinement of TaskBoard |
| durable_recovery (`MCDurableRecovery.cfg`) | 2 checkpoints, a workspace revision, next actions, two independent nodes, 4 events. 261,000 states | checkpoints in any order of saving, by fresh and stale sessions, hold what they claim; a session opens with the state after the last event |
| plan_validation (`MCTaskPlan.cfg`) | every dependency assignment on up to three nodes, duplicate ids, unknown and self dependencies | the peeling loop ends and accepts exactly the acyclic graphs, by two definitions of acyclic |
| agent_loop (`MCAgentLoop.cfg`) | 3 turns of four kinds, up to 3 attempts within 12 tokens, both with and without a verifier, trace failures. 39,000 states | the bookkeeping of a run under retries, refusals, failures, cancellation and verification; the run ends |
| compaction (`MCCompaction.cfg`) | both policies, 3 turns, small and large results, trigger 6, target 5. 333,000 states | the request is a whole, fitting, largest view |
| responses_stream (`MCResponsesStream.cfg`) | output indexes 0, 1, 2 with any item at each, in any order and repeated; completions with a list, with a null one and with none, with items the parser refuses and items it raises on, with usage that cannot be read. 71,000 states | only valid responses of completed streams reach the loop, with the calls and the answer of the completion where the events agree with it; well-typed data gives a response or an error of the provider; a stream left early is closed |
| tool_calls (`MCToolCalls.cfg`) | runs without a bound on their length, three policies, the verifiers ⟨file⟩ and ⟨file, command⟩, host and container, a threshold of 2, up to 2 cancellations of each command. 1,439,000 states, under three minutes | a result means that the container is gone, an interrupted one is removed, every command returns; whoever writes the file is a granted call or an approved command that is known to run still; a completed run is a verified one; the detector counts streaks |
| torn_append, scattered_calls, completed_dropped, cancel_swallowed, container_left | as above, the last two with one policy and no verifier | the disagreements of section 6 |

*Why the bounds are enough.* Durable: six events are a full task of two nodes (create, accept, start,
complete, start, complete), so every event type occurs at every state it is possible in; a blocker
displaces one of them. Two objects are enough for one to be stale and one to be current, and one
receipt id can be presented with two contents. The recovery run has two checkpoints, so that a stale
session's checkpoint can follow a newer one. Loop: two calls in a turn are enough for one to be done and one to be
pending, three turns for a rejected answer between others, and 12 tokens are so few that the
token budget rather than the attempts ends some retries (a context of 5 tokens cannot be sent
three times). Compaction: at trigger 6 some second turns and nearly all third ones are compacted, results of 3 tokens
make units that do not fit, and a batch of two calls can be the unit at the edge. Stream: three items are a text, a call and
another text in any order, which is what the choice of the final answer depends on. Tool calls: every state space of
commands is reached from any turn, so the length of the run needs no bound; one file with three contents tells a required content from
a missing and from a wrong one; two cancellations are one that interrupts and one that interrupts the handler, and a third finds
no await; a threshold of 2 has a window that is too short, full and moving. The three policies are one that allows nothing,
and two in which a tool is allowed and the other is denied although it is allowed. `CHECK_DEADLOCK FALSE` is set
where the system stops legitimately: a run or a request that has ended, a validated plan, a
caller that begins no further call once the bound on events is reached.

*Names of the bounds.* `MaxEvents` and `MaxCheckpoints` bound the beginnings of calls in DurableSession, and `MaxCancels`
how often the caller cancels one command; they are not in the code. `MaxSteps`, `MaxAttempts`, `TokenBudget`, `Trigger`, `Target`,
`MinRecentUnits` and `Threshold` are parameters the code has.

## 4 Fairness

- TaskPlan: `WF(Next)`. It is a loop of a single thread that waits for nothing.
- DurableSession: none. Its calls are straight-line code and loops over finite lists, so that they return needs no check;
  every property is a safety property, and holds wherever a call stops.
- AgentLoop: `WF(LoopStep)`. Each await ends: the provider's client has a timeout, the shell and the verifiers return (`CommandsReturn`), the backoff is a sleep, and the
  retries are bounded by `max_attempts`. That a
  *custom* tool or verifier returns is an assumption. Cancellation and exceptions are not fair: `RunEnds`
  does not rest on them.

- ResponsesStream: `WF(Close \/ CloseInBackground)`. A close that has begun ends. The server need not send
  anything, so nothing is said of requests that wait.
- ToolCalls: `WF(RunnerTurn)`, `WF(Returns)`, `WF(RemoverTurn)`. The event loop goes on, the timer of `wait_for` fires, `process.wait()`
  ends once the child has (as it does since CPython 3.12.5 also when a descendant holds the pipes), a coroutine that ended returns to
  its awaiter, and a `docker rm` ends. Nothing is assumed of commands, of the docker client or daemon, of the
  caller or of the model: `CommandsReturn` holds for a command that never ends and a daemon that never answers.

## 5 Proofs

`tlapm M.tla` checks each module. The theorems hold for every value of the constants that satisfies the named
assumptions (`NodeListsAssumption`, `ReceiptsAssumption`, `PlansAssumption`, `NoneAssumption`,
`NoneIsNoState`, `WindowAssumption`, `LoopAssumption`, `StreamAssumption`, `CancelsAssumption`, `ToolsAssumption`): these only give the constants their types, say that `None` is not one of the
identifiers, that responses are ones `ModelResponse` admits, and that the detector's threshold is at least 2, as its constructor demands. TLC evaluates them in every run.

**CommonLemmas.** The library's induction theorems take a predicate as an operator, which no backend can instantiate. Here a predicate is the
set of numbers that satisfy it, and a set of numbers that is not empty has a least one because `<` is well-founded: `UpwardInduction` and
`DownwardInduction` are what the other modules need of induction. `RecursionExists` says that a function defined by recursion over numbers, with its step given as
a function, has the values its equation says: without it nothing can be proved of such a definition, since it is a CHOOSE. `NthIsMember` to `SelectedInterval` are about list comprehensions.

**TaskPlanProofs.** `AcceptedPlansAreValid`, `RejectedPlansAreInvalid`, `PlanTypeCorrect`. The invariant
is `DeadlockedSetsStay` (stated in this module): a set of nodes that all wait for each other is never peeled. When
`remaining` is empty there is no such set, so the graph is acyclic; when no node is ready, `remaining`
itself is one. `VerdictsAreTextbook` is that no set deadlocks exactly when no node reaches itself (`CyclesAreDeadlocks`): the nodes from which a node
on a cycle can be reached are a deadlocked set; in a deadlocked set, a node that reaches the fewest of its members depends on one that reaches no fewer,
hence the same ones, itself among them.

**DurableSessionProofs.** First the reducer: it preserves types (`ReduceType`) and soundness (`ReduceSound`: dependencies first,
current node is the one running, plan valid, hence deserializable), and makes a step of the board or none (`ReduceOnBoard`). Then `LogIsNumbered`, `SessionsShowDurableStates`, `CheckpointsHoldDurableStates`,
`SessionTypeCorrect`. The properties alone are not inductive: that a published state is durable depends on
what the call in progress is about to publish. `LogInv` therefore says how `history` follows the log event by event,
and that every state in use (published, saved, about to be published, being replayed) is the one `history` has under its
own number, and that the event being appended is the next of its session. The comparison of numbers in `append` then makes
it the next of the log, also when the session is stale: its number would not match. `HistoryReplaysLog` goes along the log: `history`
begins with the initial state and each entry is the reduction of the one before, which is the equation of `ReplayDomainEvents`.

**DurableEvidenceProofs.** `CompletionsAreEvidenced`, `ReceiptsStayAsStored`, `DependenciesAlwaysComeFirst`,
`EveryStateDeserializes`, `ResumeAccepts`, `OpenedSessionsAreUpToDate`. `EvidenceInv` adds to LogInv that a
completion on its way names receipts that vouch for the node and are stored or queued; the queue is empty when the event is appended, and stored
receipts do not change.

`SessionImplementsTaskBoard`: under the mapping of the last history state to
`graph`, `running`, `done`, an append is a board step (or a stutter), and everything else a stutter.

**AgentLoopProofs.** `AnswersStayVerified`, `RetriesAreBudgeted`, `RunsEndOnce`, `NothingFollowsStops`. `LoopInv` adds to the
properties, per position of `run`, what is known there: while the run can ask, there is no answer and all
verdicts are negative; after an accepted answer the rest of the response has no second one (this uses
`ModelResponse`'s check); a wait before a retry means that the retry was allowed; and before the end nothing has been announced, except the
announcement that itself could not be written.

`ToolsAreRunOnce`. A call's id is the position of its message, so "in order, and not twice" is that `executed` and
`tool_history` increase. `ToolInv` places both before everything in `pending`, except while a call is being worked on
(`pc` is `tool` or `recorded`), when the head of `pending` is their last element, and places all of it within the conversation, so
that a new call comes last. A run that fails or is cancelled while a tool runs leaves exactly that last call unrecorded.

`ConversationStaysClosed`. On top of `ToolInv`, `ClosedInv` says that a call is either pending and without a result, or not pending
and has exactly one, behind it; that calls and results alternate in batches, in which the calls of the response being
read come after every result; and that the verdicts and the messages that tell them are equally many, but for the one verdict not told yet. At the points where
the model is asked nothing is pending (`TurnsEnd`), so every call has its result. Nothing is said of a run that is ending: it may leave calls open.

**ToolCallsProofs.** `ContainerEndsFirst`, `AnswersAreChecked`, `OnlyKnownWriters`, `DetectorCountsStreaks`, `TypeCorrect`. `SandboxInv`
relates the request the daemon has in hand to the container (`RequestsInOrder`), and what the coroutine knows to both: a child that ended by itself was a
client whose container is gone, and from its end on none can come (`CommandInOrder`). `PhasesInOrder` adds that whatever was ever
launched had been approved, and what each verifier that has spoken found: of the file, unless it was `meddled` with since.
`OnlyKnownWriters` is an action property: `CommandInOrder` also says what a result leaves behind (nothing that can write after a result the command
gave itself; a container only while `rm` has not ended, since a container that `rm` has missed is never started), and
`LateWriterOutlives` concludes that a command that can write and is not awaited is one that `Outlives` names or an earlier one (`stray`). `StreakInv` says that `streak` is the length of the failure
streak at the end of `recent`, cut off at its length; one more execution keeps that, so the window and the count agree.

**ResponsesStreamProofs.** `ResponsesAreComplete`, `ResponseTypes`. `ParsedIsValid` is about the parser: if it neither raises nor fails, it makes a valid response, the positions of the tool calls in it
are those of the calls in what it kept, and the last text is the answer if there is no call. `OutputIsCompleted` is where the events
come in: when they agree with the list of the completion, sorting their items by index gives that list. `WellTypedIsParsed` is that the parser
raises nothing on well-typed data. `Inv` adds what the state of the stream
says about `completed` where `generate` stands: a response is decided only after the stream was exhausted, and it is the parsed `Output`.

**AgentRequestProofs.** `RequestsAreViews`, `RequestsFit`, `WindowsAreLargest`, `RequestsAreWhole`, `LoopTypes`. The first part is about the
functions of ContextWindow. Every list is cut into units in one way: a sequence of boundaries, each the `next_index` of the one before, from 1 to the end, is
the one `Indices` computes, and conversely. So the units are consecutive intervals that cover the list, and a suffix that begins at a boundary
is cut into the last of the units of the whole. What the sliding window keeps is then a suffix of the conversation with a number of units, and the
largest such number whose tokens fit. The second part is the loop: `RequestInv` says that from the moment the context is built until the response arrives, the request is one of the three things that compaction makes of the
*present* conversation, which nothing changes while a summary, an answer or a backoff is awaited.

`RequestsAreWhole` has the hypothesis `CallsComeLast`: in every response the calls come after the other items. `ModelResponse` does not demand it, though every response in the repository's tests
is like that; without it the property is false, as scattered_calls shows (section 6). The inductive part is `BatchInv`:
each result has its call in the same batch (adjacent calls, then results of these calls only), and the batch of the
pending calls is the end of the conversation. A boundary never falls inside such a batch, so the dropped part and the kept part
each have calls and results together; that each call has a result at all is `ClosedInv`. TLC found both invariants to hold on the configurations of agent_loop and compaction before they were proved.

**Only model-checked.** Liveness: `ValidationEnds`, `RunEnds`, `StreamIsClosed`, `InterruptedIsRemoved`, `CommandsReturn`; they rest on fairness,
hence on ENABLED, which this version of the proof system does not support. Every invariant and every action property that a passing run checks is a theorem. That the sum of tokens, the units and the replay, which are recursive functions,
are what their equations say is proved from `RecursionExists`, not assumed.

## 6 Disagreements found

Each has a run that violates the property named.

1. **torn_append** (`durable.py:534`). When a write is interrupted after the JSON but before its newline, the event counts
   as appended. The next append writes behind it on the same line, succeeds, and the log cannot be
   read any more. `AppendedIsReadable` fails. Everything of section 5 still holds: nothing wrong is ever
   read, but nothing is. `docs/session-learning-notes.md:194` names the repair of the tail as not done; what the run shows is that
   a tail that could still be read becomes unreadable by an append that reports success.
2. **scattered_calls** (`context.py:58`). A text between two calls of one response, which `ModelResponse` allows, separates a call from its
   results; the window can keep a result and drop its call. `RequestIsWhole` fails.
3. **completed_dropped** (`openai_responses.py:110`). The completion is looked at only after the end of the stream. A connection that breaks in
   between drops a complete response and marks the request retryable. `OnlyIncompleteIsRetried` fails.
4. **cancel_swallowed** (`docker.py:142`, `host.py:38`). A cancellation that arrives when the command has just ended makes `kill()`
   raise; the tool reports a failed launch, and the run goes on uncancelled. `CancelIsHonoured` fails.
5. **container_left** (`docker.py:121`, `:133`). A cancellation before the try block, one during the handler, or a daemon that is
   still creating the container when `rm` asks for its removal: the container stays. `ContainerIsRemoved` fails. What does hold is
   `InterruptedIsRemoved`, with these cases taken out.

Met while modelling, and without a run:

- `create` demands an empty log, not an empty checkpoint directory (`durable.py:689`). A new log next to old checkpoints of
  the same run id makes `resume` mix the two.
- The public `record` completes nodes without any receipt (`durable.py:815`), and a later `resume` is refused.
- `create` takes any task id that is not empty, `ResumeRequest` (`durable_contracts.py:331`) and receipts only safe ones: a task with
  a blank in its id can be created and never resumed.
- `generate` lets exceptions of the parser through that are not errors of the provider: `_tool_call` catches `KeyError` and
  `JSONDecodeError` only (`openai_responses.py:229`), so arguments that are null or an object raise a `TypeError`, as do a null summary (197), content (209) or output
  (132); an item that is no object (190) or a usage of another type (146) raises too. `docs/design-notes.md:217` says that the provider first turns
  errors into a `ModelProviderError`. `ResponsesAreValid` therefore promises a response or an error for well-typed data only.
- Once an event has brought an item, the list of the completion is not looked at (`openai_responses.py:130`): an item whose event
  was lost is missing from the response, without an error. `ResponsesAreValid` speaks of the calls only when the events agree with the list.
- `create` appends its event before the constructor compares the receipt store's run id (`durable.py:703`). With a store of another run it raises and leaves a
  log on which `create` can never succeed; `resume` with the right store can.
- The handlers of `run` write the trace; when that raises, the exception leaves `run` (`loop.py:192`). `EndsOnce` includes
  the related case: a completed run whose last event cannot be written becomes a failed run with a final answer, and announces its
  end twice.
- The approval policy and the file tool raise on arguments of another type, and the runners on a command with a NUL character:
  this ends the run, where a failed result would let it go on (`CallRaises` in ToolCalls).
- A timeout that comes when the command has just ended makes `kill()` raise as above: a command that completed is reported as one that could not be launched.
- `write_text` truncates before it writes: a write reported as failed has destroyed the content (`WriteFile`).

## 7 Abstractions, and what is left out

- One process, one call at a time: the code has no locks and no threads here, and its document names a single
  writer as the scope (`docs/durable-event-log.md:29`, `:102`).
- `os.replace` is atomic and durable at once. Temporary files are invisible to the readers' patterns. A power failure that loses
  a directory entry is not modelled: which ones survive is the file system's choice.
- Event ids are fresh, so the branch of `append` for an equal event is never taken by the session. Timestamps are left out, except as
  `created_at` of a receipt, where two receipts can differ in it.
- Identifiers are model values that satisfy `_validate_identifier`; the other ones are described in section 6.
- Files of other runs, or edited by hand, are outside the model: a checkpoint or an event of another run raises.
- Texts are token counts, and a token count is any small number. Statistics and events other than `agent_stopped` have no effect on the loop and are left
  out; so have the warnings of the loop detector, which are modelled in ToolCalls.
- The trace writer's construction and the first event, before the try block, are not modelled: an
  exception there leaves the caller without a run.
- Summaries are of every size from 1 to their budget; an empty or too large one is the fallback.

- Commands: output, exit codes but for zero, and durations are left out. The docker client waits for its container and the daemon
  answers each request once or never; a client or a daemon that fails in other ways, and other users of docker, are not
  modelled. The children of a shell on the host are one process that may hold the pipes.
- Tools: one file stands for the workspace. Paths, with their resolution and their denied patterns, listing and the rendering of results are left out. `deny` and `require_approval`
  are one refusal, for the loop treats them alike.

## 8 Plan

Done, in this order: PlanGraph, TaskPlan; TaskReducer, TaskBoard, DurableSession; ContextWindow, ModelResponse, AgentLoop;
ResponsesStream; SandboxRunner, ToolCalls; the proofs of all of them.

**Next.** The atomic saves refined to temporary file, write, fsync and `os.replace`, with a power failure between them, and the
classes of identifiers; a composition in which ResponsesStream's outcomes are shown to be AgentLoop's `Respond`,
`ProviderFails`, `Raise` and `Cancel` (today `ResponsesAreComplete` proves what `LoopAssumption` assumes, and the outcomes are matched by hand).

**Not modelled.** `memory.py` is a table of decisions over one record that nothing in the runtime calls; a model would be
the table. `policies/tool_output.py`, `observer.py` and the prompt of `summarization.py` make texts and statistics that no decision
reads. `cli.py` and `__main__.py` construct the objects; `model/fake.py` is a test double. The conversion of the context to the
provider's request is a map of each item. The delay of the retry policy is a number the loop sleeps for.
