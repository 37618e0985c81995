# DevPilot: specifications and proofs

DevPilot runs research on a code base by itself. A coordinator agent (a language
model with tools) grows a tree of ideas, executors try ideas in git worktrees of
their own, good ones are merged into a trunk branch. A Python process serves the
conversations of a project; an Electron main process launches that Python process
and talks to it over stdin and stdout; a window shows the conversations and sends the
user's messages. The clients the repository carries reach their servers through a
supervisor that probes, connects and retries.

This directory holds TLA+ models of the parts of it whose order of steps matters:
what is written before what, who may interleave with whom, what survives a crash.
TLC checks them on small instances. The invariants and the properties of steps that
these runs find to hold, and that the conversation store implements its contract, are
proved for every value of the constants with TLAPS.
Paths below are relative to the root of the repository.

## The system

| component | where | state it keeps | operations | what makes it correct |
|---|---|---|---|---|
| idea tree | `src/coordinator/idea_tree.py`, `tools/tree_ops.py` | nodes (status, attempt, score, code reference), `meta`, `idea_tree.json` | add, update, prune, set meta, propagate insights, save, load | disk follows memory; pruned and finished ideas stay so |
| executor dispatch | `src/coordinator/tools/executor_run.py`, `worktree.py`, `executor_io.py` | the executors of a call, git branches, worktree directories | RunExecutor, ResumeExecutor, RunExecutorParallel, review, classify and record | the cycle cap, the retry bound, one worktree per executor, preserved work, nothing `running` without an executor |
| orchestration | `src/coordinator/orchestrator.py`, `checkpoint.py`, `context_prune.py` | message history, checkpoint, pending question | run, resume, seal an interrupted turn, timeouts | a resumed history is one a provider accepts; the resumed tree has no lost node |
| human gate | `src/coordinator/hitl.py`, `tools/ask_user.py`, `src/events/bus.py` | a future for each question | ask, reply, time out | a reply settles the question it answers, once |
| merge gate | `src/coordinator/tools/git_ops.py` | trunk branch and score, medal | evaluate, compare, merge, promote | nothing worse than the trunk is merged |
| convergence | `src/coordinator/convergence.py` | completion order, signals | on completion | stagnation is counted in order of completion |
| conversation store | `src/sdk/conversations.py`, `src/sdk/runtime.py` | `conversation.json`, `transcript.jsonl`, live handles and their tasks | create, open, list, send, cancel, archive, delete, shutdown | one run at a time; records tell the truth; an outcome is announced once and kept |
| protocol server | `src/desktop_runtime/` | the projects, the call in progress | one request after the other from stdin | every request is answered; shutdown settles every run |
| runtime client | `apps/desktop/main.cjs`, `packages/devpilot-runtime/src/desktopRuntimeClient.cjs` | the child process, promises by id | launch, request, time out, terminate, close | one process; every promise settles; a stopped process exits |
| window's store | `apps/ui/sources/devpilot/domain/store.ts`, `apps/ui/sources/config/devpilotLocalConversation.ts` | the conversations, messages and selection that are shown, loading flags | initialize, refresh, open a folder, select, send, cancel, apply events | a late answer mixes up no conversations; what is sent goes to the conversation selected when the send begins; no loading flag is left behind |
| connection supervisor | `packages/connection-supervisor/src/createManagedConnectionSupervisor.ts` | phase, transport, generation, retry timer, start in flight | start, probe, connect, lose, report, retry, stop | offline is always retried; nothing of an earlier attempt acts but a retry of the transport's own error; a stop is final |
| server reachability | `apps/ui/sources/sync/runtime/connectivity/serverReachabilitySupervisorPool.ts` | a supervisor and a token for each server | wait, start, invalidate, report, stop | the server is asked with the token there is |
| ACP server | `src/sdk/acp.py` | sessions | prompt, cancel | the answer of a cancel agrees with that of its prompt |
| agent loop | `src/core/agent.py`, `context.py` | messages, turn count | call the model, run tools, heartbeat | a cancellation ends it |
| research view | `packages/devpilot-research/src` | the state the user interface shows | fold runtime events | order of events does not corrupt it |
| tools, providers, learning, search agents, presentation, vendored shell | `src/core/tools`, `src/core/llm`, `src/core/learning`, `src/search_agent`, `src/cli`, `apps`, `packages` | external | I/O | |

(`src/coordinator/...` is `src/src/coordinator/...` from the directory that holds
this repository as `src`; `PROJECT.json` has the full paths.)

How they interact:

- The main process writes JSON lines to the server's stdin and reads answers and
  runtime events from its stdout. The server handles one request at a time; a
  request that awaits (a cancel, a shutdown, a login) holds up all others.
- The server calls the conversation store. A message starts an asyncio task for
  the run; that task awaits the task of the coordinator. Calls, run tasks and
  coordinator tasks share one event loop and interleave at every `await`.
- The coordinator's agent calls tools. Tools that write run one at a time, so the
  concurrency is inside of a call: the human it waits for and the executors it
  gathers. The tools share the tree, git and the directory of worktrees.
- The conversations of a project share its working directory, and with it the branch
  that is checked out there, which a merge changes and restores.
- The window asks the main process, which passes requests on and answers back; events
  come by a way of their own, so that answers and events overtake each other.
- A request of the user interface waits in the pool for the supervisor of its server and
  reports to it what it met with.
- Everything that outlives a process is in files (`idea_tree.json`,
  `conversation.json`, `transcript.jsonl`, the checkpoint) and in git.

What is hard: a process can be killed between any two writes; cancellations land
at any await, and may be lost; a human answers between a check and its use;
several executors work on one repository; a child process dies while requests and
a shutdown are pending; a timeout races a late answer; the user selects something else
while an answer is on its way; a connection is given up, stopped and started while probes
are under way. `PROJECT.json` lists each
of these under `hazards`, at its line, with the properties that speak of it or the
reason why none does yet.

## The modules

| module | models |
|---|---|
| `IdeaTree` | the tree as a function from ids to node records, with the pure operators of `idea_tree.py` |
| `ExecutorDispatch` | the coordinator's tools on the tree, executors, worktrees and branches, human review, crash and resume |
| `MCExecutorDispatch` | its instances: task lists and manual updates offered |
| `ExecutorDispatchProofs` | in four parts: attempts, ownership of running nodes and what a resume finds; the cycle cap without reviews; worktrees and branches; what no step undoes |
| `ConversationContract` | what the store promises its clients: the state it reports of each conversation |
| `Conversation` | store, runs, cancellation, shutdown and death of the process; implements the contract |
| `MCConversation` | its symmetry |
| `ConversationProofs` | records, replies and outcomes, and that the store implements its contract |
| `DesktopRuntime` | the main process and the Python processes it launches |
| `DesktopRuntimeProofs` | one process, nothing waits for one whose end is past |
| `HumanGate` | a question to the human: reply threads, timer, panel, pending question, checkpoint |
| `MCHumanGate` | its instance: reviews of two ideas, one of them twice, and a question about none |
| `HumanGateProofs` | replies stay with the idea they are about, no question outlives its wait but by a reply written for another one |
| `MergeGate` | evaluate, compare and merge: git's HEAD and merges, evaluation directories, scores and medal |
| `MCMergeGate` | its instances: scores below, at and above zero |
| `MergeGateProofs` | the gate, the medal, and, with one run at a time, what git's failures leave behind |
| `MessageHistory` | the coordinator's message history: agent loop, compaction, checkpoint, resume, follow-up |
| `MessageHistoryProofs` | calls keep their results, the model is asked after a user turn, nothing is forgotten |
| `DesktopStore` | the window's store with the calls of a session view, and the server as the window sees it |
| `MCDesktopStore` | its instance and symmetry |
| `DesktopStoreProofs` | selection, messages and flags, from one inductive invariant |
| `ManagedConnection` | the connection supervisor: starts, probes, retries, reports, stops |
| `ManagedConnectionProofs` | offline is retried, the phase is true, connections stay |
| `ServerReachability` | the pool on top of that supervisor: callers, their tokens, the application in the background |

Operators whose name begins with `Faulty` belong to no specification. Each is a
plausible bug of the operator it stands before; putting it in that operator's place
must break the property `PROJECT.json` pairs it with.

### ExecutorDispatch

`tree` and `gold` are the tree in memory, `disk` is `idea_tree.json`. `tool` is the
write tool in progress: idle, waiting for a human (`add`, `review`, `reviewAll`), or
dispatching. `execs` are the executors of the dispatch by task, each with a program
counter that names the await it stands at: `clearing`, `adding` and `again` (git), `running`
(the agent), `parsing` (the report). `branches` and `worktrees` are git's.
`stray` is a history variable: nodes set to `running` by a manual update, or left
so by an exception.

- `RunExecutor`, `ResumeExecutor`, `RunExecutorParallel` have the guards of the three
  `execute` methods. `Dispatch` is `asyncio.gather` up to the first await of every
  task: all nodes are marked in one step. `Launch` picks attempt, start point and
  branch, `Refused` is a task `_validate_dispatch` turned down.
- A parallel call keeps its order: two truncations (`Truncated`), the check of every
  task (`Admissible`), the reviews one by one, then the dispatch, which validates
  again, less strictly.
- `ClearWorktree`, `AddWorktree`, `TryAgain`, `WorktreeFailed` are `_create_worktree` with
  its two tries. Each may fail for any reason (the branch exists, the start point does
  not, git refuses), or be killed at its timeout with the branch made, and its directory
  or not; after any failure of the first, the second takes a stamped name.
- `CloseWorktree`, `Record`, `ParseRaised` are the end of a run. What a report names as
  `code_ref` is any string: the own branch, that of another executor, the trunk, or a
  name git does not have (`ReportedRefs`).
- `Save` is `tree.save()`; every mutation but the medal of `GitMergeBranch` ends in it.
  A merge may set the medal and may clear it (`Golds`).
- `Crash` stands for a kill, a cancelled run and the emergency timeout; `Resume` for
  `_initialize_tree` with `--resume`.

What the model decides (which tool, which node, what a report says) is free, since
nothing in the code restrains it.

### Conversation

`disk` and `transcript` are the two files of a conversation, `mem` the record of a
live handle, `job` the run's task together with the coordinator's task it awaits,
`call` the client's call in progress, `events` a history of the run events. A step
ends at an await. `TearDown` is the end of `asyncio.run`, which cancels what is left: a
run whose coordinator is done and that has not been resumed yet ends as cancelled. `RunResumes` is the rest of `_run` after its await and `KillInSend`,
`KillInFinish` are deaths between the writes of a step. `SwallowCancel` is
`Agent._heartbeat`, which catches the cancellation of its own task together with
that of the pulse it awaits. With `Embedded` the SDK is called by another program
on the same loop, one call at a time, so that a call can come before a task
that was just created has run; the server's thread leaves no such gap.

`KeepsContract` is the refinement of `ConversationContract`, with what
`conversation.list` would report (`Reported`) for its `status`.

### DesktopRuntime

A step is one callback of the main process with the continuations it resolves, or
one step of a Python process. `runtime`, `starting` are the two variables of
`main.cjs`; `proc` is the operating system's view, `exitSeen` the main process's;
`pending` holds the ids whose promise is open, per client; `inbox` and `outbox` are
the pipes. `main` says that the main process runs. It may end at any moment
(`MainEnds`): `before-quit` takes the step of `Stop` and waits for nothing, so the timers
of `close()` may never fire; what is left of the runtime is then the server, whose input
ends. A timer that is set may fire at any moment. `ExitEvent` comes at any time
after the death, before or after the output that is left. The requests that waited for a
launch are written in any order, since the order in which they came is not recorded.

### MessageHistory

`messages` is the list of the agent, `saved` is `messages.jsonl`; `started` says that
`idea_tree.json` exists, which decides between a fresh run and a resume. A message has
a role, the call it makes or answers, and marks for what is special about it. The
calls of one turn are one call here: `_execute_tools` runs all of them before the loop
appends all results as one message. `at` is the await the run stands at, and `top` the
head of a turn, where nothing else can run but the process can die.

- `BeginTurn` appends the user's notes and does what `maybe_compact` decides; its
  first three layers shorten results and keep every block, so they are no change here.
  `SummaryDone` is the rest after the await of the summary, with both outcomes, and
  with the emergency truncation or without it. `AskModel` saves through the checkpoint
  hook and asks.
- `CutOff`, `CallTools`, `Premature`, `FinalAnswer` are the four ways the loop treats an
  answer, `LlmRetry`, `LlmSummarize`, `RetrySummarized`, `LlmFailed` those it treats an
  error. `ToolsDone` appends the results.
- `EmergencyTimeout` is `wait_for` around the agent; `Finish` the shutdown checkpoint.
  `Killed` is also a run cancelled through the SDK: its checkpoint has no messages.
- `Sealed`, `Nudged` are the two repairs of a resume, `FollowUp` the message the
  desktop writes into the file before it resumes.

The marks name what the code leaves open, and the properties except exactly that: a
call in an output that was `cut` is never answered, a result at the `seam` of a
compaction may have lost its call, and a call that was the end of the file when a
`followUp` came is not sealed. `NativeCalls` says that the provider keeps calls in its
own format, one choice for the life of a history. `ran`, `gone` and `lost` are history
variables: results that were in the history, dropped by compaction, lost with a
process.

### HumanGate

A question is a number; `About` gives the node it carries. `at` is where the coordinator
stands, between two questions or in `await_user_decision` (`subscribed`, then `waiting`).
`pending` is `_pending_user`, `panel` the gate the user interface shows, `saved` the
`pending_user` of `checkpoint.json`. Each member of `Channels` is a thread: it looks at
the panel (`Write`), takes its time, and runs the subscribers of the bus one after the
other: it lists them (`Emit`), the orchestrator and the panel forget their question
(`Clear`), and the handler of `hitl.py` looks at the node and hands the reply to the event
loop (`Handle`, `Resolve`). Terminal, browser and companion take the same steps. `TimedOut`
may win against a future that has just been set, as it does from Python 3.12 on.
`outcome` and `meant` are history variables.

### MergeGate

`head` is the branch checked out in the project's working directory, which all its
conversations share, `unmerged` says that a merge with conflicts is in progress there, and
`merged` what git merged into which branch. `dirs` and `entries` are the evaluation
directories and what git knows of them; the directory is named after the branch. Each run
has a `pc` that names the await it stands at, a `job` (the locals of
`GitMergeBranchTool.execute`), and `meta` and `saved`, the metadata of its tree in memory
and in `idea_tree.json`.

- `Start` is the preflight with the checkout of the trunk. `TreeSetMeta` and `SaveTree`
  are the other tools: the first sets metadata, any of them saves the tree.
- `CallMerge` is `execute` up to its first await: the target, the refusal of protected
  branches, and whether an evaluation is due. `Prepare`, `Evaluate`, `Clean` are
  `_run_eval_in_worktree` with its retries and its `finally`; `Judge` compares the score
  with that of the trunk.
- `Refuse` is a guard of the plugin, `ReadCurrent`, `Checkout`, `GitMerge`, `Abort`, `Back`,
  `Finish` the git steps. Each command either succeeds, or fails and changes nothing, or is
  killed by its timeout after it did its work; a `git` whose result the code ignores may
  do any of these. `GitMerge` may land and yet be reported as a failure.
- `Stop` is the end, the cancellation or the death of the run at any await. `Tidy` and
  `WipeTmp` are the world between runs: a human puts the repository in order, the system
  empties its temporary directory.

Scores are integers and metadata are what the comparison reads. `home` and `trouble` of
`job` are history variables: HEAD at the call, and whether a git command failed half way.
`gold` in an element of `merged` records what the evaluation of that branch found.

### DesktopStore

`view`, `shown`, `sel` and `spin` are the fields of the store: the records of the
conversations (by the group of the sidebar their state belongs to), their messages, the
selection and the loading flags. `task` says where each asynchronous function stands; a step
ends at an `await`. `requests` is what the server has still to answer, one at a time and in
order; `answer` is an answer on its way to the function that awaits it, `events` what the
server has emitted and the window not yet applied. `actual` and `log` are the records and
transcripts of the server.

- `Boots`, `Booted`, `ListFails` are `ensureDevPilotDesktopInitialized`; a call that needs the
  store joins the initialization that is under way (`Settled`).
- `Call`, `Go`, `Opened`, `Shown`, `OpenFails`, `Reviewed` are `selectDevPilotConversation`,
  alone or as the first part of the bridge's submit and abort, which then act on whatever is
  selected (`BeginSend`, `BeginCancel`).
- `BeginSend`, `Created`, `SendToCreated`, `Sent`, `Reopened`, `SendFails` are the awaits of
  `sendDevPilotConversationMessage`, with the user's own copy of the message and the opening
  of the conversation once it was accepted.
- `Unanswered` is a request that was refused, or one given up by `withDevPilotTimeout`: the
  server may still carry it out.
- `Deliver` applies one event. One that carries no record sets the state that is shown as
  well, see below.
- `Serve...` and `Run...` are the server: what one step of it emits counts as one event.

`typed` of a task is a history variable: what was selected when a send began.

### ManagedConnection

Whatever awaits something is a `flow`: the probe of a start or of a retry, the callback
before a reconnection or after a loss. A flow is `fresh` as long as `generation` has not
been incremented since it read it; `Current` is the test each flow makes when it goes on.
`link` is the transport, `starter` stands for `startInFlight`, `timer` for `retryTimer`.
The transport closes at once and is silent when its listeners are gone, as the socket
adapter and the pool's transport are. After an error it stays until the next attempt and may
still connect, before the retry or while the retry is probing (`ConnectError`, `Connected`).
`faults` counts what goes wrong outside.

### ServerReachability

It extends the supervisor, with a probe before the initial connection and a transport that
connects at once. `token` is that of the entry, `probed` the one each probe sends; `caller` is
where each call of `waitForServerReachable`, `startServerReachabilitySupervisor` and
`invalidateServerReachabilitySupervisor` stands. `Background` and `Foreground` are the switch of
the network with the application, `Rotate` is a user who signs in anew. `refused` is a history
variable.

## The runs

| run | question | result |
|---|---|---|
| `dispatch_auto` | Without reviews, two ideas below the root, any batch of two (one node twice as well), reports and updates that name another idea's branch, git that fails half way, crashes anywhere. | `AttemptBounded`, `BudgetHeld`, `RunningIsOwned`, `OwnWorktree`, `PreservedWork`, `CrashLosesNothing` hold |
| `dispatch_review` | With reviews on a chain root - idea - child, so that skipping one task prunes another. | `PrunedStaysPruned`, `ResultsAreFinal` hold; every tool call returns |
| `conv_store` | Two conversations, two messages each, every interleaving of calls, cancels, runs, shutdown and kills. | records, outcomes, transcripts agree and the contract is kept |
| `conv_ends` | Is every call answered if the coordinator has a time budget? | yes |
| `runtime` | Two launches, one request with a timeout and one without, the end of the main process at any moment. | one runtime, no dangling promise; while the main process lives, stopped processes exit and timed requests settle |
| `human_gate` | Four questions (two about one idea, one about none), two threads that reply at any pace, timers, cut-offs, kills, two resumes. | replies stay with their idea; a question left on the panel, pending or in a checkpoint was settled by a reply to another one; every question is settled |
| `merge_gate` | One run at a time: merges, metadata, retries, failing and killed git commands, cancellations, restarts. | main stays clean, a reported merge happened, a call leaves no trace, the medal is backed, nothing passes the gate unmeasured |
| `main_merged` | And with two conversations of one project? | no: one merges while the other puts HEAD back on main (finding) |
| `history` | Two processes on one history, every outcome of compaction, retries, notes, follow-ups, timeouts, kills. | calls and results stay together, the model is asked after a user turn, nothing done is forgotten, every run ends |
| `desktop_store` | Two conversations of two projects; any two of the user's calls, each of which may create, send, cancel or fail, beside the initialization and its repetition. | project and conversation stay together, messages go and are shown where they belong, no flag is left |
| `connection` | Five faults, three flows at a time, any starts, stops and reports, with and without a probe first, a transport that may connect after an error. | offline is retried, the phase is true, nothing stale takes a connection down but the retry of its own error, it connects in the end |
| `stale_token` | Is a token tried before the pool says that credentials were refused? | no: not if it comes while another one is being probed (finding) |

Type invariants are proved (of every module but `ServerReachability`) and are not checked
once more by these runs.

Each finding is in `PROJECT.json` with the line of the code and the sentence of the
repository that says otherwise.

### Bounds

- `MaxWidth`, `DepthBound` give two ideas, side by side or in a chain: pairs of
  executors and of a node and its descendant are what the properties relate.
- `MaxCycles = 2`, `MaxRetries = 1`: a batch of two meets the cap, one retry is
  allowed and one refused. `MaxBranches` stops git from growing; at 2 a second
  attempt, a stamped name and a full store of branches all occur. In
  `dispatch_review` it is 1: branches play no part in what that run checks.
- In `dispatch_auto` a report names the executor's own branch or the first idea's, at
  which another may be at work, and an update may set that branch too. Updates say
  `pending` or `running`, the two that put a node in front of the dispatch again or take
  it out of the executors' hands; there is no medal, which would only stop the dispatch.
- `dispatch_review` takes distinct pairs, since a node named twice overwrites its own
  result (see below), and lets no manual update say `running`. The medal comes and goes.
- `MaxTurns = 2` in `conv_store`: the record of one run meets the next. One
  in the liveness runs: they ask about one run that ends.
- `MaxGen = 2` launches and two requests: a replaced runtime, its late answers and
  its late exit beside the new one.
- `human_gate` has four questions: a reply written for any of them meets one about
  another idea, one about the same idea and one about none. It has two of the three
  channels of the code, which all do the same, and three processes.
- `merge_gate` has one run, branch and target, scores -1, 0 and 1 (worse, the zero the code
  takes for none, better) and one retry. The branch can be merged any number of times; a
  target of its own and a second branch add no case, since calls follow each other.
  `main_merged` has two runs and no score to beat, since it is about git alone.
- `history` has two processes of two turns each, two calls and one note: an interrupted
  turn, its resume, and a compaction that falls between call and result all occur.
  `KeepRecent = 2` lets a compaction cut a history of three messages; `LlmAttempts = 3`
  reaches the summary on the second error and an attempt after it. One continuation and
  one nudge meet their limits (three in the code).
- `desktop_store` has two projects with a conversation each, so that every mix-up of
  conversations is one of projects, and two calls beside the initialization: any answer meets
  the steps of one other call and those of the initialization. The two swap places under
  symmetry. It has 3.8 million states. The run stops when the calls are used up.
- `connection` has three flows: the probe of a start, a retry and a callback at once, one of
  them stale. Five faults allow a second failure in the middle of the recovery from a first, and a
  refusal after it. Starts and stops are not bounded.
- `stale_token` needs two tokens and three callers: one whose token is refused, one with the
  next token, one that finds it.
- No state constraint cuts a run; every bound is a guard or a finite set of ids.

### Fairness

- Dispatch: a human answers or the review times out (`hitl.py`, `wait_for`); the agent of
  an executor is cut off by `executor_timeout`; git and the parser return; `gather`
  goes on when all are done. Nothing is assumed of the coordinator.
- Conversation: the event loop runs what is ready, and a cancellation reaches the
  task it was sent to, where it may be swallowed. Only `BudgetSpec` assumes that a
  coordinator ends by itself: `config.time_budget` is what grants it, and by default
  there is none.
- DesktopRuntime: while the main process lives its timers fire, spawn reports and exit
  events are delivered; signals are delivered in any case. Nothing is assumed of the Python
  server, which may hang in a request for ever, nor that the main process lives on.
- HumanGate: `await_user_decision` announces what it has subscribed for, and its wait has
  a timer. Nothing is assumed of humans and of the threads that reply.
- MessageHistory: the steps of the loop go on: the provider answers or fails, tools
  return, searches are flushed. Neither a time budget nor a kill is assumed.
- ManagedConnection: probes have a timeout and callbacks return (`Supervisor`), the retry
  timer fires (`TimerFires`), and a transport that is told to connect does, or fails, which is
  a fault (`Connected`); after an error nothing is assumed of it. Faults are finitely many. Nothing is assumed of who starts and
  stops the supervisor. `DesktopStore` and `ServerReachability` state no fairness.

## What is proved

`ExecutorDispatchProofs` proves, for every tree size, task list, cap, retry limit,
parallelism and review mode allowed by `DispatchAssumption` and `IdeaTreeAssumption`
(the limits are numbers or absent, task lists are sequences of ids):

- `TypeCorrect`: `Spec => []TypeOK`;
- `AttemptBound`: `Spec => []AttemptBounded`, no node goes past `1 + max_retries`;
- `RunningOwned`: `Spec => []RunningIsOwned`, nothing is `running` without an
  executor but what the coordinator or a lost exception left so;
- `NothingLost`: `Spec => CrashLosesNothing`, a resume finds every node as it was at the
  crash, the running ones back at `pending`;
- `Inductive`: `Spec => []IInv`, from which the others follow.

The invariant is `IInv == TypeOK /\ AttemptBounded /\ RunningIsOwned /\ Coherent`. None
of the parts after the first is inductive alone. `AttemptBounded` and `RunningIsOwned`
survive a restart because the tree that is loaded is the tree that was in memory
(`disk.tree = tree`) with its running nodes requeued; a tool other than a dispatch has no
executor behind it, which is what makes a manual prune or update harmless; an executor
that records writes to a node that exists (`LiveNodes \subseteq DOMAIN tree`); a
proposal adds a node after its review, and its id is still free because the parent it was
checked for has kept its place. The proof has one lemma per group of actions that disturbs
the same conjuncts; `IsFiniteSet(DOMAIN tree)` is there because `CompletedCycles` is a
cardinality. `NothingLost` is `disk.tree = tree` at the step of `Resume`.

For worktrees and branches the module proves

- `OwnWorktrees`: `Spec => []OwnWorktree`, no two working executors share a branch or a
  directory;
- `WorkPreserved`: `Spec => PreservedWork`, no branch is deleted, and none that is there is
  given to an executor that is not at work on it yet.

The first follows from `ApartInductive`: an executor past git has a branch and a directory
nobody else has. Both rest on what git does, not on names: `git worktree add -b` refuses a
branch that exists, so what a node refers to, and what a report says of it, plays no part.
`NamesAssumption` of `IdeaTree` says that the markers `NoBranch`, `Trunk` and `Elsewhere` are
no branches of executors.

For the cycle cap it proves `BudgetKept`: `~ReviewMode => (Spec => []BudgetHeld)`. The
argument counts the nodes that are finished or have an executor; without reviews nothing
comes between the truncation of a batch and its dispatch. With reviews the claim is false,
since a skip prunes a whole subtree after the batch has been cut to the cycles left.

Its last part is about steps:

- `PrunedRemains`: `Spec => PrunedStaysPruned`;
- `ResultsKept`: `DistinctLists => (Spec => ResultsAreFinal)`, where `DistinctLists` says that
  no task list names a node twice.

A node is lost to an executor that writes what it has learned of it late. So the first needs
`NonePruned` (no executor works on a pruned node), the second `Sole` (the node of an executor
is `running`, belongs to no other executor, and is named once in what a parallel call still
has to review or to dispatch). Every step is then one of three kinds (`EveryStep`): it changes
the tree where no executor works, it dispatches, or it is the step of one executor, which
changes no other node. A node that is added takes no other's place: the id `NextChildId` picks
is free (`FreshChild`), which rests on a least number among those above the children's.
`DistinctLists` is a hypothesis on the coordinator, not on the code, and without it the
property is false, see below.

`ConversationProofs` proves, for any conversations, any number of turns, in the server and
embedded, with or without a time budget:

- `Types`, `RecordsKept`, `RepliesKept`, `OutcomeKept`: `Spec => []...` for `TypeOK`,
  `RecordsAreTrue`, `RepliesInTurn` and `OutcomeIsDurable`;
- `ContractKept`: `Spec => KeepsContract`, that is, `ConversationContract` with what the store
  reports of each conversation in place of its variables.

The argument has three layers. `SInv` relates process, files, live handles and runs: a process
that is down has neither handles nor tasks, a run has a turn, a settled record has no run, and
a record is active just while its run goes on. It is inductive without the transcript, and the
contract follows from it step by step: each action changes the report of one conversation the
way an action of the contract does, or of none; the end of a process, between the writes of a
step or between steps, is `Stop`, and the start of the next one finds no conversation active.
`TInv` adds transcript and events: while a run goes on, its message is the last of the
transcript and its start the last event, so that what the run appends stands behind its own
message and comes after every other event. `DInv`, that the last outcome announced is on file,
needs both, since only `RunsFit` tells that nobody else writes the record in between. `Turns`,
the number of user messages, is a cardinality, so that it can be counted through an append;
`AbsentAssumption` says that the marker for no record is none.

`MessageHistoryProofs` proves, for all limits that `HistoryAssumption` allows, any number of
processes, turns and notes, and with and without native calls: `TypeCorrect`,
`CallsStayAnswered`, `AlwaysEndsOnUser` and `NothingIsForgotten`, `Spec => []...` for `TypeOK`,
`CallsAnswered`, `EndsOnUser` and `NothingForgotten`. The three properties say something only
at the moment the model is asked. The invariant `HInv` says what they need at all other
times:

- `Fits`: an open call stands nowhere but at the end of a history, a result follows its call,
  apart from the cuts the code makes. This holds of the history in memory and of the one in the
  checkpoint, in each phase, through appends, marks, what a compaction keeps, the seal and
  the nudge; one lemma treats each of these operations on any history.
  A compaction may keep any number of messages, also none: `messages[-0:]` is all of them.
- `Closed` and `Askable`: from the head of the loop to the request, no call is open and the last
  message is the user's.
- `Remembered`: a result is in memory, was compacted away or was lost with a process; and the
  same holds of the checkpoint but for the results of the last turn, while the checkpoint that
  has them is not yet written (`Unsaved`).

`HumanGateProofs` proves, for any questions, channels and restarts: `GateTypes`;
`RepliesOwn`: `Spec => []OwnReply`, since whatever has passed the handler belongs to the
open question (`Heard`); `NoGhosts`: `Spec => []NoGhost` and `RestoredOpen`:
`Spec => []RestoredIsOpen`. Questions may be repeated and have no node. The invariant `Shown`
of the last two says that a thread past `Clear` with a reply to the open question, or such a
reply in the event loop, means that panel and pending question are empty or hold a question
a reply to another one has settled (`Foreign`), and nothing fills them before the next
question; `Cut` says the same of what a checkpoint holds. The exception is needed, see below.

`MergeGateProofs` proves, for any runs, branches, targets, scores and retries allowed by
`MergeAssumption` (main is no target, scores are integers, `None` is neither):

- `MergeTypes`: `Spec => []TypeOK`; `GateKept`: `Spec => []GateHolds`; `MedalsBacked`:
  `Spec => []MedalIsBacked`, for any number of runs on one repository. The gate holds
  because the scores of a run's metadata change only while it is idle. The medal is backed because a
  gold merge is never undone, so either there is one, or no tree in memory or on disk has
  the medal and no run that has merged is about to set it (`MedalInv`).
- `MainStaysClean`, `SuccessTold`, `TracesGone`: `OneRun => (Spec => []...)` for
  `MainIsClean`, `SuccessIsTrue` and `LeavesNoTrace`, where `OneRun` says that there is one
  run at most. Their invariant `OneInv` says where HEAD is at each step of a call and what
  the call remembers of it (`Placed`). `OneRun` is needed: `main_merged` shows what two runs do.

`DesktopRuntimeProofs` proves, for any finite set of requests and any number of processes,
`RuntimeTypes`, `OneRuntimeKept` and `NothingLeftDangling`: `Spec => []...` for `TypeOK`,
`OneRuntime` and `NothingDangles`. `OneRuntime` alone is lost by a launch that finds its
number taken or by one that ends while its process is owned by nobody, so the invariant
`IInv` adds `LaunchConsistent` (the launch in progress, the state of its process and the
pending initialization move together, and a launch whose process is not the runtime has been
stopped), `ProcessConsistent` (nothing is pending on a process that was never up, an exit
event means a death) and `BornInOrder` (processes are numbered as they are launched, which is
what makes the next number free). One lemma, `RejectKeeps`, covers the timeouts, the exit
event, failing writes and the end of `close()`: rejecting promises is safe when the client is
forgotten only with all its promises, and when its process is dead or has its signal.

`DesktopStoreProofs` proves, for any projects, conversations and calls allowed by
`StoreAssumption` (every conversation has a project; the initialization is no call; `None` is
none of these), `StoreTypes`, `StoreSelects`, `StoreSends`, `StoreShows` and `StoreSpins`: `Spec => []...` for `TypeOK`, `SelectedTogether`, `SentWhereSelected`, `ShownWhereSaid`
and `SpinnersAreTrue`. They share the invariant `SInv`,
which follows a message through everything on its way:

- `TasksFit`: what a task stands at fits what it was called for, so that a send past its first
  await has a conversation of its own and an open has one of the store's;
- `RequestsFit`: a request that is still awaited is about what its task is about, a send also
  when nobody awaits it, and a task waits for at most one request;
- `AnswersFit`, `EventsFit`: what an answer or an event carries is in the transcript it is
  about, which only grows, and a conversation made is in the project it was made for;
- `LogsFit`: a message of a user in a transcript is that of the task's conversation and of its
  `typed`; this is `SentWhereSelected` with what makes it inductive;
- `ShownFit`: a message that is shown is in the transcript, or a copy of one that was sent
  there.

Timeouts are why the invariant speaks of requests nobody awaits any more: the server may
carry out a send after its task has gone.

`ManagedConnectionProofs` proves `ConnectionTypes`: `Spec => []TypeOK`; `ConnectionRetried`:
`Spec => []OfflineIsRetried`; `PhaseTold`: `Spec => []PhaseIsTrue`; `OnlineKept`:
`Spec => OnlineStays`, for any number of flows and faults. The invariant adds two facts:
`Threads`, that the probe of a start is alone, without a transport, and that who deals with a
loss has a dead transport, so that beside an established connection only a retry can be under
way; and `Unused`, that a supervisor that was never started has none of these.

Only model-checked: all liveness (`StoppedRuntimeExits`, `AskReturns`, `CallAnswered`,
`ToolCallReturns`, `TimedRequestsSettle`, `RunEnds`, `Recovers`), since the installed provers do
not reach `ENABLED` and with it fairness. `ServerReachability` has a run that refutes its
property and no theorem.

## What is not modelled

- Texts: hypotheses, insights, prompts, reports, events' payloads. In the dispatch scores
  are there or not, since nothing there compares them; `MergeGate` has them as integers.
- What a git command does to files, and what the plugin's guards look at: in `MergeGate` a
  merge lands or conflicts, a guard refuses or not. The processes an evaluation leaves
  behind when it is killed are taken to end with their group.
- The language model: what it answers is free. In the dispatch and in the conversation
  store an executor and a coordinator are any behaviour that ends, fails or, for the
  coordinator, goes on; `MessageHistory` has the loop of the coordinator.
- A checkpoint that cannot be written (a full disk): the code logs it and goes on.
- Commits, tags and branches that are no executor's: a code reference is a branch of an
  executor, the trunk, or a name git does not have. Scores set by hand are left out.
- An application that is started again while the server of one that has ended is still at
  work: the main processes follow one another in no model.
- Wall-clock time: every timeout is a step that is possible.
- Two desktop processes, or an SDK program and a desktop, on one project at a time.
- In the window: models, titles, pinning, archiving, the contents of the review, the list of
  activities, and the events of a run that only show what it is doing. Answers of two
  refreshes of the review may come in either order; the last one counts.
- In the supervisor: a transport whose closing takes time (the adapters of this repository
  close at once), or that connects twice; a callback that rejects.
  `onDisconnected` or `onBeforeReconnect` rejecting would end the retries, since nothing catches
  it; none that the repository passes does.
- The completion order of `convergence.py` and the insights `propagate_insights` writes steer
  prompts only. The import of a legacy workspace runs once, without concurrency. The ACP server
  is a second front end of the run that `Conversation` has.
- `oauth`, providers, learning, memory, audit, search agents, presentation and the rest of the
  vendored client monorepo: I/O and text around the modelled parts. It is by far the largest
  part of the repository by lines (translations, screens, transcripts).

Seen in the models, without a run of their own. The first eight contradict what the
repository says (`src/coordinator/config.py:382` calls `max_cycles` a hard cap,
`src/coordinator/orchestrator.py:749` says that the tree is saved on every change,
`src/sdk/runtime.py:113` that `cancel` cancels the run, the comment at
`packages/devpilot-runtime/src/desktopRuntimeClient.cjs:92` that a process that has exited is
safe to close, `src/coordinator/checkpoint.py:246` that a sealed history is safe to continue,
`src/coordinator/tools/ask_user.py:78` that replies to questions cannot cross-talk,
`src/coordinator/orchestrator.py:687` that providers reject two user turns in a row, and
`packages/connection-supervisor/src/createManagedConnectionSupervisor.ts:128` that a transport
that connects after an error is not reconnected from the stale timer); of the others it does
not say what is meant:

- the cap of cycles does not hold with reviews: a skip prunes a subtree, each node of which
  counts, after a batch was cut to the cycles left, and the rest of the batch is dispatched
  (`BudgetHeld` fails with `ReviewMode`, a chain of three ideas and `MaxCycles = 2`);
- the gold medal is not saved when it is won, so a crash before the next save forgets it,
  and a later merge with a silver medal replaces it; either way executors are dispatched again;
- `_heartbeat` (`src/core/agent.py:695`) catches the cancellation of its own task together with
  that of the pulse: the agent goes on, and the cancel call waits with all requests behind it
  for as long as the run lasts (`CallAnswered` fails under `FairSpec`, without a time budget);
- `close()` of the runtime client (`desktopRuntimeClient.cjs:99`) listens for an exit that is over
  when the child dies while the shutdown request is pending (`CloseReturns` fails);
- the seal of a resumed history looks for blocks of type `tool_use`; the Responses provider keeps
  its own `function_call` items, which stay unanswered (`TailIsSealed` fails with `NativeCalls`);
- questions without a node (every proposal of an idea, most of `AskUser`) or about the
  same node take each other's replies: the answer of a gate companion that was still
  thinking when the question timed out settles the next question; if that question is
  only just being announced, it also stays pending and on the panel after it is answered,
  and a checkpoint may restore it (the exceptions in `NoGhost` and `RestoredIsOpen`);
- the message of a follow-up and the notes of the user are appended to the history whatever
  it ends with, so that two user turns stand in a row (`FollowUp`, `BeginTurn`);
- a transport that connects after an error while the retry of that error is probing already
  is taken down by the retry, which reconnects or reports a failure: the timer that
  `onConnected` clears has fired (the exception in `OnlineStays`);
- the transcript of an open or reopen is a snapshot: a message of an event that came between
  the snapshot and its display is taken off the window until the next open, and the state of
  the record goes back with it;
- an event without a record has one made up, whose state is `idle` unless its data say otherwise:
  a run that has failed is shown among the recent conversations, and one that works as idle;
- two first messages sent before the first conversation is created make two conversations; a
  send that ends late selects its conversation again, whatever was selected meanwhile;
- a send that fails or times out leaves its copy of the message and the state `starting`, though
  the server may have refused it, or may have run it; one whose reopen fails leaves the copy
  beside the recorded message;
- quitting starts the stop of the runtime and does not wait for it (`main.cjs:458`): a server
  that is stuck in a request when the main process goes is sent no signal any more;
- abort and submit act on what is selected after their own selection was awaited: aborting the view
  of one conversation can cancel the run of another that was selected in the meantime;
- a request refused with an old token puts the server in `auth_failed` although the token of the
  entry is a new one;
- a recorded trunk score of 0 counts as none, so the gate compares with the baseline, or
  with nothing; so does a crash between the merge and the `TreeSetMeta` that records the
  new score, for the old one; the docstring of the tool says `meet or exceed` where the
  code wants an improvement; `TreeSetMeta` may set the evaluation command to nothing, after
  which the model's own score counts;
- the guard of protected paths passes when `git diff` itself fails;
- a merge that is killed after it landed is reported as a conflict, and the abort undoes
  nothing;
- git's entry of an evaluation directory that is gone keeps the branch from being evaluated
  until somebody prunes it; the directory is named after the branch alone, so two
  repositories share it;
- a run cancelled in the middle of a merge leaves HEAD on the target (or a merge in
  progress), and with `require_base_branch`, which the SDK never turns off, the next start
  is refused until a human puts it right;
- a node named twice in one parallel call runs twice, and the later executor overwrites
  the result of the earlier one: nothing rejects the second, and a `running` node may be
  dispatched (`ResultsAreFinal` fails with `TaskLists <- Duplicates`);
- any reply empties the panel and the pending question, also one the open question does
  not take: until its timer fires, the human has nothing to answer, and a checkpoint taken
  then does not hold the question;
- `ConversationStore.shutdown` cancels runs in a plain loop: a run that raises while it is
  cancelled leaves the others without a checkpoint (`ShutdownSettles` of `Conversation`
  fails when coordinators may raise);
- an output cut off by the token limit may hold tool calls, which stay unanswered for as
  long as the history lasts; a follow-up to a process that died in a turn has the same
  effect with the call it died in;
- a follow-up to a run that was killed before its first checkpoint finds no messages: the
  file then holds the follow-up alone, without the research task, and the nudge says that
  the full conversation has been restored;
- emergency truncation repeats messages when the history is shorter than
  `2 + keep_recent // 2`; the prune hook of `TreeAddNode` keeps the list of messages the
  agent began with, which is no longer the agent's after the first compaction;
- the seal says `not executed` of every call of the turn, though some may have been;
- a `needs_retry` node that is dispatched again leaves the count of cycles and comes
  back, so more executors finish than `max_cycles`; the cap is one of nodes;
- the review of `RunExecutor` precedes the status check, so a skip prunes an idea that
  is already done or merged, with its subtree;
- a report whose JSON is no object raises in the tool, and the node stays `running`
  until a restart requeues it, though it may be dispatched again;
- in embedded use, a cancel that comes before the task of the run has started is
  ignored without a trace, while the run goes on;
- removing a project while one of its runs is working leaves that run out of reach
  of every request but shutdown.

## Plan

Done: the idea tree with the dispatch, the human gate, the merge gate, the conversation store
with its contract, the message history, the runtime client, the window's store and the
connection supervisor, each with its proofs; the reachability pool. What could come next, in
this order:

1. `DesktopStore` over `DesktopRuntime` in place of its queue, so that a runtime that dies takes the
   requests of the window with it.
2. The reducer of `packages/devpilot-research` over the events of `DesktopStore`.
3. The endpoint supervisors and the session client of `apps/cli`, which share the supervisor.

Proofs: the invariants of `ManagedConnection` under the transport of `ServerReachability`, and
its types. What the runs refute or the provers do not reach stays as it is.
