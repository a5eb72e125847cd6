# Pearl AI: a TLA+ verification development

Pearl AI is a coding agent. A user gives it a task; it plans tool calls with a
language model, runs them, stages every file edit and shell command instead of
carrying them out, pauses for approval, applies what was approved, verifies with
the project's tests, reflects, and replans within fixed budgets:
PLAN -> EXECUTE -> STAGE -> APPROVE -> VERIFY -> REFLECT -> REPLAN or DONE. The same executor is
driven from a CLI, a FastAPI server with a web UI, and an MCP stdio server with a
VS Code extension. Paths below are relative to the repository.

This directory holds TLA+ models of the parts of that pipeline where order,
failure and concurrency decide correctness, TLC configurations that check them,
and TLAPS proofs for every value of the constants.

## Inventory

| Component | State | Operations | What is hard | What makes it correct |
|---|---|---|---|---|
| ChangeManager, `src/tools/patch_manager.py` | pending edits | propose, preview, apply_all, discard_all | a file changes between review and write; a write fails in the middle; two edits of one file; a torn write; a failing restore | only reviewed text is replaced; the batch is all or nothing; no edit is silently lost |
| AutonomousExecutor, `src/agent/executor.py` | the locals of `_execute`, the paused state, staging tiers, cancel flag | run, approve, reject, cancel | races of approvals, cancellation at any moment, exceptions between taking the pause and using it, budgets carried over pauses and replans, a tools/call that joins a paused batch | one owner per execution; what the run staged is applied as it was when it paused; budgets; nothing stranded; calls return |
| CommandApprovalManager, `src/tools/command_approval.py` | pending commands | propose, approve_all, discard_all | a command fails after others ran; a timeout | no command runs twice |
| ReflectionEngine, `src/agent/reflection.py` | iteration count | reflect | its own budget beside the executor's | bounded |
| Verification, `src/agent/verification.py` | none | verify | git names files its own way; tests time out or are not there | a verdict claims no more than what git and pytest have reported |
| Command tools, `src/tools/shell_tools.py`, `src/tools/git_tools.py` | the run's steps | execute_shell, run_python, git writes | results come long after the step that asked for them | a step shows the output of its own command |
| Planner, plan validator, dependency graph, `src/agent/` | none (a replan budget in the caller) | plan, replan, validate, order | shapes the validator misses | refused plans are exactly the inconsistent ones; order respects dependencies |
| API session, `src/api/session.py` | current executor, stored plans, conversation | run, approve, reject, cancel, plan | worker threads against request handlers; error paths that leave the executor set | a session never stays busy; no paused batch is orphaned |
| API server, `src/api/server.py` | the event loop, the session it serves | endpoints | check-then-act between requests | one run at a time |
| Tenant registry, `src/api/tenancy.py` | sessions by tenant | get, evict | eviction against use | a busy session is never evicted |
| Event bus, `src/agent/event_bus.py` | queue | emit, drain, close | two ways from the worker to the loop, one of them through a second thread | every event once, in order, then the end |
| Session manager, `src/agent/session_manager.py` | JSON files | save, load, list, delete | crash during a save, equal time stamps | a load sees the last complete save |
| Conversation memory and condenser, `src/memory/`, `src/agent/condenser.py` | turns | record, condense | a turn recorded while the middle is summarised | no turn is lost |
| Checkpoints, `src/tools/checkpoints.py` | shadow repository, metadata sidecar | create, restore, rename, delete, retention | read-modify-write without a lock, failures half way | metadata matches commits; restore is complete |
| Repository scan, index and graph, `src/repository/`, `src/tools/repo_tools.py` | files, symbols and edges | scan, build, refresh, query, retrieve | nested ignore rules, cycles, files that change or vanish meanwhile, a build against refreshes | what is found is what is there, once |
| Text edits, `src/tools/edit_tools.py`, `symbol_editor.py`, `search_replace_editor.py` | none | edit by line, hunk, symbol, text | line numbers that shift, several matches | only what was addressed changes |
| Budgets, `src/llm/token_budget.py`, `context_budget.py`, `src/agent/context_engine.py` | none | allow, truncate, share | zero and negative allowances | a prompt leaves room for its answer |
| LLM client, router, model cache, `src/llm/` | clients by role, loaded models | generate, client_for, load, evict | retry, back-off and cancellation; fallback; eviction of a model in use | requests are bounded; one client and one lock per model |
| Completion engine, `src/agent/completion.py` | LRU cache | complete | the cache at its limit | never serves another context's text |
| MCP server, `src/mcp/server.py` | one executor | tools/call, run, approve, reject | direct tool calls while a run is paused | what is written was approved, or called for directly |
| Extension connection, `vscode-extension/src/mcp/connection.ts` | child process, pending requests | start, request, timeout, exit | late exit events, late answers | no request waits for ever |
| Inline completion, `vscode-extension/src/completion/` | one debounce timer | provide | overlapping requests | every request resolves |
| Web tools, registry, workspace memory, prompts, CLI, web UI, fine-tuning, benchmarks | little or none | I/O and text | - | not modelled, see below |

Interaction: a surface (CLI, session, MCP server) calls `run`, `approve`,
`reject` and `cancel` of an executor. Tools called by the executor stage edits in
its ChangeManager and commands in its CommandApprovalManager; `approve` applies
both. The session adds worker threads, an event bus to the browser, and stored
plans; the server adds the endpoints, and the registry one session per tenant.

## Modules

| Module | Models | Kind |
|---|---|---|
| `PendingEdits` | the data of a batch: edits, images of files, which staged edit each edit must start from | operators |
| `ChangeManager` | `src/tools/patch_manager.py` and how the editing tools stage | state machine |
| `AtomicBatch` | what the approval gate promises: the workspace changes by a whole reviewed batch or not at all | abstract specification |
| `MCChangeManager` | TLC instance of `ChangeManager` | |
| `ChangeManagerProofs` | theorems about `ChangeManager` | proofs |
| `Executor` | `src/agent/executor.py` with the command gate and the reflection budget | state machine |
| `MCExecutor` | TLC instance of `Executor` | |
| `ExecutorProofs` | theorems about `Executor` | proofs |
| `ApiServer` | `src/api/server.py`, `src/api/session.py`, `src/api/tenancy.py` on a shared instance: requests, registry, sessions, workers, approvals | state machine |
| `MCApiServer` | TLC instance of `ApiServer` | |
| `ApiServerProofs` | theorems about `ApiServer` | proofs |
| `Checkpoints` | `src/tools/checkpoints.py`: the shadow repository and its sidecar | state machine |
| `CheckpointsProofs` | theorems about `Checkpoints` | proofs |
| `SessionFiles` | `src/agent/session_manager.py`: one JSON file per session | state machine |
| `Conversation` | `src/memory/memory.py`, `src/agent/condenser.py` and the workers that use them | state machine |
| `ChatProofs` | theorems about `Conversation`, `ModelRouting`, `LocalModels`, `SessionFiles`, `InlineCompletion` | proofs |
| `McpServer` | `src/mcp/server.py` and its client in the extension | state machine |
| `LocalModels` | the model cache of `src/llm/providers/local_inference.py` | state machine |
| `StagedCommands` | `src/tools/shell_tools.py`, `src/tools/git_tools.py` and the results of a batch | state machine |
| `LlmClient` | `src/llm/client.py` under the planner's retry | state machine |
| `ModelRouting` | `src/llm/router.py`, `src/llm/providers/factory.py` | state machine |
| `RunStream` | `src/agent/event_bus.py`, the worker of `src/api/session.py` and the response of `src/api/server.py` | state machine |
| `InlineCompletion` | the extension's completion provider and `src/agent/completion.py` | state machine |
| `ToolContext` | `src/config/workspace.py`, the context variables of `src/tools/edit_tools.py` and `shell_tools.py`, and the threads of `src/api/` that call tools | state machine |
| `RunProofs` | theorems about `ToolContext`, `McpServer`, `StagedCommands`, `RunStream`, `LlmClient` | proofs |
| `MCServices` | TLC instance of the eleven services above, `Checkpoints` to `ToolContext` | |
| `MCServicesProofs` | what is proved of the services, said of the composition that the run checks | proofs |
| `Scanner` | `src/repository/scanner.py`, `src/repository/index.py` | state machine and reference definition |
| `CodeGraph` | import edges, cycles, impact and paths of `src/repository/graph.py` | operators, stepwise algorithms and reference definitions |
| `Planning` | `src/agent/planner.py`, `plan_validator.py`, `dependency_graph.py`, `confidence.py` | state machine and reference definition |
| `SymbolIndex` | the definition index of `src/tools/repo_tools.py` | state machine |
| `LineEdits` | `src/tools/edit_tools.py`, `src/tools/symbol_editor.py` | stepwise algorithm and reference definition |
| `SearchReplace` | `src/tools/search_replace_editor.py` | stepwise algorithm and reference definition |
| `PromptBudget` | `src/llm/token_budget.py`, `src/llm/context_budget.py`, `src/agent/context_engine.py` | stepwise algorithm |
| `RepositoryContext` | `src/repository/service.py`, `src/repository/context.py` | state machine |
| `Verification` | `src/agent/verification.py` | stepwise algorithm |
| `MCRepository` | TLC instance of the nine above | |
| `RepositoryProofs` | theorems about `Planning`, `SymbolIndex`, `Verification`, `PromptBudget`, `RepositoryContext` and their composition | proofs |

### ChangeManager

`disk` is the workspace, `pending` the list of staged edits, `phase` where
`apply_all` is in its body (`applied` edits written, `undone` restored),
`snapshots` its dictionary of previous contents. An edit has a path, the text it
was computed from and the text it leaves; a file is a text, `Absent` or
`Unreadable`. `Propose*` are the staging calls of the editing tools; `RefuseStale`
and `PassStaleCheck` the check at the head of `apply_all`; `TakeSnapshots` and
`SnapshotFails` the reading of previous contents; `WriteNext`, `WriteFails` one write or unlink, which may also leave the file cut off (`CutOff`: empty, or with a part of the text); `UndoNext`, `UndoFails` one
restore; `RollbackDone` and `FinishApply` its two ends. `ExternalWrite` is any
other program, at any moment. `foreign`, `torn` and `unrestored` are ghosts that
name the files which others wrote, which a failing write left half written, and
whose restore failed: the properties say what holds of every other file. The
constant `Faults` says which of them the environment may inject: "tear", "undo", "disturb".

### Executor

`pc[c]` says where the thread `c` is inside `run`, `approve` or `reject`, and
`job[c]` holds the locals of the execution it drives (the plan's remaining calls,
iterations, replans, steps, retries of the present call). `paused` is
`ApprovalCoordinator._paused`; `edits` and `commands` are the two gates' pending
items, numbered in the order they were staged; `apply_all` is one step with two
outcomes, which is what `AtomicBatch` justifies. What the model, tools, commands, tests
and reflection answer is free. `CallFromOutside` is a `tools/call` of the MCP server
that stages into the gates of a paused run, or of one that a timed-out command
ended, whose managers are still the active ones; its items are in `joined`. Reports,
risk tiers, progress events and wording are left out. `used`, `ran`, `timedOut`,
`joined` and `runs` are ghosts.

Two abstractions deserve a word. The per-call retry counter is keyed by `id()` of
a tool call, and the id of a freed call may be reused; the model covers the
outcome (a fresh call that starts with its retries used up) by letting a
transient error be final at any attempt. The counter of failed actions is a flag,
because only a second failure of the same action, which the model lets any second
failure be, is told apart. The iteration that exceeds the budget is counted as
`MaxIterations + 1` and not further, since it is only compared with the budget.

### ApiServer

It composes three components that only make sense together: the event loop,
which serves one request at a time (`loop`); the registry of sessions by user,
least recently used first (`registry`, an `OrderedDict` whose `move_to_end` is
`MoveToEnd`); and the sessions, of which the model keeps
`_executor` and `_pending_plan` (`executor`, `plan`). Each run has a worker
thread, `worker[r]`, and its executor a `status`, which is what `Executor` says an
executor can be seen doing: running, paused or over. `approver` are the threads on
which `approve()` and `reject()` run.

A request is `Receive`, then the registry's idle eviction, `Find` or `Make`, after
`Make` the eviction over capacity, then the endpoint. The registry's lock keeps
other requests out but not the sessions' threads, and `_is_busy` takes the session's
lock twice, so `LooksRunning` and `LooksAwaiting`/`Evict` are separate steps: `Evict`
is the second read and the removal. The endpoints (`StartRun`, `RefuseRun`,
`PreviewPlan`, `CallApprover`, `OtherAnswer`) run on the loop without an await, hence
in one step. `Install` to `ReportRun` are the stages of `run_autonomous_stream` at
which other threads can see a difference, every error path included; `LookUp` to
`ClearApproved` those of `approve()` and `reject()`, which look the executor up
under the lock and use it outside.

Which session a user gets is the only thing that identifies a user here, so the
ghosts `owner` and `shown` record for whom a session was made and to whom a plan was
shown. An entry may be idle past the time-out at any request, except one whose
last request handed over to a thread that has not got going (`JustUsed`): the
time-out is an hour. Cancellation acts inside the executor (see `Executor`) and
changes nothing here; the single-user instance, which has one session and no
registry, is the special case of one user and no eviction. `MaxMade` bounds the
sessions ever made, `MaxRuns` the runs,
`MaxPreviews` the plans previewed.

### Checkpoints

`files` is the workspace, `index` and `history` the index and the commits of the
shadow repository, `sidecar` and `tmp` `metadata.json` and its temporary file.
`op[w]` is what worker `w` does: a create (stage, commit, retention), a rename, a
deletion, or a restore (preview, checkout, unlinks). Every git command, every
write of the sidecar and every unlink is a step, and each may fail or be the last
before `Crash`, which leaves `index.lock` behind if git was at work. `Apply` is the batch a
checkpoint was made for. Two workers that save the sidecar together share
`metadata.json.tmp`: what they tear reads as an empty sidecar, so marks are lost;
`raced` records it and `MarksStay` exempts it.

### SessionFiles

A request takes the manager's `RLock`, reads the file, changes the record, writes
`<id>.json.<pid>.tmp` and renames it. The manager is built on first use, under
`_default_manager_lock`, which checks again, so a process has one; each has its own `RLock`:
`managers`, `default` and `owner` tell them apart. `Now` is `_now()`: never below the
clock, always above the last stamp. `Restart` is the death of the process at any
step; files stay. `appended` and `deleted` are ghosts of what was promised.

### Conversation

Chats and runs each have a thread; all record turns into one `Memory` and condense
it without a lock. `StartCondensing` reads, `WriteSummary` overwrites after the
model answered. `ContextTooLong` is the error of a prompt that is too long: a run
condenses and tries again while it has retries, a chat condenses once. A turn
recorded while somebody condenses may be lost; `raced` records those turns, and
`NothingForgotten` says that all others are in the conversation, or in a summary
of it.

### McpServer

One thread reads lines and answers them in order: `Take` and the handlers
`RunAutonomous`, `ApprovePatches`, `RejectPatches`, `ToolsCall`, `CheckpointRestore`,
`Reads`. The client is `ChatController.runAutonomous`: it starts a run, shows the
batch of the answer, decides, may call tools and restore meanwhile, gives up on a
late answer (`Timeout`), and finds a new process after `Dies`. `decided` is a ghost of what
the user approved or asked for directly.

### LocalModels

`Call`, `Hit`/`Load`, `GetLock`, `Generate`, `Finish`: a call fetches the Llama object, then
its lock, then generates, and another thread's load may evict and close the
object in between. `OneCallPerObject` exempts closed objects: what llama.cpp does with
one is outside this code.

### StagedCommands

A tool either runs its command at once or, under an active approver, proposes it
and leaves a placeholder. `Approve`, `RunNext` and `AllRan` are `approve_all` and the
backfill that replaces placeholders by outputs: the n-th step that still shows a
placeholder, known by its prefix (`Placeholders`, `Place`), gets the n-th output; `CommandFails` and `CommandTimesOut` its failures. Safety checks are what
they tell of a command line (`Lines`). `repo` is what git would refuse or do.
`ResultsReachTheirStep` exempts batches with a git command, whose placeholder has
another prefix (`mixed`).

### LlmClient

`generate` with its retries, back-off and cancellation, inside the planner's
second prompt, and the single request of a stream or a completion. The search for the JSON
object of an answer is translated over braces, quotes and backslashes.

### ModelRouting

`EffectiveProvider`, `OverrideModel` and `LocalModelFile` translate the settings;
`ClientFor` is the cache of clients with its fallback. Building a remote client may fail.

### RunStream

The worker emits some events on the run's bus, which a bridge thread moves to the
asyncio queue, and puts others there directly; `CloseBus`, `Joined` and `JoinTimesOut`
are the closing with its 5-second join, `Raises` an error of the worker itself, before
or after events were emitted, `Leave` the sentinel, `Generate` the response.
asyncio runs the puts in the order in which the threads asked for them. It refines what
`ApiServer` counts as one step, `ReportRun` or `RunFails`.

### InlineCompletion

`Provide`, `CancelRequest`, `TimerFires`, `GiveUp`, `Show` are the provider with its one
timer; `CacheGet`, `Infer`, `CachePut` the service. Requests are served in threads, as in
the web server; the MCP server serves one at a time, which is a special case.

### ToolContext

What a tool call finds around it. `root[t]` is the thread-local workspace root,
`gate[t]` the context variable with the active managers, `thread[t]` what thread `t` does
and for which session and executor; `roots` and `serving` are the sessions made so
far (the last one serves) with their executors. `RunAutonomous`, `SetWorkspaceRoot`, `Install`,
`Run`, `ContextTooLong`, `Finish`, `Raises` are the worker of a run, `Decide` to `Reject` the
decisions on pool threads, `SetWorkspace` and `SetProvider` the two endpoints that replace the
session while an old run goes on. `CallTool` records what a call saw. `CallsAreBound` says
what that is: the gate of the thread's executor everywhere, the workspace of its session
on the thread of a run, and on a thread of the pool, where an approved run goes on, the
directory of the process. That it should be the session's workspace there too is
`PathsResolveAtHome`, which the run `workspace_lost` refutes.

### Scanner, CodeGraph, SymbolIndex, RepositoryContext

`Scanner` walks a tree, decides every path with the rules the code loads, collects
the files in any order while files disappear, parses and indexes them; beside it
stands what git does with the same rules. `CodeGraph` resolves import statements
to files and runs Tarjan's algorithm, the impact search and the path search step
by step, with their stacks and queues, against reachability. `SymbolIndex` is the
index the tools share, as how often it lists a file for a name: `StartBuild`, `ParseNext`, `Publish` by one thread, `Write` and the
refresh (`Keep`, `Drop`, `Parse`, `Add`) by another, and other programs. `RepositoryContext`
ranks, expands and renders under a budget, on an index and a graph that two
threads may build at once: each publishes its index, makes a graph of whatever index is
there (`BuildGraph`) and publishes that. `overlap` is a ghost: two threads have been in the
service at a time, and `OneScan` exempts what follows. The budget is what the
sections may cost (`SectionsFit`).

### Planning, PromptBudget

`Planning` is one call of the planner: what the model answers is any small plan;
validation, Kahn's algorithm with its queue, and the score follow. One tool stands for
each class the code tells apart; `append_file` for the writers that the confidence score
knows and the validator does not. `CheckedWritesAreInformed` speaks of the tools the validator
knows; said of all writers it would be false. `PromptBudget`
computes with the real constants: how many messages of a conversation
`ContextEngine.build` keeps and what `build_prompt` cuts of the workspace context.

### LineEdits, SearchReplace

`LineEdits` has `edit_lines`, `patch_file` with the offset it carries from hunk to
hunk, and the symbol editor, whose lines come from `ast` and from `splitlines`,
which differ on form feeds. `SearchReplace` has the exact, the normalised and the fuzzy
replacement over characters.

### Verification

`Status`, `Select`, `RunTests`, `RunnerFails`, `Judge`: what was planned, what git reports
(under the file's name or another), the tests selected by name, and the verdict. A test
passes, fails, has an error in its setup, or cannot be collected; the last ends the
whole session of pytest without counts (`Interrupted`), as a time-out or an error of the
runner does (`noOutput`). `VerdictIsEarned` is about what was reported, so a failing test in
such a session is exempt.

## Runs

| Run | Question | Bounds |
|---|---|---|
| `change_manager` | do review, application and rollback keep their promises with torn writes, failing restores and other programs writing? | 2 files, 2 texts, 3 edits, 1 external write: a rename beside an edit, a chained pair, a pair on two files and a delete-create are all in it; files are symmetric |
| `change_manager_atomic` | does the file-by-file mechanism implement one atomic commit? | the same, no torn write and no foreign write during `apply_all` |
| `change_manager_torn` (violation) | is every touched file restored? | as `change_manager` |
| `executor` | ownership, batch integrity, budgets, reachability, cancellation, termination | 2 threads, 2 iterations, 1 replan, 1 retry, 2 reflections, plans of up to 2 calls, 2 staged items of which either may come from outside the run, 2 runs |
| `executor_rerun` (violation) | does a command take effect once? | 1 thread, 1 run, no call from outside, otherwise as `executor` |
| `api_server` | do sessions, plans and decisions stay with their user, and paused runs reachable? | 2 users, room for 1 session, 3 sessions made, 2 runs, 2 approvals at once, 1 preview, no context retry; users and approvers are symmetric |
| `api_answers` | does everyone get an answer? | 2 users, 2 sessions made, 2 runs, 1 approval at a time, 1 context retry, no preview |
| `api_stuck` (violation) | is a session that says it is running really running? | as `api_answers` |
| `api_evicted` (violation) | is a busy session never evicted? | as `api_answers` |
| `workspace_lost` (violation) | is a path resolved in the workspace of the session it was planned for? | 1 workspace, 1 session, 1 run, 1 pool thread |
| `services` | do the parts that keep state between requests keep it right? | see the table of parts below |
| `repository` | do the algorithms and caches over a workspace do what they are for? | see the table of parts below |

Two threads are enough for every race of two calls; two items make a batch of
which one part fails; two iterations and one replan let each budget be met from
both sides. With room for one session every request of the other user makes the
registry choose, and three sessions let a user lose one and get another; two runs
overlap on one session or on two.

`MCServices` and `MCRepository` each check several modules in one run. The modules of
a run share no variable, and a behaviour is one of a single part, which `Init`
chooses: the state space is the sum of the parts, not their product, and each
property speaks of its part. A `RestoresHold`, `RequestsAreBounded`, `ModelsAreShared`,
`WrittenWasDecided`, `EditsAreExact` or `GraphIsExact` of such a run is a conjunction of properties stated and explained in
the modules.

| Part of `services` | Property | Bounds |
|---|---|---|
| `Checkpoints` ("store") | `UndoIsReady`, `MarksStay` | 2 workers, 1 file, 2 commits of which 1 is kept, 1 write, 1 crash |
| `Checkpoints` ("restore") | `RestoreIsExact` | 2 workers, 2 files, 1 checkpoint, 1 write, 1 crash |
| `SessionFiles` | `SessionsAreKept` | 2 threads, 2 sessions, 4 requests, 2 ticks, 1 crash |
| `Conversation` | `NothingForgotten`, `CondensingShrinks` | 2 chats, 1 run, head and tail of 1 turn, condensing at 3 turns or 4 tokens, 1 retry |
| `McpServer` | `WrittenWasDecided`, `NothingOrphaned` | 2 edits, 3 requests, 1 restart |
| `LocalModels` | `OneCallPerObject` | 3 threads, 3 models, 2 loaded, 4 calls |
| `StagedCommands` | `ResultsReachTheirStep` | 3 commands |
| `LlmClient` | `RequestsAreBounded` | the code's 3 retries, 5 objects with prose around them |
| `ModelRouting` | `RoutesAreSound` | 840 settings, 3 clients asked for |
| `RunStream` | `StreamIsComplete` | 2 progress events |
| `InlineCompletion` | `SuggestionsAreCurrent` | 3 requests, 2 texts, a cache of 1 |
| `ToolContext` | `CallsAreBound` (in `WrittenWasDecided`) | 2 workspaces, 2 sessions, 2 runs, 2 executors, 2 pool threads |

| Part of `repository` | Property | Bounds |
|---|---|---|
| `Scanner` | `ScanIsExact` | 4 directories, 5 files, up to 2 patterns at the root and 1 below, 1 file that disappears |
| `CodeGraph` | `GraphIsExact`, `AnswersAreExact` | a package, 2 modules in it and 1 beside it, up to 1 of 7 import statements in each |
| `Planning` | `PlansAreSound` | plans of up to 3 steps with up to 2 dependencies, 5 kinds of call, 1 replan |
| `SymbolIndex` | `LookupsAreRight` | 2 threads, 2 files, 1 name, 2 writes, 2 builds |
| `LineEdits` | `EditsAreExact` | files of up to 3 lines, 2 hunks of up to 2 old and 1 new line |
| `SearchReplace` | `EditsAreExact` | texts of up to 4 characters, searches of up to 2 |
| `PromptBudget` | `BudgetsFit` | the code's window of 8192 tokens, up to 2 turns, sizes around every threshold |
| `RepositoryContext` | `RetrievalIsSound` | 2 threads, 3 files, 2 imports, a budget of 5 |
| `Verification` | `VerdictIsEarned` | 3 files, 2 tests, up to 2 planned files |

Two threads race in every way two can; the third thread of `LocalModels` is the one
whose load evicts. A retention of one among two commits, a cache of one among
two texts and two loaded among three models are at their limits; three requests let the
last race the first two. Threads and items that no definition tells apart are
symmetric (`Interchangeable`).


Deadlock is not checked in the executor, server, services and repository runs: a
system whose requests are answered and whose bounds are spent has nothing left to do.

**Fairness.** `Executor`'s `FairSpec` has weak fairness of `Step(c)` for each
thread: threads run, and what they wait for answers (tools, models and commands
have timeouts, and `subprocess.run` raises at its own). No user is obliged to
call `approve`, `reject`, `cancel` or `run`. `CallsReturn` is checked under it:
a retry gives its iteration back, so termination rests on the retry counter.

`ApiServer`'s `FairSpec` has weak fairness of the loop's steps for a request in hand,
of each worker and of each approver: the loop and the threads run, and what they
call returns, which for executors is `CallsReturn`. No request needs to come.

## What is proved

Every theorem is for all values of the constants. Each proof has the same shape: an
inductive invariant `IInv`, which the initial states satisfy and which each action
preserves, and the property as a consequence of it or of one step from it. Below, what
the invariant adds to the property, and why it has to.

**`ChangeManagerProofs`** (`TypeCorrect`, `ReviewedOnly`, `NothingLost`,
`PrefixOnDisk`, `RollbackRestores`), for every set of paths and texts, every batch
length and every fault. The assumptions are those declared in `PendingEdits` and
`ChangeManager` (absent and unreadable are no texts; bounds are naturals). `IInv` has
`Progress` (the counters relate to the phase and `snapshots` covers exactly the
batch's files), `StillFresh` (an edit still to be written, that no earlier remaining
edit touches, starts from what its file holds: the staleness check establishes it and
each write hands it on) and `ToRestore` (in the rollback, a file not yet restored is
one that an edit still to be undone touched). `NextWriteIsReviewed` alone is not
inductive: after a write it needs the freshness of the next edit, which only
`StillFresh` says.

`ApplyIsAtomic` is the refinement: with `Faults = {}`, that is when nobody else writes
during an `apply_all` and no write tears or restore fails, `ChangeManager` implements
`AtomicBatch`. The abstract workspace is `LogicalDisk`: the disk, and between the
snapshot and the end of `apply_all` what the snapshots remember. The eight steps inside
`apply_all` leave it alone (`HiddenStep`), its end is the abstract one, and every other
step is a step of its own. It needs `BatchIsFresh`, that the batch `apply_all` works on
still passes its check, so that the abstract apply is enabled where the detailed one
ends. With faults the claim is false, as `change_manager_torn` shows.

**`ExecutorProofs`** (`TypeCorrect`, `OneDriver`, `ApprovedAsPaused`, `BudgetsBound`,
`NeverStranded`, `CancellationIsFinal`), for every set of callers and all budgets. The
assumptions are that the budgets are naturals and that "nothing paused" is not a job.
`IInv` adds `Counts` (steps never exceed iterations; at a tool call there is room for
one more step; where a replan is awaited there is budget for it) and `PlansClean` (a
run plans with nothing staged). The proof first shows that every action is of one of
seven kinds (begin, drive on, carry out commands, pause, end, wait, take the pause) and
then that the kinds preserve ownership, the batch and reachability.

**`ApiServerProofs`** (`TypeCorrect`, `Apart`, `OncePerPlan`, `PausedStaysReachable`,
`BusyKept`), for every set of users and approver threads, every capacity and bound.
`TenantsApart` speaks of what runs, so `IInv` says it of what may come to run: the
request in hand, each worker and each approver are in a session of their own user
(`Owned`), an executor stays in the session that built it (`Homed`), and a plan
was shown to the user of the session that holds it (`PlansOwned`) and is in one place,
pending or taken (`PlansOnce`). `PausedIsReachable` rests on `Driven` (each executor
that works is driven by its worker or by the one approver that took its pause) and
`Reachable` (while the only run of a session goes on, its executor is the session's),
`BusyIsKept` on `SeenQuiet`, which remembers the first read of `_is_busy`.

**`CheckpointsProofs`** (`TypeCorrect`, `UndoReady`, `Exact`, `Marked`), for all workers,
files and contents and any retention of at least one. `Good(w)` follows an operation that nobody
disturbed: the commit a create made is the last one, holds the workspace and is not
deleted by any sidecar, temporary file or update on its way (`Recorded`); what a restore is going to
remove is all that is there and not in its checkpoint (`Doomed`), and what it checked out is
there (`CheckedOut`). `OneUpdate` says that while updates of the sidecar have not
overlapped there is one at a time, it has every mark, and the temporary file is its
own. `Bounds` gathers what the theorems assume: bounds are naturals, and a
half-written file and no file are told from a set of marks.

**`RunProofs`**, the five components around a run.
- What a tool call finds (`TypeCorrect`, `CallsBound`), for any workspaces, pool, runs,
  executors and sessions. `Sound(t)`: a thread drives an executor of the session it
  runs for, a thread of a run has that session's root and one of the pool none, and while
  tools are called the gate in its context is its executor's. Assumed: no root is a root,
  pool threads are not run threads, and the bounds are naturals.
- The MCP server (`ServerTypes`, `EditsDecided`, `BatchesReachable`), for every set of
  edits and any number of requests and restarts. An approval is a line in a queue,
  and the batch it meets is the server's: `LastAsked` (no decisive request is queued behind the
  one the client waits for), `ShownIsStaged` (while the user looks at a batch nothing on
  its way may replace it, and it has only what is shown or was called for) and
  `ApprovalMeetsBatch` (an approval on its way is the first decisive request, and the
  staged batch is decided) are what makes `WrittenWasDecided` inductive.
- The staged commands (`StagedTypes`, `ResultsReach`), for any number of commands.
  `StagedInv` says where a batch stands in the steps of a run: the n-th command of the
  batch is the one the n-th placeholder stands for, and outputs taken so far are those of the
  first commands. It is a statement about counts of places, since the backfill knows nothing else;
  what a count is after a step is appended or a placeholder is filled are lemmas of
  their own.
- The events of a run (`StreamTypes`, `StreamComplete`), for any number of events.
  `StreamInv`: what the browser got, what is queued and what is still on the bus are, in this
  order, the events the run emitted, the sentinel is put once and last, and only a slow
  bridge leaves something on the bus when it is put.
- The model client (`ClientTypes`, `RequestsBounded`), for any budget of retries and
  any answers that hold at most one object, with no brace before it, which is found when it is
  alone (`ClientBounds`). `Attempts` counts the requests of a prompt by its attempt
  number, `Repeats` says that what was asked again had failed in a way that passes,
  `LateIsLast` that only the last request may follow a cancel. `Located` is about the
  search: what stands around an object does not change what is found. The scan through the
  characters is a recursive function, and the induction over it is said of a set: the
  numbers at which two scans differ have no least one (`WFMin`). `Whole` and `Barren` are shown of each
  answer that the run uses, by reading it character by character.

**`ChatProofs`**, the five components that serve a user who writes, which share no variable; each
is an instance with theorems of its own.
- The conversation (`TypeCorrect`, `Remembered`, `Shrinking`), for any chats, runs and
  settings of the condenser. `SnapshotServes`: what a worker read in order to condense
  covers every turn that may not be forgotten, is long enough, and opens as the
  conversation does, whoever else condensed since. Assumed: the kept head and tail and
  the retries are naturals.
- The router (`RouterTypeCorrect`, `Routes`), for any settings and number of calls.
  `RouterInv`: every client made is filed under one identity, the clients of the roles
  are among them, and without a gateway only vision can have raised. Assumed: the
  settings are among those the environment can hold.
- The loaded models (`LoadedTypeCorrect`, `OneCall`), for any callers, models and
  capacity. `Guarded(t)`: the object a call fetched is cached under its model until it is
  closed, and till then the lock the call waits for is the model's, so two calls
  on one object wait for one lock. Assumed: the capacity is a natural and the absence of
  a lock is told from locks and from callers.
- The session files (`FilesTypeCorrect`, `SessionsKept`), for any number of threads,
  sessions and requests, with failing saves and crashes. `Prepared(t)`: a thread that
  saves holds the lock of the one manager, and what it saves is the session as it is,
  changed by its request; `Makers`, that nobody else makes the session it makes. `Stamped`
  carries that stamps differ through the records still to be saved, `MessagesOnce` that
  the type invariant's messages are all different. Assumed: finitely many threads, and
  the absence of a thread or a record is told from threads and records.
- The inline completions (`TypingTypes`, `SuggestionsCurrent`), for any texts, cache size
  and number of requests. `Queued`: the timer is that of the last request that waits, and
  every live request but the last was overtaken. `CurrentAt(r)` follows a request from the
  keystroke to the suggestion: its text is the document unless something overtook it, and
  what it puts in the cache or answers is the completion of that text. `Lru`: the cache is
  the end of what was used, without repetition, whatever requests use it between a miss
  and the put.

**`MCServicesProofs`** says it of the composition that `services` runs:
`NoneOrphaned`, `OnlyDecided`, `Remembered`, `Shrinking`, `UndoReady`, `RestoresKept`,
`SessionsKept`, `Shared`, `ResultsReach`, `StreamComplete`, `Requested`, and `TypeCorrect`
for the state of all parts. A step of `MCServices` is one of a part or leaves that part's
variables alone, so a behaviour of the sum is one of each part's specification
(`McpRuns`, `ContextRuns`, `StagedRuns`, `StreamRuns`, `TalkRuns`, `SessionsRun`, `ModelsRun`,
`ClientRuns`, `TypingRuns`). Where parts share
variables or start only when chosen, the invariant of the chosen part is carried through
the sum instead: `StoresHold` for the two that use the checkpoint store with
different bounds, `RoutedHolds` for the router. The `Same...` lemmas say that a component
instantiated with its theorems has the next-state relation of the one that runs.

**`RepositoryProofs`**, five of the parts of `repository`, each proved of its own
specification and then said of the composition (`SafeOrder`, `Lookups`, `Earned`,
`Fitting`, `Retrieval`). The assumptions are `Bounded` of `MCRepository`: bounds,
sizes, costs and scores are naturals, files, names and tests are finite, "nothing" is no
value, and the thread that ranks is a thread.
- The planner (`PlansSafe`, `PlanInductive`), for any calls, step ids and plan sizes.
  `PlanInv` follows Kahn's algorithm: what is out is a sequence of different
  steps of the plan, each after all it depends on, the in-degree of every other step is the number of its
  dependencies that are not out, and the queue holds those at zero. That an accepted plan is
  a permutation of all its steps is a count: as many are out as there are.
- The symbol index (`LookupsHold`, `SymbolInductive`), for any threads, files, names and
  numbers of writes and builds. `SymbolInv` splits the files into those that two refreshes raced for or
  somebody else changed and the `Clean` ones, and says of these what the index lists, and
  what a refresh or a build at work holds and will publish, for each place it can be at.
- The verification (`VerdictsHold`, `VerifierInductive`): the report is a function of
  what git answered and pytest counted, for any files and tests. What remains is about the matching of names and
  the two counts that the risk and the confidence compare.
- The prompts (`PromptsFit`, `PromptInductive`), for any window and message sizes, not only the
  code's. The arithmetic of `PromptInv` is what each part may take of what the parts before it left;
  a division by four is bounded from both sides in a lemma.
- The retrieval (`RetrievalHolds`, `RetrieverInductive`), for any threads, files, imports,
  scores and budget. `Served` (a query holds an index and a graph that were built), `Paired`
  (without overlap a thread in the service is alone in it, and index and graph are of one scan
  whenever nobody is), `Seeded`
  (what has a score by itself stays above what inherits one) and `Shown` (what is shown is a
  prefix of the ranking as far as it fits, and its costs and what is left make up the budget).

Only model-checked:
- `CallsReturn` and `EveryoneIsAnswered`: liveness under fairness is out of the
  prover's reach.
- `ScanIsExact`, `GraphIsExact`, `AnswersAreExact` and `EditsAreExact`: they compare an
  algorithm with a reference definition of what it computes from data (directories, paths in
  the graph, lines and characters). The library's induction theorems take an operator as a
  parameter, which the provers cannot instantiate, and each induction would have to be said of
  a set of its own, as for the model client.
- `TypeOK` of `MCRepository`: it is the sum of the types of all parts, four of
  which are those of the previous point.


## Disagreements found

- `change_manager_torn`: `apply_all` promises to restore every file it touched;
  a file joins `applied` after its write returned, so a file whose write fails after
  truncating it is not restored. One edit is enough.
- `executor_rerun`: a batch of commands is kept whole when one of them fails, so
  those that had run are run again by the next approval.
- `api_stuck`: a run that raises, or an approval that raises or ends as cancelled,
  leaves its executor in the session: `is_running()` stays true with no thread at
  work, and "A run is already in progress." is the answer for ever.
- `api_evicted`: `docs/DEPLOYMENT.md` says a session that is mid-run or paused is
  never evicted; the two reads of `_is_busy` let a run get going, or be resumed, between
  them. `BusyIsKept` is what does hold: a session whose activity did not change
  between the reads is kept.
- `workspace_lost`: the file tools resolve relative paths against the session's
  workspace, but that root belongs to a thread and only the thread that starts a run
  sets it. The plan that goes on after an approval runs on a thread of asyncio's pool
  and works in the directory of the server process.
- Not a run: `take_paused` says a duplicate approval is reported. Its check (`executor.py:786`)
  and the taking (`executor.py:791`) are apart; if the winner has meanwhile applied, resumed and
  paused again, the loser approves that new batch.
- Not a run: when every other session is busy, the eviction over capacity removes the session just
  made for the request; the user is served by it but their next request gets another,
  so the first run can be neither seen nor approved (`tenancy.py:138`).
- Not a run: two run requests that both pass the check before either worker has
  installed its executor, or one while a batch awaits approval, leave the earlier batch
  unreachable. `PausedIsReachable` is therefore about sessions with one run.
- Not a run: `README.md:108` says that nothing touches the disk until a human approves it. A
  `tools/call` while a run is paused stages into the paused batch (`server.py:573`) after
  its report was sent, and the next approval writes it unseen. `BatchIsTheOnePaused` and
  `WrittenWasDecided` let such edits through, as edits somebody called for directly.
- Not a run: `scanner.py:105-107` and `scanner.py:321-323` say that files over the size
  limit are included in the scan result, without a hash. `scanner.py:422` skips them, and
  `tests/repository/test_scanner.py:696` expects that. `ScanIsExact` follows the code.
- Not a run: `confidence.py:56-80` names the tools that write; `plan_validator.py:67-74` and
  `plan_validator.py:207` check only some of them. A plan that appends to, deletes, renames or edits a
  symbol of a file it has not read is accepted, and so are two appends to one path.
- Not a run: `context.py:198-200` calls `max_context_tokens` a hard cap on the cost of
  the output string; the header with the query and the names in cycles, and the separators, are
  added outside it (`context.py:297-299`). `SectionsFit` is about the sections.
- Not a run: one selected test file that cannot be collected ends the whole pytest session
  (`verification.py:123-131` does not ask it to go on), neither `passed` nor `failed` is in the output, and the
  verdict is SUCCESS whatever the other tests would have shown, with full confidence if git reports
  exactly the planned files. The same holds after a time-out (`verification.py:255`) and
  an error of the runner (`verification.py:258`). No document says otherwise, but "SUCCESS" does.
- Not a run: `condenser.py:143` says condensing "requires at least head + tail + 1 middle
  turn"; the code compares with `>` and needs one turn more.
- Not a run: `subprocess.TimeoutExpired` escapes `approve` after the pause was
  consumed, so the commands are staged with nothing that could approve or reject
  them until the next discard. `NothingStranded` exempts exactly this case.

## Known divergences without a run

Places where the code does something a reader may not expect. The models have the
behaviour, or say where they leave it out; the properties are stated so that they
hold beside it.

Executor and gates
- A tool that raises after it staged some edits leaves them in the batch
  (`executor.py:1353`).
- A run that pauses after an unrecoverable failure goes on with the rest of its plan when
  approved (`executor.py:1490`), and a later reflection is shown the verification of an
  earlier approval (`executor.py:1031`).
- An approved git command leaves a placeholder the backfill does not know, so its output
  goes to the next step that has one (`executor.py:849`).
- After `TimeoutExpired` the command approver stays active: direct commands are then
  staged in a manager nobody can approve.
- `git_undo_last` runs without approval, in a run too; `git_commit` after a staged
  `git_stage` is refused because nothing is staged yet.
- Verification: renamed and quoted files, files in new directories and workspaces below the
  repository's root come back under other names, so a planned file looks unchanged.

State
- Concurrent saves of the sidecar can tear it; it then reads as empty. A
  checkpoint of an empty workspace cannot be restored, and a failing `ls-tree` makes
  every file look added since.
- A chat retried after an emergency condensation sends its message twice. `maybe_condense` outside the `try` of a chat raises when
  few turns hold many tokens.
- An eviction forgets a model's lock while a thread holds it, and that thread generates
  on a closed object.
- When a run raises, "error" may come before "run_failed" and a second error after it; an
  event emitted after the bus is closed is lost; a bridge slower than the join may
  deliver `run_complete` after the result, or never.
- Inline completion: cancelling an older request clears the newer one's timer, which
  never resolves; the cache key ignores the language.

Models
- Auth errors are prompted once more by `_plan_with_retry`; the first `{` of the prose
  decides which object is taken.
- The fallback "to local" with a gateway key builds a remote client, and autocomplete with that
  key goes remote under the name of a GGUF file. `describe()` names the configured
  provider also after a fallback.

Workspace
- A negated pattern that takes a directory back (`/*` with `!/src/`, `*` with `!src`) is
  not treated as git does.
- A refresh that meets a build or another refresh leaves the symbol index stale; a build
  lists files a refresh would drop, and a refresh changes which definition comes first.
- `RepositoryService.invalidate` has no caller; two builds can pair an index with
  the graph of another version of the workspace.
- `from package import module` makes an edge to the package's `__init__` only.
- The normalised replacement takes the white space before its match with it; a hunk
  without old lines goes in before the line it names; `insert_after` on a last
  line without newline glues two lines; form feeds shift the symbol editor's lines.
- An allowance of zero or less means "no limit" to `truncate_to_tokens`, so a prompt
  without room for context gets all of it.
- Equal steps of a plan are not kept in the order in which it declares them.

## Not modelled

- Web UI, CLI, web tools, configuration, prompts and personality: rendering, I/O and wording.
  The CLI's loop is `Executor`'s caller.
- Tool registry, dispatcher, headless policy: static tables and a pure decision.
- Workspace memory: lists one thread appends to, rendered as text.
- Language parsers: regular expressions and `ast` over characters; `Scanner` and
  `SymbolIndex` take what they return as given.
- PageRank and the call and inheritance edges of the graph: floating point, and names
  found by regular expression.
- The rename and import refactorings of `refactor_tools.py`: regular expressions over text.
- Request plumbing of the server.
- Report contents, progress wording, prompt and reply texts.
- The migration of the old session store, which is one atomic step of `Init`.
- Fine-tuning, benchmarks and packaging: not part of the running system.

## Plan

Done: the approval gate and its refinement, the executor, the shared server, and the
parts of `services` and `repository`; the theorems above, which cover every safety
property of the gate, the executor and the server, those of nine services, and those of five parts of
`repository`.

Runs stay at one per question and twelve in all, so a later module joins one of the two
sums.
