------------------------------ MODULE ToolContext ------------------------------
(*****************************************************************************)
(* What a tool finds around it when it is called: the workspace root, which   *)
(* is thread-local (src/config/workspace.py), and the gate its edits and      *)
(* commands are staged in, a context variable (src/tools/edit_tools.py,       *)
(* src/tools/shell_tools.py).  The web server runs a task on a thread of its  *)
(* own, decides it on the threads of asyncio's pool, and may replace the      *)
(* session meanwhile, for another workspace or another provider.              *)
(*                                                                           *)
(* A new thread starts without a root and with an empty context; a thread of  *)
(* the pool keeps its root and runs every job in a copy of the request's       *)
(* context, which holds no gate.  What an execution does between tool calls    *)
(* is Executor's; this is the single-user instance, where sessions can be      *)
(* replaced.                                                                 *)
(*****************************************************************************)
EXTENDS Naturals, Sequences

CONSTANTS Roots,        \* directories a session may work in
          Cwd,          \* the working directory of the server process
          Pool,         \* threads of asyncio.to_thread
          None,         \* no root, no gate
          MaxRuns,      \* bound: /api/run requests
          MaxExecutors, \* bound: executors made, with those of context retries
          MaxSessions   \* bound: sessions made

Threads == Pool \cup 1 .. MaxRuns

VARIABLES roots,     \* PearlSession.workspace of each session; the last one serves
          serving,   \* PearlSession._executor of each session, or None
          executors, \* each executor: its session, and "running", "paused" or "over"
          thread,    \* what each thread does, for which session and executor
          root,      \* _local.root of each thread
          gate,      \* the executor whose managers are active in a thread's context
          call       \* the last tool call

vars == <<roots, serving, executors, thread, root, gate, call>>

Idle == [at |-> "idle", session |-> 0, executor |-> None]
NoCall == [by |-> None, executor |-> None, root |-> None, gate |-> None]
Executors == 1 .. MaxExecutors

TypeOK ==
    /\ Len(roots) \in 1 .. MaxSessions /\ DOMAIN serving = DOMAIN roots
    /\ \A n \in DOMAIN roots : roots[n] \in Roots /\ serving[n] \in {None} \cup DOMAIN executors
    /\ \A e \in DOMAIN executors :
         executors[e].session \in DOMAIN roots /\ executors[e].state \in {"running", "paused", "over"}
    /\ \A t \in Threads :
         /\ thread[t].at \in {"idle", "spawned", "entered", "begin", "running",
                              "approving", "applying", "rejecting"}
         /\ root[t] \in Roots \cup {None} /\ gate[t] \in Executors \cup {None}

Init ==
    /\ \E w \in Roots : roots = <<w>>
    /\ serving = <<None>> /\ executors = <<>>
    /\ thread = [t \in Threads |-> Idle]
    /\ root = [t \in Threads |-> None]
    /\ gate = [t \in Threads |-> None]
    /\ call = NoCall

-----------------------------------------------------------------------------
(* The thread of a run: _run_worker and run_autonomous_stream.               *)

Current == Len(roots)
At(t, label) == thread[t].at = label
Session(t) == thread[t].session
Driven(t) == thread[t].executor
GoTo(t, label) == thread' = [thread EXCEPT ![t].at = label]

IsRunning(n) == serving[n] # None /\ executors[serving[n]].state # "paused"
IsAwaiting(n) == serving[n] # None /\ executors[serving[n]].state = "paused"

\* The job ends, and its context with it; the thread-local root stays.
Leave(t) == /\ thread' = [thread EXCEPT ![t] = Idle]
            /\ gate' = [gate EXCEPT ![t] = None]

Become(e, state) == executors' = [executors EXCEPT ![e].state = state]

Unused(t) == t \notin Pool /\ At(t, "idle") /\ root[t] = None
Spawned == {t \in 1 .. MaxRuns : ~Unused(t)}

RunAutonomous ==
    /\ ~IsRunning(Current)
    /\ \E t \in 1 .. MaxRuns :
         /\ Spawned = 1 .. t - 1
         /\ thread' = [thread EXCEPT ![t] = [at |-> "spawned", session |-> Current, executor |-> None]]
    /\ UNCHANGED <<roots, serving, executors, root, gate, call>>

SetWorkspaceRoot(t) ==
    /\ At(t, "spawned") /\ GoTo(t, "entered")
    /\ root' = [root EXCEPT ![t] = roots[Session(t)]]
    /\ UNCHANGED <<roots, serving, executors, gate, call>>

\* The executor is installed in the session.
NewExecutor(t) ==
    LET e == Len(executors) + 1
    IN  /\ e <= MaxExecutors
        /\ executors' = Append(executors, [session |-> Session(t), state |-> "running"])
        /\ serving' = [serving EXCEPT ![Session(t)] = e]
        /\ thread' = [thread EXCEPT ![t].at = "begin", ![t].executor = e]
        /\ UNCHANGED <<roots, root, gate, call>>

Install(t) == At(t, "entered") /\ NewExecutor(t)

\* A context too long leaves the old executor's gate active until the new one runs.
ContextTooLong(t) == t \notin Pool /\ At(t, "running") /\ NewExecutor(t)

\* AutonomousExecutor.run activates its gates.
Run(t) ==
    /\ At(t, "begin") /\ GoTo(t, "running")
    /\ gate' = [gate EXCEPT ![t] = Driven(t)]
    /\ UNCHANGED <<roots, serving, executors, root, call>>

-----------------------------------------------------------------------------
(* A tool call of an execution.                                              *)

GetWorkspaceRoot(t) == IF root[t] = None THEN Cwd ELSE root[t]

\* Paths and working directories are resolved against the root; with a gate the
\* edit or command is staged there, without one it takes effect at once.
CallTool(t) ==
    /\ At(t, "running")
    /\ call' = [by |-> t, executor |-> Driven(t), root |-> GetWorkspaceRoot(t), gate |-> gate[t]]
    /\ UNCHANGED <<roots, serving, executors, thread, root, gate>>

Pause(t) ==
    /\ At(t, "running")
    /\ Become(Driven(t), "paused") /\ Leave(t)
    /\ UNCHANGED <<roots, serving, root, call>>

\* The report is made and the session lets go of its executor, whichever it is.
Finish(t) ==
    /\ At(t, "running")
    /\ Become(Driven(t), "over") /\ Leave(t)
    /\ serving' = [serving EXCEPT ![Session(t)] = None]
    /\ UNCHANGED <<roots, root, call>>

\* The execution raises: the session keeps the executor.
Raises(t) ==
    /\ At(t, "running") \/ At(t, "applying")
    /\ Leave(t)
    /\ UNCHANGED <<roots, serving, executors, root, call>>

-----------------------------------------------------------------------------
(* Decisions, on a thread of the pool.                                       *)

Decide(t, label) ==
    /\ t \in Pool /\ At(t, "idle")
    /\ IsAwaiting(Current)
    /\ thread' = [thread EXCEPT ![t] =
                    [at |-> label, session |-> Current, executor |-> serving[Current]]]
    /\ UNCHANGED <<roots, serving, executors, root, gate, call>>

\* A file changed since it was shown, or another decision took the pause first.
Refused(t) ==
    /\ At(t, "approving") \/ (At(t, "rejecting") /\ executors[Driven(t)].state # "paused")
    /\ Leave(t)
    /\ UNCHANGED <<roots, serving, executors, root, call>>

Approve(t) ==
    /\ At(t, "approving") /\ executors[Driven(t)].state = "paused"
    /\ Become(Driven(t), "running") /\ GoTo(t, "applying")
    /\ UNCHANGED <<roots, serving, root, gate, call>>

\* The batch is applied and verified; the rest of the plan runs on this thread.
Resume(t) ==
    /\ At(t, "applying") /\ GoTo(t, "running")
    /\ gate' = [gate EXCEPT ![t] = Driven(t)]
    /\ UNCHANGED <<roots, serving, executors, root, call>>

Reject(t) ==
    /\ At(t, "rejecting") /\ executors[Driven(t)].state = "paused"
    /\ Become(Driven(t), "over") /\ Leave(t)
    /\ serving' = [serving EXCEPT ![Session(t)] = None]
    /\ UNCHANGED <<roots, root, call>>

-----------------------------------------------------------------------------
(* /api/workspace and /api/provider put a new session in the old one's place, *)
(* whose run goes on.                                                        *)

NewSession(w) ==
    /\ Len(roots) < MaxSessions
    /\ roots' = Append(roots, w) /\ serving' = Append(serving, None)
    /\ UNCHANGED <<executors, thread, root, gate, call>>

SetWorkspace == \E w \in Roots : NewSession(w)
SetProvider == NewSession(roots[Current])

Execution(t) == SetWorkspaceRoot(t) \/ Install(t) \/ ContextTooLong(t) \/ Run(t)
                  \/ CallTool(t) \/ Pause(t) \/ Finish(t) \/ Raises(t)
Decision(t) ==
    \/ Decide(t, "approving") \/ Approve(t) \/ Resume(t)
    \/ Decide(t, "rejecting") \/ Reject(t) \/ Refused(t)

Next == \/ RunAutonomous \/ SetWorkspace \/ SetProvider
        \/ \E t \in Threads : Execution(t) \/ Decision(t)

Spec == Init /\ [][Next]_vars

-----------------------------------------------------------------------------
Home(e) == roots[executors[e].session]

\* Whatever threads start, retry and resume a run, and whichever runs of replaced
\* sessions go on beside it, a tool call stages in the gate of its own executor,
\* the one its approval applies.  Paths are resolved in the workspace of its own
\* session only on the thread that started the run; after an approval they are
\* resolved in the directory of the process.  No root is left over from another
\* session (workspace.py: "so that concurrent Pearl sessions (one thread each)
\* never bleed workspace paths into one another").
CallsAreBound ==
    call # NoCall =>
        /\ call.gate = call.executor
        /\ call.root = IF call.by \in Pool THEN Cwd ELSE Home(call.executor)

\* A path is resolved in the workspace of the session it was planned for, before
\* an approval and after it (file_tools.py: "Relative paths resolve against the
\* workspace root, not the process working directory").
PathsResolveAtHome == call # NoCall => call.root = Home(call.executor)
=============================================================================
