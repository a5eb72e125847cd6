-------------------------------- MODULE Executor --------------------------------
(*****************************************************************************)
(* AutonomousExecutor of src/src/agent/executor.py with the two approval     *)
(* gates it owns: the staged file edits (ChangeManager, whose batch takes    *)
(* effect as AtomicBatch says) and the staged shell commands                 *)
(* (CommandApprovalManager).  A caller is a thread inside run(), approve()   *)
(* or reject(); cancel() may come from any thread at any time, and an MCP    *)
(* client may call tools while a run is paused.  What a tool, the planner, a *)
(* command, the tests or the reflection answer is free.                      *)
(*****************************************************************************)
EXTENDS Naturals, FiniteSets, FiniteSetsExt

CONSTANTS
    Callers,         \* threads that call the executor
    NoJob,           \* nothing is paused
    MaxIterations,   \* max_iterations
    MaxReplans,      \* max_replans
    MaxRetries,      \* max_retries
    MaxReflections,  \* the reflection engine's own budget
    MaxPlan,         \* bound: steps of a plan
    MaxItems,        \* bound: edits and commands staged in all
    MaxOutside,      \* bound: those staged by calls from outside a run
    MaxRuns          \* run() calls on one executor: one in the API, MCP and CLI

ASSUME ExecutorAssumption ==
    /\ MaxIterations \in Nat
    /\ MaxReplans \in Nat
    /\ MaxRetries \in Nat
    /\ MaxReflections \in Nat
    /\ MaxPlan \in Nat \ {0}
    /\ MaxItems \in Nat
    /\ MaxOutside \in Nat
    /\ MaxRuns \in Nat

VARIABLES
    pc,          \* where each caller is
    job,         \* the execution a caller drives: the locals of _execute
    paused,      \* ApprovalCoordinator._paused
    edits,       \* items in ChangeManager._pending
    commands,    \* items in CommandApprovalManager._pending
    cancelled,   \* _cancel_event
    reflections  \* ReflectionEngine._iteration

\* Ghost variables.
VARIABLES
    runs,        \* run() calls so far
    used,        \* items 1..used have been staged so far
    ran,         \* how often each item took effect (2: more than once)
    timedOut,    \* a command timed out in approve_all: its batch is still staged
    joined       \* items that a tools/call from outside the run staged

gates == <<edits, commands>>
engine == <<cancelled, reflections, runs, joined>>
ghosts == <<used, ran, timedOut>>
vars == <<pc, job, paused, gates, engine, ghosts>>

Items == 1..MaxItems
Staged == edits \cup commands

StopReasons == {"none", "completed", "max_iterations", "fatal_error", "cancelled"}

\* plan: tool calls still to make; tries: retries of the present one; failedOnce:
\* _failed_action_counts is not empty; shown: what was staged when it paused;
\* todo: the commands approve_all has yet to run; wrote: `applied` is not empty.
Job == [plan : 0..MaxPlan, iter : Nat, replans : Nat, steps : Nat,
        tries : 0..MaxRetries, failedOnce : BOOLEAN, stop : StopReasons,
        shown : SUBSET Items, todo : SUBSET Items, wrote : BOOLEAN]

Fresh == [plan |-> 0, iter |-> 0, replans |-> 0, steps |-> 0, tries |-> 0,
          failedOnce |-> FALSE, stop |-> "none", shown |-> {}, todo |-> {},
          wrote |-> FALSE]

ASSUME NoJobAssumption == NoJob \notin Job

\* A caller at one of these owns the execution: it alone may stage, apply or run.
Driving == {"planning", "loop", "tool", "failed", "replanning", "finish", "verdict",
            "revising", "teardown", "apply", "commands", "verify", "retesting",
            "discard"}
Waiting == {"gate", "take"}       \* approve() that has not taken the pause yet

Drivers == {c \in Callers : pc[c] \in Driving}

TypeOK ==
    /\ pc \in [Callers -> Driving \cup Waiting \cup {"out"}]
    /\ job \in [Callers -> Job]
    /\ paused \in Job \cup {NoJob}
    /\ edits \subseteq Items
    /\ commands \subseteq Items
    /\ cancelled \in BOOLEAN
    /\ reflections \in Nat
    /\ runs \in 0..MaxRuns
    /\ used \in 0..MaxItems
    /\ ran \in [Items -> 0..2]
    /\ timedOut \in BOOLEAN
    /\ joined \subseteq Items

Init ==
    /\ pc = [c \in Callers |-> "out"]
    /\ job = [c \in Callers |-> Fresh]
    /\ paused = NoJob
    /\ edits = {}
    /\ commands = {}
    /\ cancelled = FALSE
    /\ reflections = 0
    /\ runs = 0
    /\ used = 0
    /\ ran = [i \in Items |-> 0]
    /\ timedOut = FALSE
    /\ joined = {}

-----------------------------------------------------------------------------
(* Helpers.                                                                  *)

At(c, where) == pc[c] = where
GoTo(c, where) == pc' = [pc EXCEPT ![c] = where]

Return(c) ==
    /\ GoTo(c, "out")
    /\ job' = [job EXCEPT ![c] = Fresh]

\* The next n items.
New(n) == (used + 1)..(used + n)

\* An item takes effect: an edit reaches disk, a command runs to its end.
TakeEffect(items) ==
    ran' = [i \in Items |-> IF i \in items THEN (IF ran[i] = 0 THEN 1 ELSE 2)
                                           ELSE ran[i]]

Discard ==
    /\ edits' = {}
    /\ commands' = {}
    /\ timedOut' = FALSE

\* _check_awaiting_approval, then _finish_or_pause: pause when anything is
\* staged, else end with `stop`.
PauseOrFinish(c, j, stop) ==
    IF Staged # {}
    THEN /\ paused' = [j EXCEPT !.shown = Staged, !.tries = 0, !.failedOnce = FALSE,
                                !.wrote = FALSE]
         /\ GoTo(c, "out")
         /\ job' = [job EXCEPT ![c] = Fresh]
    ELSE /\ job' = [job EXCEPT ![c] = [j EXCEPT !.stop = stop]]
         /\ GoTo(c, "finish")
         /\ UNCHANGED paused

-----------------------------------------------------------------------------
(* run().  Its callers start one run at a time on an executor (the API, MCP  *)
(* server and CLI build an executor per run; Agent calls it from one thread),*)
(* and the code itself refuses to run while paused.                          *)

BeginRun(c) ==
    /\ At(c, "out")
    /\ Drivers = {}
    /\ paused = NoJob
    /\ runs < MaxRuns
    /\ runs' = runs + 1
    /\ reflections' = 0
    /\ IF cancelled THEN UNCHANGED pc ELSE GoTo(c, "planning")
    /\ UNCHANGED <<job, paused, gates, cancelled, joined, ghosts>>

PlanReturns(c, n) ==
    /\ At(c, "planning")
    /\ GoTo(c, "loop")
    /\ job' = [job EXCEPT ![c] = [Fresh EXCEPT !.plan = n]]
    /\ UNCHANGED <<paused, gates, engine, ghosts>>

\* Both planning attempts failed, or the planner saw the cancellation.
PlanFails(c) ==
    /\ At(c, "planning")
    /\ Return(c)
    /\ UNCHANGED <<paused, gates, engine, used, ran, timedOut>>

-----------------------------------------------------------------------------
(* _execute: one tool call after the other.                                  *)

\* The iteration that would exceed the budget is not started.  `iteration` is
\* only compared with the budget, so it is counted no further.
IterationsExhausted(c) ==
    /\ At(c, "loop")
    /\ job[c].plan > 0
    /\ job[c].iter >= MaxIterations
    /\ PauseOrFinish(c, [job[c] EXCEPT !.iter = MaxIterations + 1], "max_iterations")
    /\ UNCHANGED <<gates, engine, used, ran, timedOut>>

Popped(c) == [job[c] EXCEPT !.plan = @ - 1, !.iter = @ + 1]

HasStep(c) == At(c, "loop") /\ job[c].plan > 0 /\ job[c].iter < MaxIterations

\* The "none" tool ends the loop, whatever the plan has after it.
NoToolNeeded(c) ==
    /\ HasStep(c)
    /\ PauseOrFinish(c, [Popped(c) EXCEPT !.steps = @ + 1], "completed")
    /\ UNCHANGED <<gates, engine, used, ran, timedOut>>

StepCancelled(c) ==
    /\ HasStep(c)
    /\ cancelled
    /\ job' = [job EXCEPT ![c] = [Popped(c) EXCEPT !.stop = "cancelled"]]
    /\ GoTo(c, "finish")
    /\ UNCHANGED <<paused, gates, engine, ghosts>>

CallTool(c) ==
    /\ HasStep(c)
    /\ ~cancelled
    /\ job' = [job EXCEPT ![c] = Popped(c)]
    /\ GoTo(c, "tool")
    /\ UNCHANGED <<paused, gates, engine, ghosts>>

\* The tool succeeds, having staged `files` edits and `cmds` commands.
ToolSucceeds(c, files, cmds) ==
    /\ At(c, "tool")
    /\ used + files + cmds <= MaxItems
    /\ edits' = edits \cup New(files)
    /\ commands' = commands \cup (New(files + cmds) \ New(files))
    /\ used' = used + files + cmds
    /\ job' = [job EXCEPT ![c].steps = @ + 1, ![c].tries = 0]
    /\ GoTo(c, "loop")
    /\ UNCHANGED <<paused, engine, ran, timedOut>>

ToolRetriedForever(c, files) ==   \* mutant: the attempt is not counted
    /\ At(c, "tool")
    /\ job[c].tries < MaxRetries
    /\ used + files <= MaxItems
    /\ edits' = edits \cup New(files)
    /\ used' = used + files
    /\ job' = [job EXCEPT ![c].plan = @ + 1, ![c].iter = @ - 1]
    /\ GoTo(c, "loop")
    /\ UNCHANGED <<paused, commands, engine, ran, timedOut>>

ToolRetriedUnpopped(c, files) ==   \* mutant: the plan still had the call
    /\ At(c, "tool")
    /\ job[c].tries < MaxRetries
    /\ used + files <= MaxItems
    /\ edits' = edits \cup New(files)
    /\ used' = used + files
    /\ job' = [job EXCEPT ![c].plan = @ + 2, ![c].iter = @ - 1, ![c].tries = @ + 1]
    /\ GoTo(c, "loop")
    /\ UNCHANGED <<paused, commands, engine, ran, timedOut>>

\* A transient error: the same call goes back to the front of the plan.  The tool
\* may have staged some of its edits before it raised (batch_write_files,
\* rename_symbol).
ToolRetried(c, files) ==
    /\ At(c, "tool")
    /\ job[c].tries < MaxRetries
    /\ used + files <= MaxItems
    /\ edits' = edits \cup New(files)
    /\ used' = used + files
    /\ job' = [job EXCEPT ![c].plan = @ + 1, ![c].iter = @ - 1, ![c].tries = @ + 1]
    /\ GoTo(c, "loop")
    /\ UNCHANGED <<paused, commands, engine, ran, timedOut>>

\* Any other error, with the same remark.  A transient error ends here too when
\* the attempts are used up, or when the counter is that of a freed call whose
\* id() this one was given.
ToolFails(c, files) ==
    /\ At(c, "tool")
    /\ used + files <= MaxItems
    /\ edits' = edits \cup New(files)
    /\ used' = used + files
    /\ job' = [job EXCEPT ![c].steps = @ + 1, ![c].tries = 0]
    /\ GoTo(c, "failed")
    /\ UNCHANGED <<paused, commands, engine, ran, timedOut>>

\* The same action failed twice in this _execute(), or the replans are used up.
GiveUp(c) ==
    /\ At(c, "failed")
    /\ job[c].failedOnce \/ job[c].replans >= MaxReplans
    /\ PauseOrFinish(c, job[c], "fatal_error")
    /\ UNCHANGED <<gates, engine, used, ran, timedOut>>

StopBeforeReplan(c) ==
    /\ At(c, "failed")
    /\ job[c].replans < MaxReplans
    /\ cancelled
    /\ job' = [job EXCEPT ![c].stop = "cancelled"]
    /\ GoTo(c, "finish")
    /\ UNCHANGED <<paused, gates, engine, ghosts>>

AskReplan(c) ==
    /\ At(c, "failed")
    /\ job[c].replans < MaxReplans
    /\ ~cancelled
    /\ job' = [job EXCEPT ![c].failedOnce = TRUE]
    /\ GoTo(c, "replanning")
    /\ UNCHANGED <<paused, gates, engine, ghosts>>

ReplanReturns(c, n) ==
    /\ At(c, "replanning")
    /\ job' = [job EXCEPT ![c].plan = n, ![c].replans = @ + 1]
    /\ GoTo(c, "loop")
    /\ UNCHANGED <<paused, gates, engine, ghosts>>

ReplanFails(c) ==
    /\ At(c, "replanning")
    /\ PauseOrFinish(c, job[c], "fatal_error")
    /\ UNCHANGED <<gates, engine, used, ran, timedOut>>

ReplanCancelled(c) ==
    /\ At(c, "replanning")
    /\ cancelled
    /\ job' = [job EXCEPT ![c].stop = "cancelled"]
    /\ GoTo(c, "finish")
    /\ UNCHANGED <<paused, gates, engine, ghosts>>

PlanDone(c) ==
    /\ At(c, "loop")
    /\ job[c].plan = 0
    /\ PauseOrFinish(c, job[c], "completed")
    /\ UNCHANGED <<gates, engine, used, ran, timedOut>>

-----------------------------------------------------------------------------
(* _finish_or_pause: reflection may send the finished run back for more.     *)

Reflects(c) == job[c].stop \in {"completed", "max_iterations"} /\ ~cancelled

SkipReflection(c) ==
    /\ At(c, "finish")
    /\ ~Reflects(c)
    /\ GoTo(c, "teardown")
    /\ UNCHANGED <<job, paused, gates, engine, ghosts>>

Reflect(c) ==
    /\ At(c, "finish")
    /\ Reflects(c)
    /\ reflections' = reflections + 1
    /\ \E verdict \in {"verdict", "teardown"} : GoTo(c, verdict)
    /\ UNCHANGED <<job, paused, gates, cancelled, runs, joined, ghosts>>

\* The verdict is "replan": bounded by both budgets and by cancellation.
FollowVerdict(c) ==
    /\ At(c, "verdict")
    /\ GoTo(c, IF /\ job[c].replans < MaxReplans
                  /\ reflections < MaxReflections
                  /\ ~cancelled
               THEN "revising"
               ELSE "teardown")
    /\ UNCHANGED <<job, paused, gates, engine, ghosts>>

RevisionReturnsUncounted(c, n) ==   \* mutant: the iterations start over
    /\ At(c, "revising")
    /\ job' = [job EXCEPT ![c].plan = n, ![c].replans = @ + 1, ![c].iter = 0,
                          ![c].tries = 0, ![c].failedOnce = FALSE, ![c].stop = "none"]
    /\ GoTo(c, "loop")
    /\ UNCHANGED <<paused, gates, engine, ghosts>>

\* _replan_from_reflection: a new _execute() that counts from the steps made.
RevisionReturns(c, n) ==
    /\ At(c, "revising")
    /\ job' = [job EXCEPT ![c].plan = n, ![c].replans = @ + 1, ![c].iter = job[c].steps,
                          ![c].tries = 0, ![c].failedOnce = FALSE, ![c].stop = "none"]
    /\ GoTo(c, "loop")
    /\ UNCHANGED <<paused, gates, engine, ghosts>>

\* The planner raises or has nothing to add: the report stands as it is.
RevisionFails(c) ==
    /\ At(c, "revising")
    /\ GoTo(c, "teardown")
    /\ UNCHANGED <<job, paused, gates, engine, ghosts>>

Teardown(c) ==
    /\ At(c, "teardown")
    /\ Discard
    /\ Return(c)
    /\ UNCHANGED <<paused, engine, used, ran>>

-----------------------------------------------------------------------------
(* approve().  Its callers only call it while a run is awaiting approval;    *)
(* two of them may do so at once, and the one that calls may find the run    *)
(* gone when it gets to the lock.                                            *)

ApproveCalled(c) ==
    /\ At(c, "out")
    /\ paused # NoJob
    /\ GoTo(c, "gate")
    /\ UNCHANGED <<job, paused, gates, engine, ghosts>>

\* StaleFileError: only edits can be stale; the run stays paused.
GateRefuses(c) ==
    /\ At(c, "gate")
    /\ edits # {}
    /\ Return(c)
    /\ UNCHANGED <<paused, gates, engine, used, ran, timedOut>>

GatePasses(c) ==
    /\ At(c, "gate")
    /\ GoTo(c, "take")
    /\ UNCHANGED <<job, paused, gates, engine, ghosts>>

TakeWithoutClearing(c) ==   \* mutant: the pause is read and cleared later
    /\ At(c, "take")
    /\ paused # NoJob
    /\ job' = [job EXCEPT ![c] = paused]
    /\ GoTo(c, IF cancelled THEN "discard" ELSE "apply")
    /\ UNCHANGED <<paused, gates, engine, ghosts>>

TakeIgnoringCancel(c) ==   \* mutant: the cancellation is not looked at
    /\ At(c, "take")
    /\ paused # NoJob
    /\ job' = [job EXCEPT ![c] = paused]
    /\ paused' = NoJob
    /\ GoTo(c, "apply")
    /\ UNCHANGED <<gates, engine, ghosts>>

\* take_paused pops the pause under the lock.
TakePaused(c) ==
    /\ At(c, "take")
    /\ paused # NoJob
    /\ job' = [job EXCEPT ![c] = paused]
    /\ paused' = NoJob
    /\ GoTo(c, IF cancelled THEN "discard" ELSE "apply")
    /\ UNCHANGED <<gates, engine, ghosts>>

\* The loser of a race: RuntimeError.
NothingToTake(c) ==
    /\ At(c, "take")
    /\ paused = NoJob
    /\ Return(c)
    /\ UNCHANGED <<paused, gates, engine, used, ran, timedOut>>

\* apply_all: the whole batch, or an exception and none of it.
Apply(c) ==
    /\ At(c, "apply")
    /\ TakeEffect(edits)
    /\ edits' = {}
    /\ job' = [job EXCEPT ![c].wrote = (edits # {}), ![c].todo = commands]
    /\ GoTo(c, "commands")
    /\ UNCHANGED <<paused, commands, engine, used, timedOut>>

ApplyFailsStranded(c) ==   \* mutant: the pause does not come back
    /\ At(c, "apply")
    /\ edits # {}
    /\ Return(c)
    /\ UNCHANGED <<paused, gates, engine, used, ran, timedOut>>

ApplyFailsSwallowed(c) ==   \* mutant: paused again, but the run goes on
    /\ At(c, "apply")
    /\ edits # {}
    /\ paused' = job[c]
    /\ GoTo(c, "loop")
    /\ UNCHANGED <<job, gates, engine, ghosts>>

\* The pause comes back with the batch.
ApplyFails(c) ==
    /\ At(c, "apply")
    /\ edits # {}
    /\ paused' = job[c]
    /\ Return(c)
    /\ UNCHANGED <<gates, engine, used, ran, timedOut>>

\* CommandApprovalManager.approve_all: in order, stopping at the first failure.
RunCommand(c) ==
    /\ At(c, "commands")
    /\ job[c].todo # {}
    /\ TakeEffect({Min(job[c].todo)})
    /\ job' = [job EXCEPT ![c].todo = @ \ {Min(@)}]
    /\ UNCHANGED <<pc, paused, gates, engine, used, timedOut>>

CommandsDone(c) ==
    /\ At(c, "commands")
    /\ job[c].todo = {}
    /\ commands' = {}
    /\ timedOut' = FALSE
    /\ GoTo(c, "verify")
    /\ UNCHANGED <<job, paused, edits, engine, used, ran>>

\* A non-zero exit: caught, and the whole batch of commands stays staged.
CommandFails(c) ==
    /\ At(c, "commands")
    /\ job[c].todo # {}
    /\ job' = [job EXCEPT ![c].todo = {}]
    /\ GoTo(c, "verify")
    /\ UNCHANGED <<paused, gates, engine, ghosts>>

\* subprocess.TimeoutExpired (or an OSError): not caught.
CommandTimesOut(c) ==
    /\ At(c, "commands")
    /\ job[c].todo # {}
    /\ timedOut' = TRUE
    /\ Return(c)
    /\ UNCHANGED <<paused, gates, engine, used, ran>>

\* Tests fail after files were written: ask for a revised rest of the plan.
TestsFail(c) ==
    /\ At(c, "verify")
    /\ job[c].wrote
    /\ job[c].replans < MaxReplans
    /\ ~cancelled
    /\ GoTo(c, "retesting")
    /\ UNCHANGED <<job, paused, gates, engine, ghosts>>

\* Nothing to verify, tests pass, or no budget: resume where it paused.
Resume(c) ==
    /\ At(c, "verify")
    /\ GoTo(c, "loop")
    /\ UNCHANGED <<job, paused, gates, engine, ghosts>>

RetestPlanReturns(c, n) ==
    /\ At(c, "retesting")
    /\ job' = [job EXCEPT ![c].plan = n, ![c].replans = @ + 1]
    /\ GoTo(c, "loop")
    /\ UNCHANGED <<paused, gates, engine, ghosts>>

RetestPlanFails(c) ==
    /\ At(c, "retesting")
    /\ GoTo(c, "loop")
    /\ UNCHANGED <<job, paused, gates, engine, ghosts>>

-----------------------------------------------------------------------------
(* reject() and cancel().                                                    *)

RejectCalled(c) ==
    /\ At(c, "out")
    /\ paused # NoJob
    /\ job' = [job EXCEPT ![c] = paused]
    /\ paused' = NoJob
    /\ GoTo(c, "discard")
    /\ UNCHANGED <<gates, engine, ghosts>>

\* reject(), or _finalize_cancelled_while_paused.
DiscardBatch(c) ==
    /\ At(c, "discard")
    /\ Discard
    /\ Return(c)
    /\ UNCHANGED <<paused, engine, used, ran>>

Cancel ==
    /\ ~cancelled
    /\ cancelled' = TRUE
    /\ UNCHANGED <<pc, job, paused, gates, reflections, runs, joined, ghosts>>

\* tools/call of the MCP server, whose one thread is in no call of the executor
\* then.  The gates of a paused run, and of one that a timed-out command ended,
\* are still the active ones: a write tool or a command called from outside the
\* run is staged in them, after the pause's report was sent.
CallFromOutside(files, cmds) ==
    /\ \A c \in Callers : At(c, "out")
    /\ paused # NoJob \/ timedOut
    /\ Cardinality(joined) < MaxOutside
    /\ used + files + cmds <= MaxItems
    /\ edits' = edits \cup New(files)
    /\ commands' = commands \cup (New(files + cmds) \ New(files))
    /\ used' = used + files + cmds
    /\ joined' = joined \cup New(files + cmds)
    /\ UNCHANGED <<pc, job, paused, cancelled, reflections, runs, ran, timedOut>>

-----------------------------------------------------------------------------
Plans == 1..MaxPlan

Looping(c) ==
    \/ IterationsExhausted(c) \/ NoToolNeeded(c) \/ StepCancelled(c) \/ CallTool(c)
    \/ \E files \in 0..2 : ToolSucceeds(c, files, 0)
    \/ ToolSucceeds(c, 0, 1)
    \/ \E files \in 0..1 : ToolRetried(c, files) \/ ToolFails(c, files)
    \/ GiveUp(c) \/ StopBeforeReplan(c) \/ AskReplan(c)
    \/ \E n \in Plans : ReplanReturns(c, n)
    \/ ReplanFails(c) \/ ReplanCancelled(c) \/ PlanDone(c)

Finishing(c) ==
    \/ SkipReflection(c) \/ Reflect(c) \/ FollowVerdict(c)
    \/ \E n \in Plans : RevisionReturns(c, n)
    \/ RevisionFails(c) \/ Teardown(c)

Approving(c) ==
    \/ GateRefuses(c) \/ GatePasses(c) \/ TakePaused(c) \/ NothingToTake(c)
    \/ Apply(c) \/ ApplyFails(c)
    \/ RunCommand(c) \/ CommandsDone(c) \/ CommandFails(c) \/ CommandTimesOut(c)
    \/ TestsFail(c) \/ Resume(c)
    \/ \E n \in Plans : RetestPlanReturns(c, n)
    \/ RetestPlanFails(c)

\* What a caller does once it is inside the executor.
Step(c) ==
    \/ \E n \in Plans : PlanReturns(c, n)
    \/ PlanFails(c)
    \/ Looping(c) \/ Finishing(c) \/ Approving(c) \/ DiscardBatch(c)

Next ==
    \/ \E c \in Callers : BeginRun(c) \/ ApproveCalled(c) \/ RejectCalled(c) \/ Step(c)
    \/ Cancel
    \/ CallFromOutside(1, 0) \/ CallFromOutside(0, 1)

Spec == Init /\ [][Next]_vars

\* Threads run, and tools, models and commands answer (they have timeouts); no
\* user is obliged to call anything.
FairSpec == Spec /\ \A c \in Callers : WF_vars(Step(c))

-----------------------------------------------------------------------------
(* Safety.                                                                   *)

\* An execution has one owner: a call that drives it or the pause it left, never
\* two calls, never both.  This is what keeps two approvals from applying one
\* batch twice and the run's loop from changing a batch the user is looking at.
SingleDriver ==
    /\ \A c, d \in Drivers : c = d
    /\ paused # NoJob => Drivers = {}

\* The batch of a paused run is the one its report listed: nothing has left it
\* and the run itself has added nothing, while it is paused, on the way to the
\* gate, and after a failed apply_all put the pause back.  What a tools/call
\* staged meanwhile is applied with it, unseen.  This is about the pause that an
\* approval takes: of two that overlap, the second may take a later pause than
\* the one its caller was looking at.
ListedIn(j) == j.shown \subseteq Staged /\ Staged \subseteq j.shown \cup joined

BatchIsTheOnePaused ==
    /\ paused # NoJob => ListedIn(paused) /\ Staged # {}
    /\ \A c \in Callers : At(c, "apply") => ListedIn(job[c])
    /\ \A c \in Callers : At(c, "commands") => Staged \subseteq job[c].shown \cup joined

\* Whatever the sequence of pauses, approvals, failed applications, reflections
\* and test failures, one task uses at most max_replans replans and makes at most
\* max_iterations steps.
BudgetsHold ==
    \A j \in {job[c] : c \in Callers} \cup ({paused} \ {NoJob}) :
        j.replans <= MaxReplans /\ j.steps <= MaxIterations

\* Staged items can be reached: a paused run holds them for approve() and
\* reject(), or a call is on its way to pausing, applying or discarding them.
\* The exception is a batch of which a command timed out.
NothingStranded ==
    Staged # {} => paused # NoJob \/ Drivers # {} \/ timedOut

\* Once a cancellation has been requested and no approval is being carried out,
\* nothing takes effect any more, whoever approves whatever later.
Barred == cancelled /\ \A c \in Callers : pc[c] \notin {"apply", "commands"}

CancelIsFinal == [][Barred => Barred' /\ ran' = ran]_vars

\* run(), approve() and reject() return: retries, replans and reflections cannot
\* keep a call going for ever.
CallsReturn == \A c \in Callers : ~At(c, "out") ~> At(c, "out")

\* approve(): already completed work is not run again.
NothingTakesEffectTwice == \A i \in Items : ran[i] <= 1
=============================================================================
