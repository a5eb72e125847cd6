--------------------------- MODULE StagedCommands ---------------------------
(*****************************************************************************)
(* How commands reach the machine: execute_shell and run_python of           *)
(* src/tools/shell_tools.py and the writing tools of src/tools/git_tools.py   *)
(* run at once when nobody has to approve, and are staged in the run's        *)
(* CommandApprovalManager otherwise; approve() runs the batch in order and    *)
(* writes the outputs into the steps that staged the commands, which it       *)
(* finds by the text of their placeholder.                                   *)
(*                                                                           *)
(* Commands are numbered as they are asked for.  An output is the number of   *)
(* the command that printed it.  The loop of the run, its retries and its     *)
(* replans are Executor's; here a run calls tools, pauses and ends.           *)
(*****************************************************************************)
EXTENDS Naturals, Sequences, FiniteSets, Functions

CONSTANTS Allowed,     \* SHELL_ALLOWED_COMMANDS
          MaxCommands  \* bound: commands asked for

VARIABLES active,    \* a command approver is active
          phase,     \* "none": no run; "run"; "paused"; "running": approve_all
          pending,   \* CommandApprovalManager._pending
          steps,     \* the run's steps: the tool's placeholder, command, output
          results,   \* approve_all's local list
          asked,     \* commands asked for
          repo,      \* what git sees: something staged, something unstaged, the branch made
          mixed      \* ghost: a command was staged that no shell placeholder names

vars == <<active, phase, pending, steps, results, asked, repo, mixed>>

\* What a command line tells _check_allowlist and _check_command_safety: the
\* base commands of its segments, substitution, a pattern of the denylist.
Lines == [bases : SUBSET {"ls", "dd"}, substitutes : BOOLEAN, catastrophic : BOOLEAN]
GitCommands == {"add", "commit", "branch", "restore"}
Commands == [id : 1 .. MaxCommands, does : GitCommands \cup {"shell", "python"}]

TypeOK ==
    /\ phase \in {"none", "run", "paused", "running"}
    /\ pending \in Seq(Commands)
    /\ \A i \in DOMAIN steps :
         /\ steps[i].label \in {"shell", "git", "done"}
         /\ steps[i].command \in 0 .. asked /\ steps[i].shows \in 0 .. asked
    /\ Range(results) \subseteq 1 .. asked
    /\ Len(results) <= Len(pending)
    /\ phase \in {"run", "paused"} => active
    /\ asked \in 0 .. MaxCommands

Init ==
    /\ active = FALSE /\ phase = "none"
    /\ pending = <<>> /\ steps = <<>> /\ results = <<>> /\ asked = 0
    /\ repo = [staged |-> FALSE, unstaged |-> TRUE, branched |-> FALSE]
    /\ mixed = FALSE

-----------------------------------------------------------------------------
(* What the commands do to the repository, and when git refuses them.        *)

Succeeds(does) ==
    CASE does = "commit" -> repo.staged
      [] does = "branch" -> ~repo.branched
      [] OTHER -> TRUE

Effect(does) ==
    CASE does = "add"     -> [repo EXCEPT !.staged = repo.staged \/ repo.unstaged, !.unstaged = FALSE]
      [] does = "commit"  -> [repo EXCEPT !.staged = FALSE]
      [] does = "branch"  -> [repo EXCEPT !.branched = TRUE]
      [] does = "restore" -> [repo EXCEPT !.unstaged = FALSE]
      [] OTHER -> repo

-----------------------------------------------------------------------------
(* The tools.                                                                *)

Step(label, command) == [label |-> label, command |-> command, shows |-> 0]
Output(command) == [label |-> "done", command |-> command, shows |-> command]

\* A tool called by a run leaves a step; one called by an MCP client does not.
InRun == phase = "run"
Called == InRun \/ phase \in {"none", "paused"}
Leaves(step) == steps' = IF InRun THEN Append(steps, step) ELSE steps

Request(does) == [id |-> asked + 1, does |-> does]

\* approver.propose: nothing runs.
Propose(does, label) ==
    /\ pending' = Append(pending, Request(does))
    /\ Leaves(Step(label, asked + 1))
    /\ mixed' = (mixed \/ label = "git" \/ ~InRun)
    /\ UNCHANGED repo

\* No approver: the command runs now; a failing one raises.
RunNow(does) ==
    /\ Succeeds(does)
    /\ repo' = Effect(does)
    /\ Leaves(Output(asked + 1))
    /\ UNCHANGED <<pending, mixed>>

\* _stage_or_run, and the end of execute_shell and run_python.
StageOrRun(does, label) ==
    /\ Called /\ asked < MaxCommands
    /\ asked' = asked + 1
    /\ IF active THEN Propose(does, label) ELSE RunNow(does)
    /\ UNCHANGED <<active, phase, results>>

CheckAllowlist(line) == ~line.substitutes /\ line.bases \subseteq Allowed
CheckCommandSafety(line) == ~line.catastrophic

\* Refused lines raise: nothing is staged and nothing runs.
ExecuteShell ==
    \E line \in Lines :
        /\ CheckAllowlist(line) /\ CheckCommandSafety(line)
        /\ StageOrRun("shell", "shell")

RunPython == StageOrRun("python", "shell")

GitStage == StageOrRun("add", "git")

\* A tool that reads answers at once, also while commands are staged.
Answer ==
    /\ InRun /\ asked < MaxCommands
    /\ asked' = asked + 1
    /\ Leaves(Output(asked + 1))
    /\ UNCHANGED <<repo, active, phase, pending, results, mixed>>

\* git_status, as the writing tools read it.
Clean == ~repo.staged /\ ~repo.unstaged

\* What can be committed is looked up when the tool is called, not when the
\* command runs.
GitCommit == ~Clean /\ repo.staged /\ StageOrRun("commit", "git")

GitCreateBranch == StageOrRun("branch", "git")

\* Files named by the caller, or those unstaged now, if there are any.
GitRestore ==
    \/ StageOrRun("restore", "git")
    \/ ~repo.unstaged /\ Answer

\* git_undo_last never asks: it runs also while a run is in progress.
GitUndoLast ==
    /\ Called /\ asked < MaxCommands
    /\ asked' = asked + 1
    /\ repo' = [repo EXCEPT !.staged = TRUE]
    /\ Leaves(Output(asked + 1))
    /\ UNCHANGED <<active, phase, pending, results, mixed>>

\* Tests run at once too: "fixed, hardcoded, always-safe".
RunTests == Answer

\* lint_file, git_diff, git_log and the other reading tools.
ReadOnly == Answer

-----------------------------------------------------------------------------
(* The run (executor.py).                                                    *)

Keep(newPhase) == phase' = newPhase /\ UNCHANGED <<repo, asked>>

\* A run starts with whatever an approval that timed out left behind.
Start ==
    /\ phase = "none" /\ asked < MaxCommands
    /\ Keep("run")
    /\ active' = TRUE /\ steps' = <<>> /\ results' = <<>>
    /\ UNCHANGED <<pending, mixed>>

Pause ==
    /\ phase = "run" /\ pending # <<>>
    /\ Keep("paused")
    /\ UNCHANGED <<active, pending, steps, results, mixed>>

Over ==
    /\ Keep("none")
    /\ active' = FALSE /\ pending' = <<>> /\ steps' = <<>> /\ results' = <<>>
    /\ mixed' = FALSE

Finish == phase = "run" /\ pending = <<>> /\ Over

\* reject(), or an approval that finds the run cancelled.
DiscardAll == phase = "paused" /\ Over

Approve ==
    /\ phase = "paused"
    /\ Keep("running")
    /\ UNCHANGED <<active, pending, steps, results, mixed>>

Current == pending[Len(results) + 1]
Remaining == phase = "running" /\ Len(results) < Len(pending)

RunNext ==
    /\ Remaining /\ Succeeds(Current.does)
    /\ results' = Append(results, Current.id)
    /\ repo' = Effect(Current.does)
    /\ UNCHANGED <<active, phase, pending, steps, asked, mixed>>

\* The steps whose result is still a placeholder the backfill knows, and the
\* place of one of them in their order: it gets the output at that place.
Placeholders == {i \in DOMAIN steps : steps[i].label = "shell" /\ steps[i].shows = 0}
Place(i) == Cardinality({j \in Placeholders : j <= i})

Backfilled(outputs) ==
    [i \in DOMAIN steps |->
        IF i \in Placeholders /\ Place(i) \in DOMAIN outputs
        THEN [steps[i] EXCEPT !.shows = outputs[Place(i)]]
        ELSE steps[i]]

Resume(outputs) ==
    /\ steps' = Backfilled(outputs)
    /\ results' = <<>>
    /\ Keep("run")
    /\ active' = TRUE

AllRan ==
    /\ phase = "running" /\ Len(results) = Len(pending)
    /\ Resume(results)
    /\ pending' = <<>>
    /\ UNCHANGED mixed

CommandFailsKeepingRest ==  \* mutant: what ran is taken off the list
    /\ Remaining
    /\ Resume(<<>>)
    /\ pending' = SubSeq(pending, Len(results) + 1, Len(pending))
    /\ UNCHANGED mixed

\* A command exits non-zero: CalledProcessError, the list is kept whole and no
\* output is filled in.
CommandFails ==
    /\ Remaining
    /\ Resume(<<>>)
    /\ UNCHANGED <<pending, mixed>>

\* TimeoutExpired leaves approve(): the pause is gone, the approver stays active
\* with the batch.
CommandTimesOut ==
    /\ Remaining
    /\ Keep("none")
    /\ results' = <<>> /\ mixed' = TRUE
    /\ UNCHANGED <<active, pending, steps>>

-----------------------------------------------------------------------------
UserEdits ==
    /\ ~repo.unstaged
    /\ repo' = [repo EXCEPT !.unstaged = TRUE]
    /\ UNCHANGED <<active, phase, pending, steps, results, asked, mixed>>

Tools == ExecuteShell \/ RunPython \/ GitStage \/ GitCommit \/ GitCreateBranch
            \/ GitRestore \/ GitUndoLast \/ RunTests \/ ReadOnly
Driving == Start \/ Pause \/ Finish \/ DiscardAll \/ Approve \/ RunNext \/ AllRan
            \/ CommandFails \/ CommandTimesOut

Next == Tools \/ Driving \/ UserEdits

Spec == Init /\ [][Next]_vars

-----------------------------------------------------------------------------
\* A step that staged a command shows the output of that very command once it
\* ran, and of no other, through failed approvals and later batches; until then
\* its command is still staged (executor.py: "replace those placeholders with
\* the real stdout so that the execution report and the reflection phase see
\* useful output").  Not promised for a batch that holds a git command, a command
\* a client staged while the run was paused, or one left by a time-out: their
\* results are not matched by the prefix, and shift those of others.
ResultsReachTheirStep ==
    phase \in {"run", "paused"} /\ ~mixed =>
        \A i \in DOMAIN steps :
            steps[i].label = "shell" =>
                IF steps[i].shows = 0
                THEN steps[i].command \in {c.id : c \in Range(pending)}
                ELSE steps[i].shows = steps[i].command
=============================================================================
