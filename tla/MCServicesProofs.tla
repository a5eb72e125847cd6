-------------------------- MODULE MCServicesProofs ---------------------------
(*****************************************************************************)
(* What is proved of a component for every value of its constants, said of    *)
(* the composition that the run checks: whichever part moves, the variables   *)
(* of a component make a behaviour of its specification, and what is true of   *)
(* all those is true here.                                                   *)
(*****************************************************************************)
EXTENDS MCServices, TLAPS

-----------------------------------------------------------------------------
(* The MCP server.                                                           *)

Characters == {"{", "}", "quote", "back", "x"}

RunP == INSTANCE RunProofs WITH
    call <- toolCall,
    Roots <- Items, Cwd <- s, Pool <- Workers,
    MaxRuns <- 2, MaxExecutors <- 2, MaxSessions <- 2,
    Edits <- Items, MaxRequests <- 3, MaxRestarts <- 1,
    Allowed <- {"ls"}, MaxCommands <- 3, MaxProgress <- 2,
    clientState <- state,
    MaxRetries <- 3, Replies <- ModelAnswers, Symbols <- Characters

LEMMA SameMcp == Mcp!Next <=> RunP!Server!Next
  BY DEF Mcp!vars, Mcp!Requests, Mcp!Methods, Mcp!Idle, Mcp!Init, Mcp!server, Mcp!Line,
         Mcp!Send, Mcp!StartRun, Mcp!Decide, Mcp!Ask, Mcp!Notify, Mcp!Timeout, Mcp!Respond,
         Mcp!Handling, Mcp!Take, Mcp!Caller, Mcp!Runs, Mcp!Refuse, Mcp!RunAutonomous,
         Mcp!ApprovePatches, Mcp!ApplyFails, Mcp!RejectPatches, Mcp!ToolsCall, Mcp!ToolFails,
         Mcp!CheckpointRestore, Mcp!Reads, Mcp!UnknownMethod, Mcp!Malformed, Mcp!Notified,
         Mcp!Restart, Mcp!Exit, Mcp!Dies, Mcp!UserEdits, Mcp!Handle, Mcp!Client, Mcp!Next,
         RunP!Server!vars, RunP!Server!Requests, RunP!Server!Methods, RunP!Server!Idle,
         RunP!Server!Init, RunP!Server!server, RunP!Server!Line, RunP!Server!Send,
         RunP!Server!StartRun, RunP!Server!Decide, RunP!Server!Ask, RunP!Server!Notify,
         RunP!Server!Timeout, RunP!Server!Respond, RunP!Server!Handling, RunP!Server!Take,
         RunP!Server!Caller, RunP!Server!Runs, RunP!Server!Refuse,
         RunP!Server!RunAutonomous, RunP!Server!ApprovePatches, RunP!Server!ApplyFails,
         RunP!Server!RejectPatches, RunP!Server!ToolsCall, RunP!Server!ToolFails,
         RunP!Server!CheckpointRestore, RunP!Server!Reads, RunP!Server!UnknownMethod,
         RunP!Server!Malformed, RunP!Server!Notified, RunP!Server!Restart, RunP!Server!Exit,
         RunP!Server!Dies, RunP!Server!UserEdits, RunP!Server!Handle, RunP!Server!Client,
         RunP!Server!Next

\* A step of the composition is one of the server or leaves it alone.
LEMMA McpRuns == Spec => RunP!Server!Spec
<1>1. Init => RunP!Server!Init
  BY DEF Init, Mcp!Init, RunP!Server!Init, Mcp!Idle, RunP!Server!Idle
<1>2. ASSUME [Next]_vars PROVE [RunP!Server!Next]_(RunP!Server!vars)
  <2>1. UNCHANGED mcp => UNCHANGED RunP!Server!vars
    BY DEF mcp, RunP!Server!vars
  <2>2. Mcp!Next \/ UNCHANGED mcp
    BY <1>2 DEF Next, vars
  <2>. QED BY <2>1, <2>2, SameMcp
<1>. QED BY <1>1, <1>2, PTL DEF Spec, RunP!Server!Spec

\* No batch of a paused run is left where no decision reaches it.
THEOREM NoneOrphaned == Spec => NothingOrphaned
<1>1. [\A e \in staged \ byCall :
         \/ e \in staged' \/ e \in disk'
         \/ RunP!Server!Handling("reject") \/ restarts' # restarts]_(RunP!Server!vars)
      => [\A e \in staged \ byCall :
            \/ e \in staged' \/ e \in disk'
            \/ Mcp!Handling("reject") \/ restarts' # restarts]_(Mcp!vars)
  BY DEF Mcp!Handling, RunP!Server!Handling, Mcp!vars, RunP!Server!vars
<1>2. RunP!Server!NothingOrphaned => NothingOrphaned
  BY <1>1, PTL DEF NothingOrphaned, Mcp!NothingOrphaned, RunP!Server!NothingOrphaned
<1>. QED BY <1>2, McpRuns, RunP!BatchesReachable, PTL

-----------------------------------------------------------------------------
(* What a tool call finds around it.                                         *)

LEMMA SameContext == Context!Next <=> RunP!Next
  BY DEF Context!Threads, Context!vars, Context!Idle, Context!NoCall, Context!Executors,
         Context!Init, Context!Current, Context!At, Context!Session, Context!Driven,
         Context!GoTo, Context!IsRunning, Context!IsAwaiting, Context!Leave, Context!Become,
         Context!Unused, Context!Spawned, Context!RunAutonomous, Context!SetWorkspaceRoot,
         Context!NewExecutor, Context!Install, Context!ContextTooLong, Context!Run,
         Context!GetWorkspaceRoot, Context!CallTool, Context!Pause, Context!Finish,
         Context!Raises, Context!Decide, Context!Refused, Context!Approve, Context!Resume,
         Context!Reject, Context!NewSession, Context!SetWorkspace, Context!SetProvider,
         Context!Execution, Context!Decision, Context!Next, Context!Home, RunP!Threads,
         RunP!vars, RunP!Idle, RunP!NoCall, RunP!Executors, RunP!Init, RunP!Current,
         RunP!At, RunP!Session, RunP!Driven, RunP!GoTo, RunP!IsRunning, RunP!IsAwaiting,
         RunP!Leave, RunP!Become, RunP!Unused, RunP!Spawned, RunP!RunAutonomous,
         RunP!SetWorkspaceRoot, RunP!NewExecutor, RunP!Install, RunP!ContextTooLong,
         RunP!Run, RunP!GetWorkspaceRoot, RunP!CallTool, RunP!Pause, RunP!Finish,
         RunP!Raises, RunP!Decide, RunP!Refused, RunP!Approve, RunP!Resume, RunP!Reject,
         RunP!NewSession, RunP!SetWorkspace, RunP!SetProvider, RunP!Execution,
         RunP!Decision, RunP!Next, RunP!Home

LEMMA ContextRuns == Spec => RunP!Spec
<1>1. Init => RunP!Init
  BY DEF Init, Context!Init, RunP!Init, Context!Threads, RunP!Threads, Context!Idle,
         RunP!Idle, Context!NoCall, RunP!NoCall
<1>2. ASSUME [Next]_vars PROVE [RunP!Next]_(RunP!vars)
  <2>1. UNCHANGED context => UNCHANGED RunP!vars
    BY DEF context, RunP!vars
  <2>2. Context!Next \/ UNCHANGED context
    BY <1>2 DEF Next, vars
  <2>. QED BY <2>1, <2>2, SameContext
<1>. QED BY <1>1, <1>2, PTL DEF Spec, RunP!Spec

\* What is written was shown and approved, or called for, and a tool call goes
\* through the gate of its own run, into the workspace of its session on the thread
\* of the run and into the directory of the process on a thread of the pool.  A
\* root is told from no root, a thread of the pool from one of a run.
THEOREM OnlyDecided ==
    ASSUME None \notin Items, Workers \cap 1 .. 2 = {}
    PROVE  Spec => []WrittenWasDecided
<1>1. Spec => []RunP!Server!WrittenWasDecided
  BY McpRuns, RunP!EditsDecided, PTL
<1>2. Spec => []RunP!CallsAreBound
  <2>1. RunP!Spec => []RunP!CallsAreBound
    BY RunP!CallsBound
  <2>. QED BY <2>1, ContextRuns, PTL
<1>3. RunP!Server!WrittenWasDecided /\ RunP!CallsAreBound => WrittenWasDecided
  BY DEF WrittenWasDecided, Mcp!WrittenWasDecided, RunP!Server!WrittenWasDecided,
         Context!CallsAreBound, RunP!CallsAreBound, Context!NoCall, RunP!NoCall,
         Context!Home, RunP!Home
<1>. QED BY <1>1, <1>2, <1>3, PTL

-----------------------------------------------------------------------------
(* The staged commands of a run.                                             *)

LEMMA SameStaged == (Staged!Next <=> RunP!Staged!Next) /\ (Staged!Init <=> RunP!Staged!Init)
<1>. USE DEF Staged!vars, Staged!Lines, Staged!GitCommands, Staged!Commands, Staged!Succeeds,
         Staged!Effect, Staged!Step, Staged!Output, Staged!InRun, Staged!Called, Staged!Leaves,
         Staged!Request, Staged!Propose, Staged!RunNow, Staged!StageOrRun,
         Staged!CheckAllowlist, Staged!CheckCommandSafety, Staged!Answer, Staged!Clean,
         Staged!Keep, Staged!Over, Staged!Current, Staged!Remaining, RunP!Staged!vars,
         RunP!Staged!Lines, RunP!Staged!GitCommands, RunP!Staged!Commands,
         RunP!Staged!Succeeds, RunP!Staged!Effect, RunP!Staged!Step, RunP!Staged!Output,
         RunP!Staged!InRun, RunP!Staged!Called, RunP!Staged!Leaves, RunP!Staged!Request,
         RunP!Staged!Propose, RunP!Staged!RunNow, RunP!Staged!StageOrRun,
         RunP!Staged!CheckAllowlist, RunP!Staged!CheckCommandSafety, RunP!Staged!Answer,
         RunP!Staged!Clean, RunP!Staged!Keep, RunP!Staged!Over, RunP!Staged!Current,
         RunP!Staged!Remaining
<1>1. \A outputs : Staged!Backfilled(outputs) = RunP!Staged!Backfilled(outputs)
  BY DEF Staged!Backfilled, Staged!Placeholders, Staged!Place, Staged!Cardinality,
         RunP!Staged!Backfilled, RunP!Staged!Placeholders, RunP!Staged!Place,
         RunP!Staged!Cardinality
<1>2. Staged!AllRan <=> RunP!Staged!AllRan
  BY <1>1 DEF Staged!Resume, Staged!AllRan, RunP!Staged!Resume, RunP!Staged!AllRan
<1>3. Staged!CommandFails <=> RunP!Staged!CommandFails
  BY <1>1 DEF Staged!Resume, Staged!CommandFails, RunP!Staged!Resume, RunP!Staged!CommandFails
<1>4. Staged!ExecuteShell <=> RunP!Staged!ExecuteShell
  BY DEF Staged!ExecuteShell, RunP!Staged!ExecuteShell
<1>5. Staged!RunPython <=> RunP!Staged!RunPython
  BY DEF Staged!RunPython, RunP!Staged!RunPython
<1>6. Staged!GitStage <=> RunP!Staged!GitStage
  BY DEF Staged!GitStage, RunP!Staged!GitStage
<1>7. Staged!GitCommit <=> RunP!Staged!GitCommit
  BY DEF Staged!GitCommit, RunP!Staged!GitCommit
<1>8. Staged!GitCreateBranch <=> RunP!Staged!GitCreateBranch
  BY DEF Staged!GitCreateBranch, RunP!Staged!GitCreateBranch
<1>9. Staged!GitRestore <=> RunP!Staged!GitRestore
  BY DEF Staged!GitRestore, RunP!Staged!GitRestore
<1>10. Staged!GitUndoLast <=> RunP!Staged!GitUndoLast
  BY DEF Staged!GitUndoLast, RunP!Staged!GitUndoLast
<1>11. Staged!RunTests <=> RunP!Staged!RunTests
  BY DEF Staged!RunTests, RunP!Staged!RunTests
<1>12. Staged!ReadOnly <=> RunP!Staged!ReadOnly
  BY DEF Staged!ReadOnly, RunP!Staged!ReadOnly
<1>13. Staged!Start <=> RunP!Staged!Start
  BY DEF Staged!Start, RunP!Staged!Start
<1>14. Staged!Pause <=> RunP!Staged!Pause
  BY DEF Staged!Pause, RunP!Staged!Pause
<1>15. Staged!Finish <=> RunP!Staged!Finish
  BY DEF Staged!Finish, RunP!Staged!Finish
<1>16. Staged!DiscardAll <=> RunP!Staged!DiscardAll
  BY DEF Staged!DiscardAll, RunP!Staged!DiscardAll
<1>17. Staged!Approve <=> RunP!Staged!Approve
  BY DEF Staged!Approve, RunP!Staged!Approve
<1>18. Staged!RunNext <=> RunP!Staged!RunNext
  BY DEF Staged!RunNext, RunP!Staged!RunNext
<1>19. Staged!CommandTimesOut <=> RunP!Staged!CommandTimesOut
  BY DEF Staged!CommandTimesOut, RunP!Staged!CommandTimesOut
<1>20. Staged!UserEdits <=> RunP!Staged!UserEdits
  BY DEF Staged!UserEdits, RunP!Staged!UserEdits
<1>21. Staged!Init <=> RunP!Staged!Init
  BY DEF Staged!Init, RunP!Staged!Init
<1>. QED
  BY <1>2, <1>3, <1>4, <1>5, <1>6, <1>7, <1>8, <1>9, <1>10, <1>11, <1>12, <1>13, <1>14, <1>15,
     <1>16, <1>17, <1>18, <1>19, <1>20, <1>21
  DEF Staged!Tools, Staged!Driving, Staged!Next, RunP!Staged!Tools, RunP!Staged!Driving,
         RunP!Staged!Next

LEMMA StagedRuns == Spec => RunP!Staged!Spec
<1>1. Init => RunP!Staged!Init
  BY SameStaged DEF Init
<1>2. ASSUME [Next]_vars PROVE [RunP!Staged!Next]_(RunP!Staged!vars)
  <2>1. UNCHANGED commands => UNCHANGED RunP!Staged!vars
    BY DEF commands, RunP!Staged!vars
  <2>2. Staged!Next \/ UNCHANGED commands
    BY <1>2 DEF Next, vars
  <2>. QED BY <2>1, <2>2, SameStaged
<1>. QED BY <1>1, <1>2, PTL DEF Spec, RunP!Staged!Spec

\* A step that staged a command shows the output of that very command once it
\* ran, and of no other; until then its command is still staged.  Exempt are
\* batches with a git command, with a command a client added while the run was
\* paused, or with one left by a time-out.
THEOREM ResultsReach == Spec => []ResultsReachTheirStep
<1>0. RunP!Staged!Spec => []RunP!Staged!ResultsReachTheirStep
  BY RunP!ResultsReach
<1>1. Spec => []RunP!Staged!ResultsReachTheirStep
  BY <1>0, StagedRuns, PTL
<1>2. RunP!Staged!ResultsReachTheirStep => ResultsReachTheirStep
  BY DEF ResultsReachTheirStep, Staged!ResultsReachTheirStep,
         RunP!Staged!ResultsReachTheirStep, Staged!Range, RunP!Staged!Range
<1>. QED BY <1>1, <1>2, PTL

-----------------------------------------------------------------------------
(* The event stream of a run.                                                *)

LEMMA SameStream == (Stream!Next <=> RunP!Stream!Next) /\ (Stream!Init <=> RunP!Stream!Init)
<1>. USE DEF Stream!vars, Stream!Cardinality, Stream!Range, Stream!BusEvents, Stream!Direct,
         Stream!Emit, Stream!Put, Stream!Go, Stream!Close, RunP!Stream!vars,
         RunP!Stream!Cardinality, RunP!Stream!Range, RunP!Stream!BusEvents, RunP!Stream!Direct,
         RunP!Stream!Emit, RunP!Stream!Put, RunP!Stream!Go, RunP!Stream!Close
<1>1. Stream!Setup <=> RunP!Stream!Setup
  BY DEF Stream!Setup, RunP!Stream!Setup
<1>2. Stream!Condense <=> RunP!Stream!Condense
  BY DEF Stream!Condense, RunP!Stream!Condense
<1>3. Stream!Progress <=> RunP!Stream!Progress
  BY DEF Stream!Progress, RunP!Stream!Progress
<1>4. Stream!RunReturns <=> RunP!Stream!RunReturns
  BY DEF Stream!RunReturns, RunP!Stream!RunReturns
<1>5. Stream!RunFails <=> RunP!Stream!RunFails
  BY DEF Stream!RunFails, RunP!Stream!RunFails
<1>6. Stream!Report <=> RunP!Stream!Report
  BY DEF Stream!Report, RunP!Stream!Report
<1>7. Stream!Raises <=> RunP!Stream!Raises
  BY DEF Stream!Raises, RunP!Stream!Raises
<1>8. Stream!CloseBus <=> RunP!Stream!CloseBus
  BY DEF Stream!CloseBus, RunP!Stream!CloseBus
<1>9. Stream!Joined <=> RunP!Stream!Joined
  BY DEF Stream!Joined, RunP!Stream!Joined
<1>10. Stream!JoinTimesOut <=> RunP!Stream!JoinTimesOut
  BY DEF Stream!JoinTimesOut, RunP!Stream!JoinTimesOut
<1>11. Stream!PutLast <=> RunP!Stream!PutLast
  BY DEF Stream!PutLast, RunP!Stream!PutLast
<1>12. Stream!Record <=> RunP!Stream!Record
  BY DEF Stream!Record, RunP!Stream!Record
<1>13. Stream!Leave <=> RunP!Stream!Leave
  BY DEF Stream!Leave, RunP!Stream!Leave
<1>14. Stream!Bridge <=> RunP!Stream!Bridge
  BY DEF Stream!Bridge, RunP!Stream!Bridge
<1>15. Stream!Generate <=> RunP!Stream!Generate
  BY DEF Stream!Generate, RunP!Stream!Generate
<1>16. Stream!Init <=> RunP!Stream!Init
  BY DEF Stream!Init, RunP!Stream!Init
<1>. QED
  BY <1>1, <1>2, <1>3, <1>4, <1>5, <1>6, <1>7, <1>8, <1>9, <1>10, <1>11, <1>12, <1>13, <1>14,
     <1>15, <1>16
  DEF Stream!Next, RunP!Stream!Next

LEMMA StreamRuns == Spec => RunP!Stream!Spec
<1>1. Init => RunP!Stream!Init
  BY SameStream DEF Init
<1>2. ASSUME [Next]_vars PROVE [RunP!Stream!Next]_(RunP!Stream!vars)
  <2>1. UNCHANGED stream => UNCHANGED RunP!Stream!vars
    BY DEF stream, RunP!Stream!vars
  <2>2. Stream!Next \/ UNCHANGED stream
    BY <1>2 DEF Next, vars
  <2>. QED BY <2>1, <2>2, SameStream
<1>. QED BY <1>1, <1>2, PTL DEF Spec, RunP!Stream!Spec

\* A finished stream holds every event of the bus in order, unless the bridge was
\* too slow, and says how the run ended.
THEOREM StreamComplete == Spec => []StreamIsComplete
<1>1. Spec => []RunP!Stream!StreamIsComplete
  BY StreamRuns, RunP!StreamComplete, PTL
<1>2. RunP!Stream!StreamIsComplete => StreamIsComplete
  BY DEF StreamIsComplete, Stream!StreamIsComplete, RunP!Stream!StreamIsComplete,
         Stream!Told, RunP!Stream!Told, Stream!Nth, RunP!Stream!Nth,
         Stream!BusEvents, RunP!Stream!BusEvents, Stream!Range, RunP!Stream!Range,
         Stream!Cardinality, RunP!Stream!Cardinality
<1>. QED BY <1>1, <1>2, PTL

-----------------------------------------------------------------------------
(* The checkpoint store, at the bounds of either of its parts.                *)

CheckP == INSTANCE CheckpointsProofs WITH
    Paths <- {p}, Texts <- {s}, Absent <- None,
    MaxCount <- 1, MaxCommits <- 2, MaxWrites <- 1, MaxCrashes <- 1

RestoreP == INSTANCE CheckpointsProofs WITH
    Paths <- Items, Texts <- {s}, Absent <- None,
    MaxCount <- 1, MaxCommits <- 1, MaxWrites <- 1, MaxCrashes <- 1

LEMMA SameCheck == (Check!Next <=> CheckP!Next) /\ (Check!Init <=> CheckP!Init)
<1>1. Check!Visible = CheckP!Visible /\ Check!Ids = CheckP!Ids
  BY DEF Check!Ids, Check!Load, Check!Hidden, Check!Visible, CheckP!Ids, CheckP!Load,
         CheckP!Hidden, CheckP!Visible
<1>2. Check!Excess = CheckP!Excess
  BY <1>1 DEF Check!Newer, Check!Excess, Check!Cardinality, CheckP!Newer, CheckP!Excess,
         CheckP!Cardinality
<1>3. ASSUME NEW w, NEW x PROVE Check!StartUpdate(w, x) <=> CheckP!StartUpdate(w, x)
  BY DEF Check!Quietly, Check!Updating, Check!repository, Check!StartUpdate, CheckP!Quietly,
         CheckP!Updating, CheckP!repository, CheckP!StartUpdate
<1>4. ASSUME NEW w PROVE Check!Retain(w) <=> CheckP!Retain(w)
  BY <1>1, <1>2, <1>3
     DEF Check!At, Check!Load, Check!Quietly, Check!repository, Check!metadata, Check!Retain,
         CheckP!At, CheckP!Load, CheckP!Quietly, CheckP!repository, CheckP!metadata,
         CheckP!Retain
<1>5. ASSUME NEW w PROVE Check!Stage(w) <=> CheckP!Stage(w)
  BY DEF Check!Idle, Check!At, Check!Disturbing, Check!metadata, Check!Stage, CheckP!Idle,
         CheckP!At, CheckP!Disturbing, CheckP!metadata, CheckP!Stage
<1>6. ASSUME NEW w PROVE Check!StageFails(w) <=> CheckP!StageFails(w)
  BY DEF Check!Idle, Check!At, Check!Quietly, Check!repository, Check!metadata, Check!AtGit,
         Check!Contended, Check!StageFails, CheckP!Idle, CheckP!At, CheckP!Quietly,
         CheckP!repository, CheckP!metadata, CheckP!AtGit, CheckP!Contended, CheckP!StageFails
<1>7. ASSUME NEW w PROVE Check!Commit(w) <=> CheckP!Commit(w)
  BY DEF Check!Empty, Check!HeadTree, Check!At, Check!Quietly, Check!metadata, Check!Commit,
         CheckP!Empty, CheckP!HeadTree, CheckP!At, CheckP!Quietly, CheckP!metadata,
         CheckP!Commit
<1>8. ASSUME NEW w PROVE Check!CommitFails(w) <=> CheckP!CommitFails(w)
  BY DEF Check!Idle, Check!At, Check!Quietly, Check!repository, Check!metadata, Check!AtGit,
         Check!Contended, Check!CommitFails, CheckP!Idle, CheckP!At, CheckP!Quietly,
         CheckP!repository, CheckP!metadata, CheckP!AtGit, CheckP!Contended, CheckP!CommitFails
<1>9. ASSUME NEW w PROVE Check!OpenTmp(w) <=> CheckP!OpenTmp(w)
  BY DEF Check!At, Check!Quietly, Check!repository, Check!OpenTmp, CheckP!At, CheckP!Quietly,
         CheckP!repository, CheckP!OpenTmp
<1>10. ASSUME NEW w PROVE Check!FillTmp(w) <=> CheckP!FillTmp(w)
  BY DEF Check!At, Check!Disturbing, Check!repository, Check!Written, Check!FillTmp, CheckP!At,
         CheckP!Disturbing, CheckP!repository, CheckP!Written, CheckP!FillTmp
<1>11. ASSUME NEW w PROVE Check!Replace(w) <=> CheckP!Replace(w)
  BY DEF Check!Idle, Check!At, Check!repository, Check!AfterUpdate, Check!Moved, Check!Replace,
         CheckP!Idle, CheckP!At, CheckP!repository, CheckP!AfterUpdate, CheckP!Moved,
         CheckP!Replace
<1>12. ASSUME NEW w PROVE Check!ReplaceFails(w) <=> CheckP!ReplaceFails(w)
  BY DEF Check!Idle, Check!At, Check!Quietly, Check!repository, Check!metadata,
         Check!AfterUpdate, Check!ReplaceFails, CheckP!Idle, CheckP!At, CheckP!Quietly,
         CheckP!repository, CheckP!metadata, CheckP!AfterUpdate, CheckP!ReplaceFails
<1>13. ASSUME NEW w PROVE Check!Checkout(w) <=> CheckP!Checkout(w)
  BY DEF Check!Present, Check!At, Check!Disturbing, Check!metadata, Check!Overlay,
         Check!Checkout, CheckP!Present, CheckP!At, CheckP!Disturbing, CheckP!metadata,
         CheckP!Overlay, CheckP!Checkout
<1>14. ASSUME NEW w PROVE Check!CheckoutRefused(w) <=> CheckP!CheckoutRefused(w)
  BY DEF Check!Present, Check!Idle, Check!At, Check!Quietly, Check!Done, Check!repository,
         Check!metadata, Check!AtGit, Check!Contended, Check!CheckoutRefused, CheckP!Present,
         CheckP!Idle, CheckP!At, CheckP!Quietly, CheckP!Done, CheckP!repository,
         CheckP!metadata, CheckP!AtGit, CheckP!Contended, CheckP!CheckoutRefused
<1>15. ASSUME NEW w PROVE Check!CheckoutFails(w) <=> CheckP!CheckoutFails(w)
  BY DEF Check!Present, Check!Idle, Check!At, Check!Disturbing, Check!metadata, Check!Overlay,
         Check!CheckoutFails, CheckP!Present, CheckP!Idle, CheckP!At, CheckP!Disturbing,
         CheckP!metadata, CheckP!Overlay, CheckP!CheckoutFails
<1>16. ASSUME NEW w PROVE Check!Unlink(w) <=> CheckP!Unlink(w)
  BY DEF Check!At, Check!Disturbing, Check!Quietly, Check!metadata, Check!Unlink, CheckP!At,
         CheckP!Disturbing, CheckP!Quietly, CheckP!metadata, CheckP!Unlink
<1>17. ASSUME NEW w PROVE Check!RestoreDone(w) <=> CheckP!RestoreDone(w)
  BY DEF Check!Idle, Check!At, Check!Quietly, Check!Done, Check!repository, Check!metadata,
         Check!RestoreDone, CheckP!Idle, CheckP!At, CheckP!Quietly, CheckP!Done,
         CheckP!repository, CheckP!metadata, CheckP!RestoreDone
<1>18. ASSUME NEW w PROVE Check!Apply(w) <=> CheckP!Apply(w)
  BY DEF Check!Idle, Check!At, Check!Disturbing, Check!metadata, Check!Apply, CheckP!Idle,
         CheckP!At, CheckP!Disturbing, CheckP!metadata, CheckP!Apply
<1>19. ASSUME NEW w PROVE Check!Crash(w) <=> CheckP!Crash(w)
  BY DEF Check!Idle, Check!At, Check!Quietly, Check!Done, Check!metadata, Check!AtGit,
         Check!Crash, CheckP!Idle, CheckP!At, CheckP!Quietly, CheckP!Done, CheckP!metadata,
         CheckP!AtGit, CheckP!Crash
<1>20. ASSUME NEW w, NEW c PROVE Check!Delete(w, c) <=> CheckP!Delete(w, c)
  BY <1>1, <1>3 DEF Check!At, Check!Load, Check!Delete, CheckP!At, CheckP!Load, CheckP!Delete
<1>21. ASSUME NEW w, NEW c PROVE Check!Rename(w, c) <=> CheckP!Rename(w, c)
  BY <1>1, <1>3 DEF Check!At, Check!Load, Check!Rename, CheckP!At, CheckP!Load, CheckP!Rename
<1>22. ASSUME NEW w, NEW c PROVE Check!Preview(w, c) <=> CheckP!Preview(w, c)
  BY <1>1
     DEF Check!Present, Check!Idle, Check!At, Check!Quietly, Check!repository, Check!metadata,
         Check!AddedSince, Check!Preview, CheckP!Present, CheckP!Idle, CheckP!At,
         CheckP!Quietly, CheckP!repository, CheckP!metadata, CheckP!AddedSince, CheckP!Preview
<1>23. (Check!OthersWrite <=> CheckP!OthersWrite) /\ (Check!DeleteLock <=> CheckP!DeleteLock)
  BY DEF Check!metadata, Check!OthersWrite, Check!DeleteLock, CheckP!metadata,
         CheckP!OthersWrite, CheckP!DeleteLock
<1>24. Check!Init <=> CheckP!Init
  BY DEF Check!Tree, Check!Empty, Check!Idle, Check!Init, CheckP!Tree, CheckP!Empty,
         CheckP!Idle, CheckP!Init
<1>. QED BY <1>1, <1>2, <1>3, <1>4, <1>5, <1>6, <1>7, <1>8, <1>9, <1>10, <1>11, <1>12, <1>13,
         <1>14, <1>15, <1>16, <1>17, <1>18, <1>19, <1>20, <1>21, <1>22, <1>23, <1>24 DEF
         Check!Next, CheckP!Next

LEMMA SameRestore == (Restore!Next <=> RestoreP!Next) /\ (Restore!Init <=> RestoreP!Init)
<1>1. Restore!Visible = RestoreP!Visible /\ Restore!Ids = RestoreP!Ids
  BY DEF Restore!Ids, Restore!Load, Restore!Hidden, Restore!Visible, RestoreP!Ids,
         RestoreP!Load, RestoreP!Hidden, RestoreP!Visible
<1>2. Restore!Excess = RestoreP!Excess
  BY <1>1
     DEF Restore!Newer, Restore!Excess, Restore!Cardinality, RestoreP!Newer, RestoreP!Excess,
         RestoreP!Cardinality
<1>3. ASSUME NEW w, NEW x PROVE Restore!StartUpdate(w, x) <=> RestoreP!StartUpdate(w, x)
  BY DEF Restore!Quietly, Restore!Updating, Restore!repository, Restore!StartUpdate,
         RestoreP!Quietly, RestoreP!Updating, RestoreP!repository, RestoreP!StartUpdate
<1>4. ASSUME NEW w PROVE Restore!Retain(w) <=> RestoreP!Retain(w)
  BY <1>1, <1>2, <1>3
     DEF Restore!At, Restore!Load, Restore!Quietly, Restore!repository, Restore!metadata,
         Restore!Retain, RestoreP!At, RestoreP!Load, RestoreP!Quietly, RestoreP!repository,
         RestoreP!metadata, RestoreP!Retain
<1>5. ASSUME NEW w PROVE Restore!Stage(w) <=> RestoreP!Stage(w)
  BY DEF Restore!Idle, Restore!At, Restore!Disturbing, Restore!metadata, Restore!Stage,
         RestoreP!Idle, RestoreP!At, RestoreP!Disturbing, RestoreP!metadata, RestoreP!Stage
<1>6. ASSUME NEW w PROVE Restore!StageFails(w) <=> RestoreP!StageFails(w)
  BY DEF Restore!Idle, Restore!At, Restore!Quietly, Restore!repository, Restore!metadata,
         Restore!AtGit, Restore!Contended, Restore!StageFails, RestoreP!Idle, RestoreP!At,
         RestoreP!Quietly, RestoreP!repository, RestoreP!metadata, RestoreP!AtGit,
         RestoreP!Contended, RestoreP!StageFails
<1>7. ASSUME NEW w PROVE Restore!Commit(w) <=> RestoreP!Commit(w)
  BY DEF Restore!Empty, Restore!HeadTree, Restore!At, Restore!Quietly, Restore!metadata,
         Restore!Commit, RestoreP!Empty, RestoreP!HeadTree, RestoreP!At, RestoreP!Quietly,
         RestoreP!metadata, RestoreP!Commit
<1>8. ASSUME NEW w PROVE Restore!CommitFails(w) <=> RestoreP!CommitFails(w)
  BY DEF Restore!Idle, Restore!At, Restore!Quietly, Restore!repository, Restore!metadata,
         Restore!AtGit, Restore!Contended, Restore!CommitFails, RestoreP!Idle, RestoreP!At,
         RestoreP!Quietly, RestoreP!repository, RestoreP!metadata, RestoreP!AtGit,
         RestoreP!Contended, RestoreP!CommitFails
<1>9. ASSUME NEW w PROVE Restore!OpenTmp(w) <=> RestoreP!OpenTmp(w)
  BY DEF Restore!At, Restore!Quietly, Restore!repository, Restore!OpenTmp, RestoreP!At,
         RestoreP!Quietly, RestoreP!repository, RestoreP!OpenTmp
<1>10. ASSUME NEW w PROVE Restore!FillTmp(w) <=> RestoreP!FillTmp(w)
  BY DEF Restore!At, Restore!Disturbing, Restore!repository, Restore!Written, Restore!FillTmp,
         RestoreP!At, RestoreP!Disturbing, RestoreP!repository, RestoreP!Written,
         RestoreP!FillTmp
<1>11. ASSUME NEW w PROVE Restore!Replace(w) <=> RestoreP!Replace(w)
  BY DEF Restore!Idle, Restore!At, Restore!repository, Restore!AfterUpdate, Restore!Moved,
         Restore!Replace, RestoreP!Idle, RestoreP!At, RestoreP!repository, RestoreP!AfterUpdate,
         RestoreP!Moved, RestoreP!Replace
<1>12. ASSUME NEW w PROVE Restore!ReplaceFails(w) <=> RestoreP!ReplaceFails(w)
  BY DEF Restore!Idle, Restore!At, Restore!Quietly, Restore!repository, Restore!metadata,
         Restore!AfterUpdate, Restore!ReplaceFails, RestoreP!Idle, RestoreP!At,
         RestoreP!Quietly, RestoreP!repository, RestoreP!metadata, RestoreP!AfterUpdate,
         RestoreP!ReplaceFails
<1>13. ASSUME NEW w PROVE Restore!Checkout(w) <=> RestoreP!Checkout(w)
  BY DEF Restore!Present, Restore!At, Restore!Disturbing, Restore!metadata, Restore!Overlay,
         Restore!Checkout, RestoreP!Present, RestoreP!At, RestoreP!Disturbing,
         RestoreP!metadata, RestoreP!Overlay, RestoreP!Checkout
<1>14. ASSUME NEW w PROVE Restore!CheckoutRefused(w) <=> RestoreP!CheckoutRefused(w)
  BY DEF Restore!Present, Restore!Idle, Restore!At, Restore!Quietly, Restore!Done,
         Restore!repository, Restore!metadata, Restore!AtGit, Restore!Contended,
         Restore!CheckoutRefused, RestoreP!Present, RestoreP!Idle, RestoreP!At,
         RestoreP!Quietly, RestoreP!Done, RestoreP!repository, RestoreP!metadata,
         RestoreP!AtGit, RestoreP!Contended, RestoreP!CheckoutRefused
<1>15. ASSUME NEW w PROVE Restore!CheckoutFails(w) <=> RestoreP!CheckoutFails(w)
  BY DEF Restore!Present, Restore!Idle, Restore!At, Restore!Disturbing, Restore!metadata,
         Restore!Overlay, Restore!CheckoutFails, RestoreP!Present, RestoreP!Idle, RestoreP!At,
         RestoreP!Disturbing, RestoreP!metadata, RestoreP!Overlay, RestoreP!CheckoutFails
<1>16. ASSUME NEW w PROVE Restore!Unlink(w) <=> RestoreP!Unlink(w)
  BY DEF Restore!At, Restore!Disturbing, Restore!Quietly, Restore!metadata, Restore!Unlink,
         RestoreP!At, RestoreP!Disturbing, RestoreP!Quietly, RestoreP!metadata, RestoreP!Unlink
<1>17. ASSUME NEW w PROVE Restore!RestoreDone(w) <=> RestoreP!RestoreDone(w)
  BY DEF Restore!Idle, Restore!At, Restore!Quietly, Restore!Done, Restore!repository,
         Restore!metadata, Restore!RestoreDone, RestoreP!Idle, RestoreP!At, RestoreP!Quietly,
         RestoreP!Done, RestoreP!repository, RestoreP!metadata, RestoreP!RestoreDone
<1>18. ASSUME NEW w PROVE Restore!Apply(w) <=> RestoreP!Apply(w)
  BY DEF Restore!Idle, Restore!At, Restore!Disturbing, Restore!metadata, Restore!Apply,
         RestoreP!Idle, RestoreP!At, RestoreP!Disturbing, RestoreP!metadata, RestoreP!Apply
<1>19. ASSUME NEW w PROVE Restore!Crash(w) <=> RestoreP!Crash(w)
  BY DEF Restore!Idle, Restore!At, Restore!Quietly, Restore!Done, Restore!metadata,
         Restore!AtGit, Restore!Crash, RestoreP!Idle, RestoreP!At, RestoreP!Quietly,
         RestoreP!Done, RestoreP!metadata, RestoreP!AtGit, RestoreP!Crash
<1>20. ASSUME NEW w, NEW c PROVE Restore!Delete(w, c) <=> RestoreP!Delete(w, c)
  BY <1>1, <1>3
     DEF Restore!At, Restore!Load, Restore!Delete, RestoreP!At, RestoreP!Load, RestoreP!Delete
<1>21. ASSUME NEW w, NEW c PROVE Restore!Rename(w, c) <=> RestoreP!Rename(w, c)
  BY <1>1, <1>3
     DEF Restore!At, Restore!Load, Restore!Rename, RestoreP!At, RestoreP!Load, RestoreP!Rename
<1>22. ASSUME NEW w, NEW c PROVE Restore!Preview(w, c) <=> RestoreP!Preview(w, c)
  BY <1>1 DEF Restore!Present, Restore!Idle, Restore!At, Restore!Quietly, Restore!repository,
         Restore!metadata, Restore!AddedSince, Restore!Preview, RestoreP!Present, RestoreP!Idle,
         RestoreP!At, RestoreP!Quietly, RestoreP!repository, RestoreP!metadata,
         RestoreP!AddedSince, RestoreP!Preview
<1>23. (Restore!OthersWrite <=> RestoreP!OthersWrite) /\ (Restore!DeleteLock <=> RestoreP!DeleteLock)
  BY DEF Restore!metadata, Restore!OthersWrite, Restore!DeleteLock, RestoreP!metadata,
         RestoreP!OthersWrite, RestoreP!DeleteLock
<1>24. Restore!Init <=> RestoreP!Init
  BY DEF Restore!Tree, Restore!Empty, Restore!Idle, Restore!Init, RestoreP!Tree, RestoreP!Empty,
         RestoreP!Idle, RestoreP!Init
<1>. QED BY <1>1, <1>2, <1>3, <1>4, <1>5, <1>6, <1>7, <1>8, <1>9, <1>10, <1>11, <1>12, <1>13,
         <1>14, <1>15, <1>16, <1>17, <1>18, <1>19, <1>20, <1>21, <1>22, <1>23, <1>24 DEF
         Restore!Next, RestoreP!Next

\* The text of a half-written sidecar, and no file, are told from any set of marks.
Apart == Torn \notin SUBSET Check!Marks /\ Missing \notin SUBSET Check!Marks

Stores == (part = "store" => CheckP!IInv) /\ (part = "restore" => RestoreP!IInv)

LEMMA StoreBounds == ASSUME Apart PROVE CheckP!Bounds /\ RestoreP!Bounds
BY DEF Apart, Check!Marks, CheckP!Bounds, CheckP!Distinct, CheckP!Marks,
       RestoreP!Bounds, RestoreP!Distinct, RestoreP!Marks

\* Each part keeps the invariant of the store it runs; the others leave it alone.
LEMMA StoresHold == ASSUME Apart PROVE Spec => []Stores
<1>1. ASSUME Init PROVE Stores
  <2>1. part = "store" => CheckP!Init
    BY <1>1, SameCheck DEF Init
  <2>2. part = "restore" => RestoreP!Init
    BY <1>1, SameRestore DEF Init
  <2>. QED BY <2>1, <2>2, StoreBounds, CheckP!InitHolds, RestoreP!InitHolds DEF Stores
<1>2. ASSUME Stores, [Next]_vars PROVE Stores'
  <2>1. part' = part
    BY <1>2 DEF Next, vars
  <2>2. ASSUME part = "store" PROVE CheckP!IInv'
    <3>1. [CheckP!Next]_(CheckP!vars)
      BY <1>2, <2>2, SameCheck DEF Next, vars, store, CheckP!vars
    <3>. QED BY <1>2, <2>2, <3>1, StoreBounds, CheckP!NextKeeps DEF Stores
  <2>3. ASSUME part = "restore" PROVE RestoreP!IInv'
    <3>1. [RestoreP!Next]_(RestoreP!vars)
      BY <1>2, <2>3, SameRestore DEF Next, vars, store, RestoreP!vars
    <3>. QED BY <1>2, <2>3, <3>1, StoreBounds, RestoreP!NextKeeps DEF Stores
  <2>. QED BY <2>1, <2>2, <2>3 DEF Stores
<1>. QED BY <1>1, <1>2, PTL DEF Spec

\* The checkpoint made for an approved batch is there when the batch is written.
THEOREM UndoReady == ASSUME Apart PROVE Spec => []UndoIsReady
<1>1. ASSUME Stores PROVE UndoIsReady
  <2>1. part = "store" => CheckP!UndoIsReady
    BY <1>1, CheckP!Listed DEF Stores
  <2>. QED BY <2>1
              DEF UndoIsReady, Check!UndoIsReady, CheckP!UndoIsReady, Check!At, CheckP!At,
                  Check!Visible, CheckP!Visible, Check!Ids, CheckP!Ids, Check!Hidden,
                  CheckP!Hidden, Check!Load, CheckP!Load
<1>. QED BY <1>1, StoresHold, PTL

\* An undisturbed restore ends with exactly the checkpoint's files, and saved marks
\* stay unless updates of the sidecar overlap.
THEOREM RestoresKept == ASSUME Apart PROVE Spec => RestoresHold
<1>1. ASSUME Stores, [Next]_vars
      PROVE  /\ \/ UNCHANGED store
                \/ \A w \in Workers :
                     Restore!At(w, "unlink") /\ op'[w].at = "idle" /\ crashes' = crashes
                       /\ op[w].clean => files' = history[op[w].id]
             /\ \/ UNCHANGED store
                \/ raced' \/ Check!Load(sidecar) \subseteq Check!Load(sidecar')
  <2>1. CASE part = "store" /\ CheckP!Next
    <3>1. CheckP!IInv /\ CheckP!Bounds
      BY <1>1, <2>1, StoreBounds DEF Stores
    <3>2. \A w \in Workers :
            CheckP!At(w, "unlink") /\ op'[w].at = "idle" /\ crashes' = crashes
              /\ op[w].clean => files' = history[op[w].id]
      BY <2>1, <3>1, CheckP!ExactStep
    <3>3. ~raced' => CheckP!Load(sidecar) \subseteq CheckP!Load(sidecar')
      BY <2>1, <3>1, CheckP!MarkedStep
    <3>. QED BY <3>2, <3>3 DEF Check!Load, CheckP!Load, CheckP!At, Restore!At
  <2>2. CASE part = "restore" /\ RestoreP!Next
    <3>1. RestoreP!IInv /\ RestoreP!Bounds
      BY <1>1, <2>2, StoreBounds DEF Stores
    <3>2. \A w \in Workers :
            RestoreP!At(w, "unlink") /\ op'[w].at = "idle" /\ crashes' = crashes
              /\ op[w].clean => files' = history[op[w].id]
      BY <2>2, <3>1, RestoreP!ExactStep
    <3>3. ~raced' => RestoreP!Load(sidecar) \subseteq RestoreP!Load(sidecar')
      BY <2>2, <3>1, RestoreP!MarkedStep
    <3>. QED BY <3>2, <3>3 DEF Check!Load, RestoreP!Load, RestoreP!At, Restore!At
  <2>3. CASE UNCHANGED store
    BY <2>3
  <2>. QED BY <1>1, <2>1, <2>2, <2>3, SameCheck, SameRestore DEF Next, vars
<1>2. UNCHANGED store <=> UNCHANGED Restore!vars
  BY DEF store, Restore!vars
<1>3. UNCHANGED store <=> UNCHANGED Check!vars
  BY DEF store, Check!vars
<1>4. Stores /\ [Next]_vars =>
        [\A w \in Workers :
            Restore!At(w, "unlink") /\ op'[w].at = "idle" /\ crashes' = crashes
              /\ op[w].clean => files' = history[op[w].id]]_(Restore!vars)
  BY <1>1, <1>2
<1>5. Stores /\ [Next]_vars =>
        [~raced' => Check!Load(sidecar) \subseteq Check!Load(sidecar')]_(Check!vars)
  BY <1>1, <1>3
<1>6. Spec => Restore!RestoreIsExact
  BY <1>4, StoresHold, PTL DEF Spec, Restore!RestoreIsExact
<1>7. Spec => Check!MarksStay
  BY <1>5, StoresHold, PTL DEF Spec, Check!MarksStay
<1>. QED BY <1>6, <1>7, PTL DEF RestoresHold

-----------------------------------------------------------------------------
(* The conversation.                                                         *)

ChatP == INSTANCE ChatProofs WITH
    pc <- cPc, history <- cHistory, raced <- cRaced,
    Chats <- Workers, Runs <- {w3}, KeepHead <- 1, KeepTail <- 1, MaxTurns <- 3,
    MaxTokens <- 4, MaxRetries <- 1, HistoryTurns <- 2, Sizes <- {1, 2},
    files <- sFiles, tmp <- sTmp, filesOwner <- sOwner, filesPc <- sPc, crashes <- sCrashes,
    Threads <- Workers, Ids <- Items, MaxOps <- 4, MaxClock <- 2, MaxCrashes <- 1,
    modelsOwner <- owner, modelsPc <- pc,
    Callers <- {w1, w2, w3}, Keys <- {p, q, s}, Cap <- 2, MaxCalls <- 4,
    asked <- served, Configurations <- Settings, MaxAsked <- 3,
    Texts <- Items, CacheSize <- 1, MaxTyped <- 3

LEMMA SameTalk == Talk!Next <=> ChatP!Next
<1>1. ASSUME NEW turns, NEW n PROVE Talk!RecentMessages(turns, n) = ChatP!RecentMessages(turns, n)
  BY DEF Talk!Min, Talk!RecentConversation, Talk!RecentMessages, ChatP!Min,
         ChatP!RecentConversation, ChatP!RecentMessages
<1>2. ASSUME NEW turns, NEW n PROVE Talk!Condensed(turns, n) = ChatP!Condensed(turns, n)
  BY DEF Talk!Summary, Talk!Condensed, ChatP!Summary, ChatP!Condensed
<1>3. Talk!Condensing = ChatP!Condensing
  BY DEF Talk!Workers, Talk!Condensing, ChatP!Workers, ChatP!Condensing
<1>4. ASSUME NEW w PROVE Talk!WriteSummary(w) <=> ChatP!WriteSummary(w)
  BY <1>1, <1>2, <1>3 DEF Talk!Go, Talk!WriteSummary, ChatP!Go, ChatP!WriteSummary
<1>5. ASSUME NEW w PROVE Talk!Prompt(w) <=> ChatP!Prompt(w)
  BY <1>1, <1>3
     DEF Talk!Turn, Talk!Go, Talk!RecordTurn, Talk!Prompt, ChatP!Turn, ChatP!Go,
         ChatP!RecordTurn, ChatP!Prompt
<1>6. ASSUME NEW w PROVE Talk!NothingToCondense(w) <=> ChatP!NothingToCondense(w)
  BY DEF Talk!ConversationTokens, Talk!ShouldCondense, Talk!Go, Talk!NothingToCondense,
         ChatP!ConversationTokens, ChatP!ShouldCondense, ChatP!Go, ChatP!NothingToCondense
<1>7. ASSUME NEW w PROVE Talk!MaybeCondense(w) <=> ChatP!MaybeCondense(w)
  BY DEF Talk!ConversationTokens, Talk!ShouldCondense, Talk!CanCondense, Talk!Go,
         Talk!StartCondensing, Talk!MaybeCondense, ChatP!ConversationTokens,
         ChatP!ShouldCondense, ChatP!CanCondense, ChatP!Go, ChatP!StartCondensing,
         ChatP!MaybeCondense
<1>8. ASSUME NEW w PROVE Talk!CannotCondense(w) <=> ChatP!CannotCondense(w)
  BY DEF Talk!ConversationTokens, Talk!ShouldCondense, Talk!CanCondense, Talk!Go,
         Talk!CannotCondense, ChatP!ConversationTokens, ChatP!ShouldCondense, ChatP!CanCondense,
         ChatP!Go, ChatP!CannotCondense
<1>9. ASSUME NEW w PROVE Talk!BuildContext(w) <=> ChatP!BuildContext(w)
  BY DEF Talk!ConversationTokens, Talk!ShouldCondense, Talk!CanCondense, Talk!Go,
         Talk!StartCondensing, Talk!BuildContext, ChatP!ConversationTokens,
         ChatP!ShouldCondense, ChatP!CanCondense, ChatP!Go, ChatP!StartCondensing,
         ChatP!BuildContext
<1>10. ASSUME NEW w PROVE Talk!Answer(w) <=> ChatP!Answer(w)
  BY DEF Talk!Workers, Talk!Turn, Talk!Condensing, Talk!Go, Talk!RecordTurn, Talk!Answer,
         ChatP!Workers, ChatP!Turn, ChatP!Condensing, ChatP!Go, ChatP!RecordTurn, ChatP!Answer
<1>11. ASSUME NEW w PROVE Talk!ContextTooLong(w) <=> ChatP!ContextTooLong(w)
  BY DEF Talk!CanCondense, Talk!Go, Talk!StartCondensing, Talk!ContextTooLong,
         ChatP!CanCondense, ChatP!Go, ChatP!StartCondensing, ChatP!ContextTooLong
<1>12. ASSUME NEW w PROVE Talk!Fails(w) <=> ChatP!Fails(w)
  BY DEF Talk!Go, Talk!Fails, ChatP!Go, ChatP!Fails
<1>. QED BY <1>4, <1>5, <1>6, <1>7, <1>8, <1>9, <1>10, <1>11, <1>12 DEF Talk!Step, ChatP!Step,
         Talk!Workers, ChatP!Workers, Talk!Next, ChatP!Next

LEMMA TalkRuns == Spec => ChatP!Spec
<1>1. Init => ChatP!Init
  BY DEF Init, Talk!Init, ChatP!Init, Talk!Workers, ChatP!Workers
<1>2. ASSUME [Next]_vars PROVE [ChatP!Next]_(ChatP!vars)
  <2>1. UNCHANGED talk => UNCHANGED ChatP!vars
    BY DEF talk, ChatP!vars
  <2>2. Talk!Next \/ UNCHANGED talk
    BY <1>2 DEF Next, vars
  <2>. QED BY <2>1, <2>2, SameTalk
<1>. QED BY <1>1, <1>2, PTL DEF Spec, ChatP!Spec

\* A recorded turn leaves the conversation only into a summary that stands for
\* it, unless it was recorded while somebody condensed.
THEOREM Remembered == Spec => []NothingForgotten
<1>1. Spec => []ChatP!NothingForgotten
  <2>1. ChatP!Spec => []ChatP!NothingForgotten
    BY ChatP!Remembered
  <2>. QED BY <2>1, TalkRuns, PTL
<1>2. ChatP!NothingForgotten => NothingForgotten
  BY DEF NothingForgotten, Talk!NothingForgotten, ChatP!NothingForgotten, Talk!Covered,
         ChatP!Covered
<1>. QED BY <1>1, <1>2, PTL

\* A condensation leaves fewer turns than it read, none to condense, and the turns
\* that open the conversation as they are.
THEOREM Shrinking == Spec => CondensingShrinks
<1>1. [\A w \in ChatP!Condensing :
         cPc'[w] # cPc[w] =>
           /\ Len(conversation') < Len(snapshot[w])
           /\ ~ChatP!CanCondense(conversation')
           /\ SubSeq(conversation', 1, 1) = SubSeq(conversation, 1, 1)]_(ChatP!vars)
      => [\A w \in Talk!Condensing :
            cPc'[w] # cPc[w] =>
              /\ Len(conversation') < Len(snapshot[w])
              /\ ~Talk!CanCondense(conversation')
              /\ SubSeq(conversation', 1, 1) = SubSeq(conversation, 1, 1)]_(Talk!vars)
  BY DEF Talk!Condensing, ChatP!Condensing, Talk!CanCondense, ChatP!CanCondense, Talk!Workers,
         ChatP!Workers, Talk!vars, ChatP!vars
<1>2. ChatP!CondensingShrinks => CondensingShrinks
  BY <1>1, PTL DEF CondensingShrinks, Talk!CondensingShrinks, ChatP!CondensingShrinks
<1>3. ChatP!Spec => ChatP!CondensingShrinks
  BY ChatP!Shrinking
<1>. QED BY <1>2, <1>3, TalkRuns, PTL

-----------------------------------------------------------------------------
(* The models: the clients of the roles, and the objects loaded on the device. *)

LEMMA SameModels == (Models!Next <=> ChatP!Loaded!Next) /\ (Models!Init <=> ChatP!Loaded!Init)
<1>1. ASSUME NEW entries PROVE Models!Evicted(entries) = ChatP!Loaded!Evicted(entries)
  BY DEF Models!Evicted, ChatP!Loaded!Evicted
<1>2. ASSUME NEW t PROVE Models!Call(t) <=> ChatP!Loaded!Call(t)
  BY DEF Models!Call, Models!NoCall, Models!Go, ChatP!Loaded!Call, ChatP!Loaded!NoCall,
     ChatP!Loaded!Go
<1>3. ASSUME NEW t PROVE Models!Hit(t) <=> ChatP!Loaded!Hit(t)
  BY DEF Models!Hit, Models!RemoveAt, Models!Go, ChatP!Loaded!Hit, ChatP!Loaded!RemoveAt,
     ChatP!Loaded!Go
<1>4. ASSUME NEW t PROVE Models!Load(t) <=> ChatP!Loaded!Load(t)
  BY <1>1 DEF Models!Load, Models!Cached, Models!ToSet, Models!Go, ChatP!Loaded!Load,
     ChatP!Loaded!Cached, ChatP!Loaded!ToSet, ChatP!Loaded!Go
<1>5. ASSUME NEW t PROVE Models!LoadFails(t) <=> ChatP!Loaded!LoadFails(t)
  BY DEF Models!LoadFails, Models!Cached, Models!Go, ChatP!Loaded!LoadFails,
         ChatP!Loaded!Cached, ChatP!Loaded!Go
<1>6. ASSUME NEW t PROVE Models!GetLock(t) <=> ChatP!Loaded!GetLock(t)
  BY DEF Models!GetLock, Models!NewLock, Models!Go, ChatP!Loaded!GetLock, ChatP!Loaded!NewLock,
     ChatP!Loaded!Go
<1>7. ASSUME NEW t PROVE Models!Generate(t) <=> ChatP!Loaded!Generate(t)
  BY DEF Models!Generate, Models!Go, ChatP!Loaded!Generate, ChatP!Loaded!Go
<1>8. ASSUME NEW t PROVE Models!Finish(t) <=> ChatP!Loaded!Finish(t)
  BY DEF Models!Finish, Models!NoCall, Models!Go, ChatP!Loaded!Finish, ChatP!Loaded!NoCall,
     ChatP!Loaded!Go
<1>9. Models!Init <=> ChatP!Loaded!Init
  BY DEF Models!Init, Models!NoCall, ChatP!Loaded!Init, ChatP!Loaded!NoCall
<1>. QED BY <1>2, <1>3, <1>4, <1>5, <1>6, <1>7, <1>8, <1>9 DEF Models!Next, ChatP!Loaded!Next

LEMMA SameIdentities ==
    /\ \A r : Router!EffectiveProvider(r) = ChatP!Router!EffectiveProvider(r)
    /\ \A r, provider : Router!Identity(r, provider) = ChatP!Router!Identity(r, provider)
<1>1. ASSUME NEW r PROVE Router!EffectiveProvider(r) = ChatP!Router!EffectiveProvider(r)
  BY DEF Router!EffectiveProvider, Router!ExplicitProvider, Router!Unset, Router!Derived,
     Router!ProfileProvider, Router!GoesByGlobal, Router!LatencyCritical, Router!ResolveProfile,
     Router!RemoteKeyConfigured, Router!ReasoningRoles, ChatP!Router!EffectiveProvider,
     ChatP!Router!ExplicitProvider, ChatP!Router!Unset, ChatP!Router!Derived,
     ChatP!Router!ProfileProvider, ChatP!Router!GoesByGlobal, ChatP!Router!LatencyCritical,
     ChatP!Router!ResolveProfile, ChatP!Router!RemoteKeyConfigured, ChatP!Router!ReasoningRoles
<1>2. ASSUME NEW r, NEW provider PROVE Router!Identity(r, provider) = ChatP!Router!Identity(r, provider)
  BY DEF Router!Identity, Router!OverrideModel, Router!Unset, Router!PlanModel,
         Router!ChatModel, Router!LocalModelFile, Router!IsLocalPearl, ChatP!Router!Identity,
         ChatP!Router!OverrideModel, ChatP!Router!Unset, ChatP!Router!PlanModel,
         ChatP!Router!ChatModel, ChatP!Router!LocalModelFile, ChatP!Router!IsLocalPearl
<1>. QED BY <1>1, <1>2

LEMMA SameRouter == (Router!Next <=> ChatP!Router!Next) /\ (Router!Init <=> ChatP!Router!Init)
<1>1. \A r : Router!EffectiveProvider(r) = ChatP!Router!EffectiveProvider(r)
  BY SameIdentities
<1>2. \A r, provider : Router!Identity(r, provider) = ChatP!Router!Identity(r, provider)
  BY SameIdentities
<1>3. ASSUME NEW identity PROVE Router!Filed(identity) = ChatP!Router!Filed(identity)
  BY DEF Router!Filed, ChatP!Router!Filed
<1>4. ASSUME NEW provider PROVE Router!Builds(provider) = ChatP!Router!Builds(provider)
  BY DEF Router!Builds, Router!IsLocalPearl, ChatP!Router!Builds, ChatP!Router!IsLocalPearl
<1>5. ASSUME NEW r PROVE Router!Asks(r) = ChatP!Router!Asks(r)
  BY DEF Router!Asks, Router!Derived, Router!Configured, Router!Unset, ChatP!Router!Asks,
     ChatP!Router!Derived, ChatP!Router!Configured, ChatP!Router!Unset
<1>6. ASSUME NEW r, NEW provider PROVE Router!FileOrBuild(r, provider) <=> ChatP!Router!FileOrBuild(r, provider)
  BY <1>2, <1>3
     DEF Router!FileOrBuild, Router!Serve, ChatP!Router!FileOrBuild, ChatP!Router!Serve
<1>7. ASSUME NEW r, NEW provider PROVE Router!MayFallBack(r, provider) <=> ChatP!Router!MayFallBack(r, provider)
  BY DEF Router!MayFallBack, ChatP!Router!MayFallBack
<1>8. ASSUME NEW r PROVE Router!ClientFor(r) <=> ChatP!Router!ClientFor(r)
  BY <1>1, <1>2, <1>3, <1>4, <1>6, <1>7 DEF Router!ClientFor, Router!Raise,
     ChatP!Router!ClientFor, ChatP!Router!Raise
<1>9. ASSUME NEW r PROVE Router!Ask(r) <=> ChatP!Router!Ask(r)
  BY <1>5, <1>8 DEF Router!Ask, Router!Configured, Router!Unset, ChatP!Router!Ask,
     ChatP!Router!Configured, ChatP!Router!Unset
<1>10. Router!Init <=> ChatP!Router!Init
  BY DEF Router!Init, ChatP!Router!Init
<1>. QED BY <1>9, <1>10 DEF Router!Next, Router!Roles, ChatP!Router!Next, ChatP!Router!Roles

LEMMA ModelsRun == Spec => ChatP!Loaded!Spec
<1>1. Init => ChatP!Loaded!Init
  BY SameModels DEF Init
<1>2. ASSUME [Next]_vars PROVE [ChatP!Loaded!Next]_(ChatP!Loaded!vars)
  <2>1. UNCHANGED models => UNCHANGED ChatP!Loaded!vars
    BY DEF models, ChatP!Loaded!vars
  <2>2. Models!Next \/ UNCHANGED models
    BY <1>2 DEF Next, vars
  <2>. QED BY <2>1, <2>2, SameModels
<1>. QED BY <1>1, <1>2, PTL DEF Spec, ChatP!Loaded!Spec

\* The settings that the run checks are settings.
LEMMA SettingsBound == ChatP!RouterBounds
<1>1. ASSUME NEW c \in Choices, NEW r \in Roles
      PROVE  /\ For(r, c, 2) \in ChatP!Router!Providers \cup {ChatP!Router!Unset}
             /\ For(r, c, 3) \in {ChatP!Router!Unset, "own"}
  BY DEF Choices, For, ChatP!Router!Providers, ChatP!Router!Unset
<1>2. Roles = ChatP!Router!Roles
  BY DEF Roles, ChatP!Router!Roles
<1>3. ASSUME NEW c \in Choices
      PROVE  /\ [r \in Roles |-> For(r, c, 2)]
                   \in [ChatP!Router!Roles -> ChatP!Router!Providers \cup {ChatP!Router!Unset}]
             /\ [r \in Roles |-> For(r, c, 3)]
                   \in [ChatP!Router!Roles -> {ChatP!Router!Unset, "own"}]
  BY <1>1, <1>2
<1>4. ASSUME NEW x \in Settings PROVE x \in ChatP!Router!Configuration
  <2>1. PICK l \in {"pearl", "other"}, f \in {"auto", "local", "hybrid", "cloud", "typo"},
             c \in Choices, k \in {"none", "gateway", "key"}, b \in BOOLEAN, t \in BOOLEAN :
               x = [llm |-> l, profile |-> f, provider |-> [r \in Roles |-> For(r, c, 2)],
                    model |-> [r \in Roles |-> For(r, c, 3)], gateway |-> k = "gateway",
                    key |-> k = "key", fallback |-> b, tiers |-> t, files |-> t]
    BY DEF Settings
  <2>2. l \in ChatP!Router!Providers /\ (k = "gateway") \in BOOLEAN /\ (k = "key") \in BOOLEAN
    BY DEF ChatP!Router!Providers
  <2>. QED BY <1>3, <2>1, <2>2 DEF ChatP!Router!Configuration
<1>. QED BY <1>4 DEF ChatP!RouterBounds

Routed == part = "routing" => ChatP!RouterInv

LEMMA RoutedHolds == Spec => []Routed
<1>1. ASSUME Init PROVE Routed
  BY <1>1, SettingsBound, SameRouter, ChatP!RouterInit DEF Init, Routed
<1>2. ASSUME Routed, [Next]_vars PROVE Routed'
  <2>1. part' = part
    BY <1>2 DEF Next, vars
  <2>2. part = "routing" => [ChatP!Router!Next]_(ChatP!Router!vars)
    BY <1>2, SameRouter DEF Next, vars, routing, ChatP!Router!vars
  <2>. QED BY <1>2, <2>1, <2>2, SettingsBound, ChatP!RouterNext DEF Routed
<1>. QED BY <1>1, <1>2, PTL DEF Spec

\* Roles with the same model share a client, and threads a loaded model, one call at
\* a time while it is not closed.  No lock is told from a lock and from a thread.
THEOREM Shared ==
    ASSUME None \notin Nat, None \notin {w1, w2, w3}
    PROVE  Spec => []ModelsAreShared
<1>1. ChatP!LoadedBounds
  BY DEF ChatP!LoadedBounds
<1>2. ChatP!Loaded!Spec => []ChatP!Loaded!OneCallPerObject
  BY <1>1, ChatP!OneCall
<1>3. Routed => (part = "routing" => ChatP!Router!RoutesAreSound)
  BY ChatP!Sound DEF Routed
<1>4. ChatP!Loaded!OneCallPerObject => Models!OneCallPerObject
  BY DEF Models!OneCallPerObject, ChatP!Loaded!OneCallPerObject
<1>5. ChatP!Router!RoutesAreSound => Router!RoutesAreSound
  <2>1. Router!AllSameProvider <=> ChatP!Router!AllSameProvider
    BY SameIdentities DEF Router!AllSameProvider, ChatP!Router!AllSameProvider, Router!Unset,
       ChatP!Router!Unset
  <2>. QED BY <2>1, SameIdentities DEF Router!RoutesAreSound, ChatP!Router!RoutesAreSound
<1>. QED BY <1>2, <1>3, <1>4, <1>5, ModelsRun, RoutedHolds, PTL DEF ModelsAreShared

-----------------------------------------------------------------------------
(* The session files.                                                        *)

LEMMA SameSessions == (Sess!Next <=> ChatP!Files!Next) /\ (Sess!Init <=> ChatP!Files!Init)
<1>1. Sess!Known = ChatP!Files!Known
  BY DEF Sess!Known, ChatP!Files!Known
<1>2. Sess!Managers = ChatP!Files!Managers
  BY DEF Sess!Managers, Sess!Cardinality, ChatP!Files!Managers, ChatP!Files!Cardinality
<1>3. ASSUME NEW t PROVE Sess!Request(t) <=> ChatP!Files!Request(t)
  BY <1>1
     DEF Sess!Request, Sess!Operations, Sess!Go, ChatP!Files!Request, ChatP!Files!Operations,
         ChatP!Files!Go
<1>4. ASSUME NEW t PROVE Sess!GetSessionManager(t) <=> ChatP!Files!GetSessionManager(t)
  BY DEF Sess!GetSessionManager, Sess!Go, ChatP!Files!GetSessionManager, ChatP!Files!Go
<1>5. ASSUME NEW t PROVE Sess!CreateSession(t) <=> ChatP!Files!CreateSession(t)
  BY DEF Sess!CreateSession, Sess!Now, Sess!Go, ChatP!Files!CreateSession, ChatP!Files!Now,
     ChatP!Files!Go
<1>6. ASSUME NEW t PROVE Sess!Change(t) <=> ChatP!Files!Change(t)
  BY DEF Sess!Change, Sess!Free, Sess!Changed, Sess!Now, Sess!Lock, Sess!Go, ChatP!Files!Change,
     ChatP!Files!Free, ChatP!Files!Changed, ChatP!Files!Now, ChatP!Files!Lock, ChatP!Files!Go
<1>7. ASSUME NEW t PROVE Sess!NotFound(t) <=> ChatP!Files!NotFound(t)
  BY DEF Sess!NotFound, Sess!Free, Sess!Go, ChatP!Files!NotFound, ChatP!Files!Free,
         ChatP!Files!Go
<1>8. ASSUME NEW t PROVE Sess!GetSession(t) <=> ChatP!Files!GetSession(t)
  BY DEF Sess!GetSession, Sess!Go, ChatP!Files!GetSession, ChatP!Files!Go
<1>9. ASSUME NEW t PROVE Sess!ReadSession(t) <=> ChatP!Files!ReadSession(t)
  BY DEF Sess!ReadSession, Sess!Free, Sess!Go, ChatP!Files!ReadSession, ChatP!Files!Free,
     ChatP!Files!Go
<1>10. ASSUME NEW t PROVE Sess!DeleteSession(t) <=> ChatP!Files!DeleteSession(t)
  BY DEF Sess!DeleteSession, Sess!Free, Sess!Go, ChatP!Files!DeleteSession, ChatP!Files!Free,
     ChatP!Files!Go
<1>11. ASSUME NEW t PROVE Sess!WriteTmp(t) <=> ChatP!Files!WriteTmp(t)
  BY DEF Sess!WriteTmp, Sess!Lock, Sess!Go, ChatP!Files!WriteTmp, ChatP!Files!Lock,
         ChatP!Files!Go
<1>12. ASSUME NEW t PROVE Sess!Replace(t) <=> ChatP!Files!Replace(t)
  BY DEF Sess!Replace, Sess!Unlock, Sess!Go, ChatP!Files!Replace, ChatP!Files!Unlock,
     ChatP!Files!Go
<1>13. ASSUME NEW t PROVE Sess!SaveFails(t) <=> ChatP!Files!SaveFails(t)
  BY DEF Sess!SaveFails, Sess!Unlock, Sess!Go, ChatP!Files!SaveFails, ChatP!Files!Unlock,
     ChatP!Files!Go
<1>14. Sess!Tick <=> ChatP!Files!Tick
  BY DEF Sess!Tick, ChatP!Files!Tick
<1>15. Sess!Restart <=> ChatP!Files!Restart
  BY <1>2 DEF Sess!Restart, Sess!Max, Sess!NoRequest, ChatP!Files!Restart, ChatP!Files!Max,
     ChatP!Files!NoRequest
<1>16. Sess!Init <=> ChatP!Files!Init
  BY <1>2 DEF Sess!Init, Sess!NoRequest, ChatP!Files!Init, ChatP!Files!NoRequest
<1>. QED BY <1>3, <1>4, <1>5, <1>6, <1>7, <1>8, <1>9, <1>10, <1>11, <1>12, <1>13, <1>14, <1>15,
            <1>16
            DEF Sess!Next, Sess!Step, ChatP!Files!Next, ChatP!Files!Step

LEMMA SessionsRun == Spec => ChatP!Files!Spec
<1>1. Init => ChatP!Files!Init
  BY SameSessions DEF Init
<1>2. ASSUME [Next]_vars PROVE [ChatP!Files!Next]_(ChatP!Files!vars)
  <2>1. UNCHANGED sessions => UNCHANGED ChatP!Files!vars
    BY DEF sessions, ChatP!Files!vars
  <2>2. Sess!Next \/ UNCHANGED sessions
    BY <1>2 DEF Next, vars
  <2>. QED BY <2>1, <2>2, SameSessions
<1>. QED BY <1>1, <1>2, PTL DEF Spec, ChatP!Files!Spec

LEMMA FilesBound ==
    ASSUME None \notin Workers, None \notin ChatP!Records
    PROVE  ChatP!FilesBounds
<1>1. ChatP!IsFiniteSet({})
  BY ChatP!FS_EmptySet
<1>2. ChatP!IsFiniteSet({} \cup {w1})
  BY <1>1, ChatP!FS_AddElement
<1>3. ChatP!IsFiniteSet(({} \cup {w1}) \cup {w2})
  BY <1>2, ChatP!FS_AddElement
<1>4. ({} \cup {w1}) \cup {w2} = Workers
  BY DEF Workers
<1>. QED BY <1>3, <1>4 DEF ChatP!FilesBounds

\* A message whose append returned stays in its session, a deleted session stays
\* deleted, and sessions are told apart by their stamps, whoever changes them
\* meanwhile and wherever the process is killed.
THEOREM SessionsKept ==
    ASSUME None \notin Workers, None \notin ChatP!Records
    PROVE  Spec => []SessionsAreKept
<1>1. ChatP!Files!Spec => []ChatP!Files!SessionsAreKept
  BY FilesBound, ChatP!SessionsKept
<1>2. ChatP!Files!SessionsAreKept => SessionsAreKept
  BY DEF SessionsAreKept, Sess!SessionsAreKept, ChatP!Files!SessionsAreKept, Sess!AppendsKept,
         ChatP!Files!AppendsKept, Sess!DeletedStaysDeleted, ChatP!Files!DeletedStaysDeleted,
         Sess!StampsDiffer, ChatP!Files!StampsDiffer, Sess!ToSet, ChatP!Files!ToSet
<1>. QED BY <1>1, <1>2, SessionsRun, PTL

-----------------------------------------------------------------------------
(* The model client.                                                         *)

LEMMA SameClient == (Llm!Next <=> RunP!Client!Next) /\ (Llm!Init <=> RunP!Client!Init)
<1>. USE DEF Llm!vars, Llm!NoReply, Llm!Over, Llm!SendUnlessCancelled, Llm!Ended, Llm!Raised,
         Llm!Fails, RunP!Client!vars, RunP!Client!NoReply, RunP!Client!Over,
         RunP!Client!SendUnlessCancelled, RunP!Client!Ended, RunP!Client!Raised,
         RunP!Client!Fails
<1>1. \A t : Llm!FindBalanced(t) = RunP!Client!FindBalanced(t)
  BY DEF Llm!FindBalanced, Llm!ScanFrom, RunP!Client!FindBalanced, RunP!Client!ScanFrom
<1>2. Llm!Extracted = RunP!Client!Extracted
  BY <1>1 DEF Llm!Extracted, Llm!Text, RunP!Client!Extracted, RunP!Client!Text
<1>3. Llm!PlanOrAmbiguous <=> RunP!Client!PlanOrAmbiguous
  BY <1>2 DEF Llm!PlanOrAmbiguous, RunP!Client!PlanOrAmbiguous
<1>4. Llm!Invalid <=> RunP!Client!Invalid
  BY <1>2 DEF Llm!Invalid, RunP!Client!Invalid
<1>5. Llm!Generate <=> RunP!Client!Generate
  BY DEF Llm!Generate, RunP!Client!Generate
<1>6. Llm!GenerateStream <=> RunP!Client!GenerateStream
  BY DEF Llm!GenerateStream, RunP!Client!GenerateStream
<1>7. Llm!CompleteRaw <=> RunP!Client!CompleteRaw
  BY DEF Llm!CompleteRaw, RunP!Client!CompleteRaw
<1>8. Llm!Send <=> RunP!Client!Send
  BY DEF Llm!Send, RunP!Client!Send
<1>9. Llm!AuthFails <=> RunP!Client!AuthFails
  BY DEF Llm!AuthFails, RunP!Client!AuthFails
<1>10. Llm!OtherFails <=> RunP!Client!OtherFails
  BY DEF Llm!OtherFails, RunP!Client!OtherFails
<1>11. Llm!TransientFails <=> RunP!Client!TransientFails
  BY DEF Llm!TransientFails, RunP!Client!TransientFails
<1>12. Llm!Poll <=> RunP!Client!Poll
  BY DEF Llm!Poll, RunP!Client!Poll
<1>13. Llm!Waited <=> RunP!Client!Waited
  BY DEF Llm!Waited, RunP!Client!Waited
<1>14. Llm!Answers <=> RunP!Client!Answers
  BY DEF Llm!Answers, RunP!Client!Answers
<1>15. Llm!Cancel <=> RunP!Client!Cancel
  BY DEF Llm!Cancel, RunP!Client!Cancel
<1>16. Llm!Init <=> RunP!Client!Init
  BY DEF Llm!Init, RunP!Client!Init
<1>. QED
  BY <1>2, <1>3, <1>4, <1>5, <1>6, <1>7, <1>8, <1>9, <1>10, <1>11, <1>12, <1>13, <1>14, <1>15,
     <1>16
  DEF Llm!Next, RunP!Client!Next

LEMMA ClientRuns == Spec => RunP!Client!Spec
<1>1. Init => RunP!Client!Init
  BY SameClient DEF Init
<1>2. ASSUME [Next]_vars PROVE [RunP!Client!Next]_(RunP!Client!vars)
  <2>1. UNCHANGED client => UNCHANGED RunP!Client!vars
    BY DEF client, RunP!Client!vars
  <2>2. Llm!Next \/ UNCHANGED client
    BY <1>2 DEF Next, vars
  <2>. QED BY <2>1, <2>2, SameClient
<1>. QED BY <1>1, <1>2, PTL DEF Spec, RunP!Client!Spec

\* What the model answers in the run are the samples of RunProofs.
LEMMA AnswersBound == RunP!ClientBounds
<1>1. Characters = RunP!SampleSymbols
  BY Zenon DEF Characters, RunP!SampleSymbols, RunP!Brace, RunP!Shut
<1>2. Objects = RunP!SampleObjects
  BY Zenon DEF Objects, RunP!SampleObjects, RunP!Brace, RunP!Shut
<1>3. ModelAnswers = RunP!SampleAnswers
  BY <1>2, Zenon DEF ModelAnswers, RunP!SampleAnswers, RunP!Brace, RunP!Shut
<1>. QED BY <1>1, <1>3, RunP!SamplesBound DEF RunP!ClientBounds

-----------------------------------------------------------------------------
(* The completions.                                                          *)

LEMMA SameTyping == (Typing!Next <=> ChatP!Typing!Next) /\ (Typing!Init <=> ChatP!Typing!Init)
<1>. USE DEF Typing!vars, Typing!Requests, Typing!Newest, Typing!Completion, Typing!NoAnswer,
         Typing!Resolve, Typing!Live, Typing!Asked, Typing!Serve, Typing!Cached,
         Typing!Without, Typing!Others, Typing!Use, Typing!Show, Typing!RemoveAt,
         ChatP!Typing!vars, ChatP!Typing!Requests, ChatP!Typing!Newest,
         ChatP!Typing!Completion, ChatP!Typing!NoAnswer, ChatP!Typing!Resolve,
         ChatP!Typing!Live, ChatP!Typing!Asked, ChatP!Typing!Serve, ChatP!Typing!Cached,
         ChatP!Typing!Without, ChatP!Typing!Others, ChatP!Typing!Use, ChatP!Typing!Show,
         ChatP!Typing!RemoveAt
<1>1. ASSUME NEW text PROVE Typing!Skip(text) <=> ChatP!Typing!Skip(text)
  BY DEF Typing!Skip, ChatP!Typing!Skip
<1>2. ASSUME NEW text PROVE Typing!Provide(text) <=> ChatP!Typing!Provide(text)
  BY DEF Typing!Provide, ChatP!Typing!Provide
<1>3. Typing!TimerFires <=> ChatP!Typing!TimerFires
  BY DEF Typing!TimerFires, ChatP!Typing!TimerFires
<1>4. ASSUME NEW r PROVE Typing!CancelRequest(r) <=> ChatP!Typing!CancelRequest(r)
  BY DEF Typing!CancelRequest, ChatP!Typing!CancelRequest
<1>5. ASSUME NEW r PROVE Typing!GiveUp(r) <=> ChatP!Typing!GiveUp(r)
  BY DEF Typing!GiveUp, ChatP!Typing!GiveUp
<1>6. ASSUME NEW r PROVE Typing!Render(r) <=> ChatP!Typing!Render(r)
  BY DEF Typing!Render, ChatP!Typing!Render
<1>7. ASSUME NEW r PROVE Typing!Decline(r) <=> ChatP!Typing!Decline(r)
  BY DEF Typing!Decline, ChatP!Typing!Decline
<1>8. ASSUME NEW r PROVE Typing!CacheGet(r) <=> ChatP!Typing!CacheGet(r)
  BY DEF Typing!CacheGet, ChatP!Typing!CacheGet
<1>9. ASSUME NEW r PROVE Typing!Infer(r) <=> ChatP!Typing!Infer(r)
  BY DEF Typing!Infer, ChatP!Typing!Infer
<1>10. ASSUME NEW r PROVE Typing!InferNothing(r) <=> ChatP!Typing!InferNothing(r)
  BY DEF Typing!InferNothing, ChatP!Typing!InferNothing
<1>11. ASSUME NEW r PROVE Typing!CachePut(r) <=> ChatP!Typing!CachePut(r)
  BY DEF Typing!CachePut, ChatP!Typing!CachePut
<1>12. Typing!Init <=> ChatP!Typing!Init
  BY DEF Typing!Init, ChatP!Typing!Init
<1>. QED
  BY <1>1, <1>2, <1>3, <1>4, <1>5, <1>6, <1>7, <1>8, <1>9, <1>10, <1>11, <1>12
  DEF Typing!Next, ChatP!Typing!Next

LEMMA TypingRuns == Spec => ChatP!Typing!Spec
<1>1. Init => ChatP!Typing!Init
  BY SameTyping DEF Init
<1>2. ASSUME [Next]_vars PROVE [ChatP!Typing!Next]_(ChatP!Typing!vars)
  <2>1. UNCHANGED typing => UNCHANGED ChatP!Typing!vars
    BY DEF typing, ChatP!Typing!vars
  <2>2. Typing!Next \/ UNCHANGED typing
    BY <1>2 DEF Next, vars
  <2>. QED BY <2>1, <2>2, SameTyping
<1>. QED BY <1>1, <1>2, PTL DEF Spec, ChatP!Typing!Spec

\* At most one request follows a cancel, a prompt is repeated only after failures
\* that pass, the object of an answer is found; and what is shown completes the text
\* it is shown in, unless something overtook it.
THEOREM Requested == Spec => []RequestsAreBounded
<1>1. Spec => []RunP!Client!RequestsAreBounded
  <2>1. RunP!Client!Spec => []RunP!Client!RequestsAreBounded
    BY AnswersBound, RunP!RequestsBounded
  <2>. QED BY <2>1, ClientRuns, PTL
<1>2. Spec => []ChatP!Typing!SuggestionsAreCurrent
  <2>1. ChatP!Typing!Spec => []ChatP!Typing!SuggestionsAreCurrent
    BY ChatP!SuggestionsCurrent
  <2>. QED BY <2>1, TypingRuns, PTL
<1>3. RunP!Client!RequestsAreBounded => Llm!RequestsAreBounded
  BY DEF Llm!RequestsAreBounded, RunP!Client!RequestsAreBounded, Llm!Cardinality,
         RunP!Client!Cardinality
<1>4. ChatP!Typing!SuggestionsAreCurrent => Typing!SuggestionsAreCurrent
  BY DEF Typing!SuggestionsAreCurrent, ChatP!Typing!SuggestionsAreCurrent,
         Typing!NoLateSuggestion, ChatP!Typing!NoLateSuggestion, Typing!LastOneStanding,
         ChatP!Typing!LastOneStanding, Typing!CacheIsLru, ChatP!Typing!CacheIsLru,
         Typing!Requests, ChatP!Typing!Requests, Typing!Newest, ChatP!Typing!Newest,
         Typing!Completion, ChatP!Typing!Completion
<1>5. RunP!Client!RequestsAreBounded /\ ChatP!Typing!SuggestionsAreCurrent => RequestsAreBounded
  BY <1>3, <1>4 DEF RequestsAreBounded
<1>. QED BY <1>1, <1>2, <1>5, PTL

-----------------------------------------------------------------------------
(* The types of all parts.                                                   *)

\* What the theorems ask of the values that stand for nothing.
Told ==
    /\ Apart
    /\ None \notin Items /\ None \notin Workers /\ None \notin {w1, w2, w3}
    /\ None \notin Nat /\ None \notin ChatP!Records
    /\ Workers \cap 1 .. 2 = {}

StoreTyped == (part = "store" => Check!TypeOK) /\ (part = "restore" => Restore!TypeOK)

LEMMA StoreTypes == ASSUME Told PROVE Spec => []StoreTyped
<1>1. ASSUME Stores PROVE StoreTyped
  <2>1. part = "store" => CheckP!TypeOK
    BY <1>1, StoreBounds, CheckP!Types DEF Stores, Told
  <2>2. part = "restore" => RestoreP!TypeOK
    BY <1>1, StoreBounds, RestoreP!Types DEF Stores, Told
  <2>3. CheckP!TypeOK => Check!TypeOK
    BY DEF Check!TypeOK, CheckP!TypeOK, Check!Tree, CheckP!Tree, Check!Marks, CheckP!Marks,
           Check!Steps, CheckP!Steps
  <2>4. RestoreP!TypeOK => Restore!TypeOK
    BY DEF Restore!TypeOK, RestoreP!TypeOK, Restore!Tree, RestoreP!Tree, Restore!Marks,
           RestoreP!Marks, Restore!Steps, RestoreP!Steps
  <2>. QED BY <2>1, <2>2, <2>3, <2>4 DEF StoreTyped
<1>2. Spec => []Stores
  BY StoresHold DEF Told
<1>. QED BY <1>1, <1>2, PTL

LEMMA ChatTypes == ASSUME Told PROVE Spec => [](Sess!TypeOK /\ Talk!TypeOK /\ Models!TypeOK)
<1>1. Spec => []ChatP!Files!TypeOK
  <2>1. ChatP!Files!Spec => []ChatP!Files!TypeOK
    BY FilesBound, ChatP!FilesTypeCorrect DEF Told
  <2>. QED BY <2>1, SessionsRun, PTL
<1>2. Spec => []ChatP!TypeOK
  <2>1. ChatP!Spec => []ChatP!TypeOK
    BY ChatP!TypeCorrect
  <2>. QED BY <2>1, TalkRuns, PTL
<1>3. Spec => []ChatP!Loaded!TypeOK
  <2>1. ChatP!LoadedBounds
    BY DEF Told, ChatP!LoadedBounds
  <2>2. ChatP!Loaded!Spec => []ChatP!Loaded!TypeOK
    BY <2>1, ChatP!LoadedTypeCorrect
  <2>. QED BY <2>2, ModelsRun, PTL
<1>4. ChatP!Files!TypeOK => Sess!TypeOK
  BY DEF Sess!TypeOK, ChatP!Files!TypeOK, Sess!Managers, ChatP!Files!Managers,
         Sess!Cardinality, ChatP!Files!Cardinality, Sess!IsInjective, ChatP!Files!IsInjective
<1>5. ChatP!TypeOK => Talk!TypeOK
  BY DEF Talk!TypeOK, ChatP!TypeOK, Talk!Roles, ChatP!Roles, Talk!Workers, ChatP!Workers
<1>6. ChatP!Loaded!TypeOK => Models!TypeOK
  BY DEF Models!TypeOK, ChatP!Loaded!TypeOK
<1>. QED BY <1>1, <1>2, <1>3, <1>4, <1>5, <1>6, PTL

LEMMA RunTypes ==
    ASSUME Told
    PROVE  Spec => [](Mcp!TypeOK /\ Context!TypeOK /\ Staged!TypeOK /\ Stream!TypeOK)
<1>1. Spec => []RunP!Server!TypeOK
  <2>1. RunP!Server!Spec => []RunP!Server!TypeOK
    BY RunP!ServerTypes
  <2>. QED BY <2>1, McpRuns, PTL
<1>2. Spec => []RunP!TypeOK
  <2>1. RunP!Spec => []RunP!TypeOK
    BY RunP!TypeCorrect DEF Told
  <2>. QED BY <2>1, ContextRuns, PTL
<1>3. Spec => []RunP!Staged!TypeOK
  <2>1. RunP!Staged!Spec => []RunP!Staged!TypeOK
    BY RunP!StagedTypes
  <2>. QED BY <2>1, StagedRuns, PTL
<1>4. Spec => []RunP!Stream!TypeOK
  BY RunP!StreamTypes, StreamRuns, PTL
<1>5. RunP!Server!TypeOK => Mcp!TypeOK
  BY DEF Mcp!TypeOK, RunP!Server!TypeOK, Mcp!Methods, RunP!Server!Methods
<1>6. RunP!TypeOK => Context!TypeOK
  BY DEF Context!TypeOK, RunP!TypeOK, Context!Threads, RunP!Threads, Context!Executors,
         RunP!Executors
<1>7. RunP!Staged!TypeOK => Staged!TypeOK
  BY DEF Staged!TypeOK, RunP!Staged!TypeOK, Staged!Commands, RunP!Staged!Commands,
         Staged!Lines, RunP!Staged!Lines, Staged!GitCommands, RunP!Staged!GitCommands,
         Staged!Range, RunP!Staged!Range
<1>8. RunP!Stream!TypeOK => Stream!TypeOK
  BY DEF Stream!TypeOK, RunP!Stream!TypeOK, Stream!Range, RunP!Stream!Range,
         Stream!BusEvents, RunP!Stream!BusEvents, Stream!Direct, RunP!Stream!Direct
<1>. QED BY <1>1, <1>2, <1>3, <1>4, <1>5, <1>6, <1>7, <1>8, PTL

LEMMA RequestTypes ==
    Spec => [](Llm!TypeOK /\ Typing!TypeOK /\ (part = "routing" => Router!TypeOK))
<1>1. Spec => []RunP!Client!TypeOK
  <2>1. RunP!Client!Spec => []RunP!Client!TypeOK
    BY AnswersBound, RunP!ClientTypes
  <2>. QED BY <2>1, ClientRuns, PTL
<1>2. Spec => []ChatP!Typing!TypeOK
  <2>1. ChatP!Typing!Spec => []ChatP!Typing!TypeOK
    BY ChatP!TypingTypes
  <2>. QED BY <2>1, TypingRuns, PTL
<1>3. Routed => (part = "routing" => ChatP!Router!TypeOK)
  BY ChatP!RouterTypes DEF Routed
<1>4. RunP!Client!TypeOK => Llm!TypeOK
  BY DEF Llm!TypeOK, RunP!Client!TypeOK, Llm!NoReply, RunP!Client!NoReply, Llm!Failures,
         RunP!Client!Failures
<1>5. ChatP!Typing!TypeOK => Typing!TypeOK
  BY DEF Typing!TypeOK, ChatP!Typing!TypeOK, Typing!Newest, ChatP!Typing!Newest,
         Typing!Requests, ChatP!Typing!Requests, Typing!NoAnswer, ChatP!Typing!NoAnswer,
         Typing!Completion, ChatP!Typing!Completion, Typing!Range, ChatP!Typing!Range
<1>6. ChatP!Router!TypeOK => Router!TypeOK
  BY DEF Router!TypeOK, ChatP!Router!TypeOK, Router!Roles, ChatP!Router!Roles
<1>. QED BY <1>1, <1>2, <1>3, <1>4, <1>5, <1>6, RoutedHolds, PTL

Parts == {"store", "restore", "sessions", "talk", "mcp", "models",
          "commands", "client", "routing", "stream", "typing", "context"}

\* The state of every part has its types.
THEOREM TypeCorrect == ASSUME Told PROVE Spec => []TypeOK
<1>1. Spec => [](part \in Parts)
  <2>1. Init => part \in Parts
    BY DEF Init, Parts
  <2>2. part \in Parts /\ [Next]_vars => (part \in Parts)'
    BY DEF Next, vars
  <2>. QED BY <2>1, <2>2, PTL DEF Spec
<1>2. /\ part \in Parts
      /\ StoreTyped
      /\ Sess!TypeOK /\ Talk!TypeOK /\ Models!TypeOK
      /\ Mcp!TypeOK /\ Context!TypeOK /\ Staged!TypeOK /\ Stream!TypeOK
      /\ Llm!TypeOK /\ Typing!TypeOK /\ (part = "routing" => Router!TypeOK)
      => TypeOK
  BY DEF TypeOK, Parts, StoreTyped
<1>3. Spec => []StoreTyped
  BY StoreTypes
<1>4. Spec => [](Sess!TypeOK /\ Talk!TypeOK /\ Models!TypeOK)
  BY ChatTypes
<1>5. Spec => [](Mcp!TypeOK /\ Context!TypeOK /\ Staged!TypeOK /\ Stream!TypeOK)
  BY RunTypes
<1>. QED BY <1>1, <1>2, <1>3, <1>4, <1>5, RequestTypes, PTL
=============================================================================
