----------------------------- MODULE McpServer -----------------------------
(***************************************************************************)
(* The MCP server (mcp/server.py): one thread that reads JSON-RPC lines    *)
(* from stdin, handles each to its end and writes one response. With it    *)
(* the client that drives an autonomous run (chatController.ts, patchClient *)
(* and connection.ts of the VS Code extension): it shows the batch of a    *)
(* paused run, sends the user's decision, may call tools meanwhile, and    *)
(* gives up on a request whose answer takes too long.                      *)
(*                                                                         *)
(* The run itself is Executor and ChangeManager; here it only stages some  *)
(* edits, pauses, and writes them when approved.                           *)
(***************************************************************************)
EXTENDS Naturals, Sequences, FiniteSets, FiniteSetsExt

CONSTANTS Edits,       \* the edits a run or a direct tool call may make
          MaxRequests, \* bound: requests sent
          MaxRestarts  \* bound: exits of the server process

VARIABLES inbox,    \* lines written to the server's stdin
          sent,     \* the last request id (MCPProtocolClient)
          pending,  \* MCPConnection.pending: ids still waited for
          ui,       \* ChatController.runAutonomous: where its flow is
          shown,    \* the batch the user is looking at
          executor, \* _autonomous_executor: "none", "awaiting" or "ended"
          staged,   \* its ChangeManager, active while it awaits approval
          byCall,   \* those of staged that a direct tools/call put there
          stale,    \* the workspace changed under the staged batch
          disk,     \* edits that reached the workspace
          restarts,
          decided   \* ghost: edits the user saw and approved, or called for

vars == <<inbox, sent, pending, ui, shown, executor, staged, byCall, stale,
          disk, restarts, decided>>

Requests == 1 .. MaxRequests
Methods == {"run", "approve", "reject", "call", "restore", "read", "unknown",
            "malformed", "notification", "exit"}

TypeOK ==
  /\ \A i \in 1 .. Len(inbox) :
       inbox[i].id \in 0 .. MaxRequests /\ inbox[i].method \in Methods
  /\ sent \in 0 .. MaxRequests
  /\ pending \subseteq 1 .. sent
  /\ ui.st \in {"idle", "running", "deciding", "sent"}
  /\ executor \in {"none", "awaiting", "ended"}
  /\ staged \subseteq Edits /\ byCall \subseteq staged
  /\ disk \subseteq Edits /\ stale \in BOOLEAN

Idle == [st |-> "idle", id |-> 0]

Init ==
  /\ inbox = <<>>
  /\ sent = 0
  /\ pending = {}
  /\ ui = Idle
  /\ shown = {}
  /\ executor = "none"
  /\ staged = {} /\ byCall = {}
  /\ stale = FALSE
  /\ disk = {}
  /\ restarts = 0
  /\ decided = {}

server == <<executor, staged, byCall, stale, disk, restarts>>

----------------------------------------------------------------------------
(* The client.                                                             *)

Line(id, method, edit) == [id |-> id, method |-> method, edit |-> edit]

Send(method, edit) ==
  /\ sent < MaxRequests
  /\ sent' = sent + 1
  /\ pending' = pending \union {sent + 1}
  /\ inbox' = Append(inbox, Line(sent + 1, method, edit))

StartRun ==
  /\ ui.st = "idle"
  /\ Send("run", {})
  /\ ui' = [st |-> "running", id |-> sent + 1]
  /\ UNCHANGED <<shown, server, decided>>

(* The user decides about the batch on the screen.                         *)
Decide ==
  /\ ui.st = "deciding"
  /\ \E method \in {"approve", "reject"} :
       /\ Send(method, {})
       /\ decided' = IF method = "approve" THEN decided \union shown ELSE decided
  /\ ui' = [st |-> "sent", id |-> sent + 1]
  /\ UNCHANGED <<shown, server>>

(* Any other request, also while a run is paused: a write tool the user    *)
(* allowed, a checkpoint restore, a method that reads, one that no handler *)
(* has, one whose params are no object.                                    *)
Ask ==
  /\ \/ \E e \in Edits \ (disk \union staged \union decided) :
          /\ Send("call", {e})
          /\ decided' = decided \union {e}
     \/ \E method \in {"restore", "read", "unknown", "malformed"} :
          /\ Send(method, {})
          /\ decided' = decided
  /\ UNCHANGED <<ui, shown, server>>

Notify ==
  /\ \E method \in {"notification", "exit"} :
       inbox' = Append(inbox, Line(0, method, {}))
  /\ Len(inbox) < 1
  /\ UNCHANGED <<sent, pending, ui, shown, server, decided>>

(* The promise is rejected and forgotten; the request stays with the       *)
(* server. The flow that waited shows the error and returns.               *)
Timeout ==
  /\ \E r \in pending :
       /\ pending' = pending \ {r}
       /\ ui' = IF ui.id = r THEN Idle ELSE ui
       /\ shown' = IF ui.id = r THEN {} ELSE shown
  /\ UNCHANGED <<inbox, sent, server, decided>>

(* The response: the id finds the promise, or nobody any more. The run's   *)
(* flow goes on with the report it asked for.                              *)
Respond(id, report, batch) ==
  /\ pending' = pending \ {id}
  /\ IF id \in pending /\ ui.id = id
     THEN /\ ui' = IF report = "awaiting" THEN [st |-> "deciding", id |-> 0]
                   ELSE Idle
          /\ shown' = IF report = "awaiting" THEN batch ELSE {}
     ELSE UNCHANGED <<ui, shown>>

----------------------------------------------------------------------------
(* The server: handle_line takes one line and handles it to its end.       *)

Handling(method) == inbox # <<>> /\ Head(inbox).method = method
Take == inbox' = Tail(inbox)
Caller == Head(inbox).id

(* What a run, started or resumed, comes to: it pauses with the edits it   *)
(* staged, or ends, discarding them.                                       *)
Runs ==
  \/ \E batch \in SUBSET (Edits \ (disk \union decided)) \ {{}} :
       /\ executor' = "awaiting"
       /\ staged' = batch
       /\ Respond(Caller, "awaiting", batch)
  \/ /\ executor' = "ended"
     /\ staged' = {}
     /\ Respond(Caller, "done", {})

Refuse ==
  /\ Respond(Caller, "error", {})
  /\ UNCHANGED <<server, sent, decided>>

RunAutonomousAnyway ==  \* mutant: a paused run is replaced
  /\ Handling("run")
  /\ Take
  /\ Runs
  /\ byCall' = {} /\ stale' = FALSE
  /\ UNCHANGED <<sent, disk, restarts, decided>>

RunAutonomous ==
  /\ Handling("run")
  /\ Take
  /\ IF executor = "awaiting" THEN Refuse
     ELSE /\ Runs
          /\ byCall' = {} /\ stale' = FALSE
          /\ UNCHANGED <<sent, disk, restarts, decided>>

ApprovePatchesForGood ==  \* mutant: the approval covers what is staged next
  /\ Handling("approve")
  /\ Take
  /\ executor = "awaiting"
  /\ ~stale
  /\ Runs
  /\ disk' = disk \union staged \union staged'
  /\ byCall' = {} /\ stale' = FALSE
  /\ UNCHANGED <<sent, restarts, decided>>

(* Refused when nothing awaits; stale files leave the run as it was. The   *)
(* batch is written and the run goes on: what it stages now pauses again.  *)
ApprovePatches ==
  /\ Handling("approve")
  /\ Take
  /\ IF executor # "awaiting" \/ stale THEN Refuse
     ELSE /\ disk' = disk \union staged
          /\ Runs
          /\ byCall' = {} /\ stale' = FALSE
          /\ UNCHANGED <<sent, restarts, decided>>

(* apply_all fails: rolled back, and the run waits for a decision as before. *)
ApplyFails ==
  /\ Handling("approve")
  /\ executor = "awaiting"
  /\ Take
  /\ Refuse

RejectPatches ==
  /\ Handling("reject")
  /\ Take
  /\ IF executor # "awaiting" THEN Refuse
     ELSE /\ executor' = "ended"
          /\ staged' = {} /\ byCall' = {} /\ stale' = FALSE
          /\ Respond(Caller, "done", {})
          /\ UNCHANGED <<sent, disk, restarts, decided>>

(* A write tool: straight to the workspace, unless the manager of a paused *)
(* run is active, which takes the edit into its batch. The result is       *)
(* reported as a success either way; a failing tool changes nothing.       *)
ToolsCall ==
  /\ Handling("call")
  /\ Take
  /\ LET e == Head(inbox).edit
     IN  IF executor = "awaiting"
         THEN staged' = staged \union e /\ byCall' = byCall \union e /\ disk' = disk
         ELSE disk' = disk \union e /\ UNCHANGED <<staged, byCall>>
  /\ Respond(Caller, "done", {})
  /\ UNCHANGED <<sent, executor, stale, restarts, decided>>

ToolFails ==
  /\ Handling("call")
  /\ Take
  /\ Refuse

(* Restoring a checkpoint changes files under a paused run's batch.        *)
CheckpointRestore ==
  /\ Handling("restore")
  /\ Take
  /\ \E kept \in SUBSET disk : disk' = kept
  /\ stale' = (executor = "awaiting")
  /\ Respond(Caller, "done", {})
  /\ UNCHANGED <<sent, executor, staged, byCall, restarts, decided>>

(* initialize, tools/list, planOnly, chat, complete, memory, personality,  *)
(* checkpoints: they answer without touching the run.                      *)
Reads ==
  /\ Handling("read")
  /\ Take
  /\ Refuse

UnknownMethod ==
  /\ Handling("unknown")
  /\ Take
  /\ Refuse

(* A line that parse_request refuses is answered with id null, which no     *)
(* promise waits for: the caller hears nothing until its timeout.          *)
Malformed ==
  /\ Handling("malformed")
  /\ Take
  /\ UNCHANGED <<sent, pending, ui, shown, server, decided>>

(* A notification is handled, errors included, and never answered.         *)
Notified ==
  /\ Handling("notification")
  /\ Take
  /\ UNCHANGED <<sent, pending, ui, shown, server, decided>>

(* exit, or the process dies: the client rejects every promise and starts  *)
(* the server again, which knows nothing of the paused run.                *)
Restart ==
  /\ restarts < MaxRestarts
  /\ restarts' = restarts + 1
  /\ inbox' = <<>>
  /\ pending' = {}
  /\ ui' = IF ui.st = "deciding" THEN ui ELSE Idle
  /\ shown' = IF ui.st = "deciding" THEN shown ELSE {}
  /\ executor' = "none"
  /\ staged' = {} /\ byCall' = {}
  /\ stale' = FALSE
  /\ UNCHANGED <<sent, disk, decided>>

Exit == Handling("exit") /\ Restart
Dies == ~Handling("exit") /\ Restart

(* The user saves a file that a staged edit is about.                      *)
UserEdits ==
  /\ executor = "awaiting"
  /\ ~stale
  /\ stale' = TRUE
  /\ UNCHANGED <<inbox, sent, pending, ui, shown, executor, staged, byCall,
                 disk, restarts, decided>>

Handle ==
  \/ RunAutonomous \/ ApprovePatches \/ ApplyFails \/ RejectPatches
  \/ ToolsCall \/ ToolFails \/ CheckpointRestore
  \/ Reads \/ UnknownMethod \/ Malformed \/ Notified

Client == StartRun \/ Decide \/ Ask \/ Notify \/ Timeout

Next == Handle \/ Client \/ Exit \/ Dies \/ UserEdits

Spec == Init /\ [][Next]_vars

----------------------------------------------------------------------------
(* Nothing reaches the workspace that the user did not decide: it was in a  *)
(* batch that was shown and approved, or in a tool call of its own, however *)
(* answers are late, runs are refused and the server restarts              *)
(* (server.py: "nothing touches disk until a human approves it").          *)
WrittenWasDecided == disk \subseteq decided

(* A batch is never left behind in a manager that no decision can reach: a *)
(* run is not replaced while it awaits approval.                           *)
NothingOrphaned ==
  [][\A e \in staged \ byCall :
       \/ e \in staged' \/ e \in disk'
       \/ Handling("reject") \/ restarts' # restarts]_vars
=============================================================================
