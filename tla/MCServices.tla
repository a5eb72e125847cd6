------------------------------ MODULE MCServices ------------------------------
(*****************************************************************************)
(* One run for the components that keep state between requests: the           *)
(* checkpoint store, the session files, the conversation, the MCP server, the *)
(* loaded models, the staged commands, the model client, the router, the      *)
(* stream of a run, the completions and what a tool call finds around it.      *)
(* They share no variable, so a behaviour is one of one part, chosen at Init;  *)
(* the others stay as they start.                                            *)
(*                                                                           *)
(* The threads are interchangeable in every part, and so are the files,      *)
(* session ids, edits, model files, texts and workspaces that p and q stand   *)
(* for.                                                                      *)
(*****************************************************************************)
EXTENDS Naturals, Sequences, TLC

CONSTANTS w1, w2, w3,  \* threads
          p, q,        \* files, session ids, edits, model files, texts or workspaces
          s,           \* a text
          None, Torn, Missing

Workers == {w1, w2}
Items == {p, q}
Interchangeable == Permutations(Workers) \cup Permutations(Items)

VARIABLES part,
    files, index, history, sidecar, tmp, lock, op, writes, crashes, raced,
    sFiles, sTmp, used, managers, default, sOwner, sPc, req, mine, rec, clock,
    lastStamp, ops, sCrashes, appended, deleted,
    conversation, cPc, snapshot, cHistory, retries, recorded, cRaced,
    inbox, sent, pending, ui, shown, executor, staged, byCall, stale, disk,
    restarts, decided,
    cache, locks, owner, loaded, closed, pc, call, calls,
    active, phase, staging, steps, results, asked, repo, mixed,
    use, state, prompt, attempt, waiting, cancelled, reply, found, log, outcome,
    cfg, clients, made, raised, served,
    streamPc, bus, bridge, queue, out, streamClosed, last, events, slow,
    document, timer, editor, service, completions, overtaken, recent,
    roots, serving, executors, thread, root, gate, toolCall

store == <<files, index, history, sidecar, tmp, lock, op, writes, crashes, raced>>
sessions == <<sFiles, sTmp, used, managers, default, sOwner, sPc, req, mine,
              rec, clock, lastStamp, ops, sCrashes, appended, deleted>>
talk == <<conversation, cPc, snapshot, cHistory, retries, recorded, cRaced>>
mcp == <<inbox, sent, pending, ui, shown, executor, staged, byCall, stale,
         disk, restarts, decided>>
models == <<cache, locks, owner, loaded, closed, pc, call, calls>>

commands == <<active, phase, staging, steps, results, asked, repo, mixed>>
client == <<use, state, prompt, attempt, waiting, cancelled, reply, found, log, outcome>>
routing == <<cfg, clients, made, raised, served>>
stream == <<streamPc, bus, bridge, queue, out, streamClosed, last, events, slow>>
typing == <<document, timer, editor, service, completions, overtaken, recent>>
context == <<roots, serving, executors, thread, root, gate, toolCall>>

vars == <<part, store, sessions, talk, mcp, models, commands, client, routing,
          stream, typing, context>>

\* Two checkpoints of one file, for retention; one checkpoint of two files,
\* for the steps of a restore.
Check == INSTANCE Checkpoints WITH
    Paths <- {p}, Texts <- {s}, Absent <- None,
    MaxCount <- 1, MaxCommits <- 2, MaxWrites <- 1, MaxCrashes <- 1

Restore == INSTANCE Checkpoints WITH
    Paths <- Items, Texts <- {s}, Absent <- None,
    MaxCount <- 1, MaxCommits <- 1, MaxWrites <- 1, MaxCrashes <- 1

Sess == INSTANCE SessionFiles WITH
    files <- sFiles, tmp <- sTmp, owner <- sOwner, pc <- sPc, crashes <- sCrashes,
    Threads <- Workers, Ids <- Items, MaxOps <- 4, MaxClock <- 2, MaxCrashes <- 1

Talk == INSTANCE Conversation WITH
    pc <- cPc, history <- cHistory, raced <- cRaced,
    Chats <- Workers, Runs <- {w3}, KeepHead <- 1, KeepTail <- 1, MaxTurns <- 3,
    MaxTokens <- 4, MaxRetries <- 1, HistoryTurns <- 2, Sizes <- {1, 2}

Mcp == INSTANCE McpServer WITH
    Edits <- Items, MaxRequests <- 3, MaxRestarts <- 1

Models == INSTANCE LocalModels WITH
    Threads <- {w1, w2, w3}, Models <- {p, q, s}, Cap <- 2, MaxCalls <- 4

\* Of the commands that may be run, "ls" is and "dd" is not.
Staged == INSTANCE StagedCommands WITH
    pending <- staging, Allowed <- {"ls"}, MaxCommands <- 3

\* Objects whose strings hold braces and escaped quotes, with prose on both sides.
Objects == {<<"{", "}">>, <<"{", "{", "}", "}">>, <<"{", "quote", "}", "quote", "}">>,
            <<"{", "quote", "back", "quote", "}", "quote", "}">>,
            <<"{", "quote", "back", "back", "quote", "}">>}

ModelAnswers ==
    [prose : {<<>>, <<"quote">>}, object : Objects, tail : {<<>>, <<"}">>, <<"{">>}]
      \cup [prose : {<<"x">>}, object : {<<>>}, tail : {<<"}">>, <<"{", "quote", "}">>}]

Llm == INSTANCE LlmClient WITH MaxRetries <- 3, Replies <- ModelAnswers

\* A provider or a model set for one role, in every profile.
Choices == {<<"chat", "unset", "unset">>, <<"chat", "other", "unset">>,
            <<"reflection", "other", "own">>, <<"edit", "unset", "own">>,
            <<"vision", "other", "unset">>, <<"autocomplete", "other", "unset">>,
            <<"planning", "pearl", "own">>}
Roles == {"planning", "chat", "edit", "condenser", "autocomplete", "vision", "reflection"}
For(r, choice, i) == IF r = choice[1] THEN choice[i] ELSE "unset"

Settings ==
    {[llm |-> l, profile |-> f, provider |-> [r \in Roles |-> For(r, c, 2)],
      model |-> [r \in Roles |-> For(r, c, 3)], gateway |-> k = "gateway",
      key |-> k = "key", fallback |-> b, tiers |-> t, files |-> t] :
        l \in {"pearl", "other"}, f \in {"auto", "local", "hybrid", "cloud", "typo"},
        c \in Choices, k \in {"none", "gateway", "key"}, b \in BOOLEAN, t \in BOOLEAN}

Router == INSTANCE ModelRouting WITH
    calls <- served, Configurations <- Settings, MaxCalls <- 3

Stream == INSTANCE RunStream WITH
    pc <- streamPc, closed <- streamClosed, MaxProgress <- 2

Typing == INSTANCE InlineCompletion WITH
    cache <- completions, used <- recent,
    Texts <- Items, CacheSize <- 1, MaxRequests <- 3

Context == INSTANCE ToolContext WITH
    call <- toolCall,
    Roots <- Items, Cwd <- s, Pool <- Workers,
    MaxRuns <- 2, MaxExecutors <- 2, MaxSessions <- 2

NoRouter == /\ cfg = <<>> /\ clients = <<>> /\ made = <<>> /\ raised = {} /\ served = 0

Init ==
    /\ part \in {"store", "restore", "sessions", "talk", "mcp", "models",
                 "commands", "client", "routing", "stream", "typing", "context"}
    /\ IF part = "restore" THEN Restore!Init ELSE Check!Init
    /\ part \notin {"store", "restore"} => files = Check!Empty
    /\ Sess!Init /\ Talk!Init /\ Mcp!Init /\ Models!Init /\ Staged!Init
    /\ Llm!Init /\ (part # "client" => use = "plan")
    /\ IF part = "routing" THEN Router!Init ELSE NoRouter
    /\ Stream!Init
    /\ Typing!Init /\ (part # "typing" => document = p)
    /\ Context!Init /\ (part # "context" => roots = <<p>>)

Next ==
    \/ /\ part = "store" /\ Check!Next
       /\ UNCHANGED <<part, sessions, talk, mcp, models, commands, client,
                      routing, stream, typing, context>>
    \/ /\ part = "restore" /\ Restore!Next
       /\ UNCHANGED <<part, sessions, talk, mcp, models, commands, client,
                      routing, stream, typing, context>>
    \/ /\ part = "sessions" /\ Sess!Next
       /\ UNCHANGED <<part, store, talk, mcp, models, commands, client,
                      routing, stream, typing, context>>
    \/ /\ part = "talk" /\ Talk!Next
       /\ UNCHANGED <<part, store, sessions, mcp, models, commands, client,
                      routing, stream, typing, context>>
    \/ /\ part = "mcp" /\ Mcp!Next
       /\ UNCHANGED <<part, store, sessions, talk, models, commands, client,
                      routing, stream, typing, context>>
    \/ /\ part = "models" /\ Models!Next
       /\ UNCHANGED <<part, store, sessions, talk, mcp, commands, client,
                      routing, stream, typing, context>>
    \/ /\ part = "commands" /\ Staged!Next
       /\ UNCHANGED <<part, store, sessions, talk, mcp, models, client,
                      routing, stream, typing, context>>
    \/ /\ part = "client" /\ Llm!Next
       /\ UNCHANGED <<part, store, sessions, talk, mcp, models, commands,
                      routing, stream, typing, context>>
    \/ /\ part = "routing" /\ Router!Next
       /\ UNCHANGED <<part, store, sessions, talk, mcp, models, commands,
                      client, stream, typing, context>>
    \/ /\ part = "stream" /\ Stream!Next
       /\ UNCHANGED <<part, store, sessions, talk, mcp, models, commands,
                      client, routing, typing, context>>
    \/ /\ part = "typing" /\ Typing!Next
       /\ UNCHANGED <<part, store, sessions, talk, mcp, models, commands,
                      client, routing, stream, context>>
    \/ /\ part = "context" /\ Context!Next
       /\ UNCHANGED <<part, store, sessions, talk, mcp, models, commands, client,
                      routing, stream, typing>>

Spec == Init /\ [][Next]_vars

-----------------------------------------------------------------------------
(* The properties of the parts, stated and explained in their modules.       *)

TypeOK ==
    CASE part = "store"    -> Check!TypeOK
      [] part = "restore"  -> Restore!TypeOK
      [] part = "sessions" -> Sess!TypeOK
      [] part = "talk"     -> Talk!TypeOK
      [] part = "mcp"      -> Mcp!TypeOK
      [] part = "models"   -> Models!TypeOK
      [] part = "commands" -> Staged!TypeOK
      [] part = "client"   -> Llm!TypeOK
      [] part = "routing"  -> Router!TypeOK
      [] part = "stream"   -> Stream!TypeOK
      [] part = "typing"   -> Typing!TypeOK
      [] part = "context"  -> Context!TypeOK

UndoIsReady == part = "store" => Check!UndoIsReady
RestoresHold == Restore!RestoreIsExact /\ Check!MarksStay
SessionsAreKept == part = "sessions" => Sess!SessionsAreKept
NothingForgotten == part = "talk" => Talk!NothingForgotten
CondensingShrinks == Talk!CondensingShrinks
NothingOrphaned == Mcp!NothingOrphaned
ResultsReachTheirStep == part = "commands" => Staged!ResultsReachTheirStep
StreamIsComplete == part = "stream" => Stream!StreamIsComplete

\* What the MCP server writes was in a batch that was shown and approved, or is
\* the edit of a tools/call, which counts as decided once it is sent.  On the web
\* server a tool call goes through the gate of its own run, into the workspace of
\* its session until an approval, then into the directory of the process.
WrittenWasDecided ==
    /\ part = "mcp" => Mcp!WrittenWasDecided
    /\ part = "context" => Context!CallsAreBound

\* What is asked of a model: planning with retries and cancellation, and
\* completions while the user types.
RequestsAreBounded ==
    /\ part = "client" => Llm!RequestsAreBounded
    /\ part = "typing" => Typing!SuggestionsAreCurrent

\* Roles share a client, and threads a loaded model, one call at a time.
ModelsAreShared ==
    /\ part = "routing" => Router!RoutesAreSound
    /\ part = "models" => Models!OneCallPerObject
=============================================================================
