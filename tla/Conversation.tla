---------------------------- MODULE Conversation ----------------------------
(***************************************************************************)
(* The conversation of one API session (memory/memory.py), the condenser   *)
(* that shortens it (agent/condenser.py), and the workers that use both    *)
(* without a lock: one thread per chat request (api/session.py             *)
(* chat_stream) and the thread of an autonomous run.                       *)
(*                                                                         *)
(* Condensing reads the turns, asks a model for a summary of the middle    *)
(* and only then writes head, summary and tail back: whatever other        *)
(* threads record in between is overwritten.                               *)
(***************************************************************************)
EXTENDS Naturals, Sequences, FiniteSets, FiniteSetsExt

CONSTANTS Chats,        \* chat requests, each served by a thread of its own
          Runs,         \* autonomous runs
          KeepHead,     \* Settings.CONDENSER_KEEP_HEAD
          KeepTail,     \* Settings.CONDENSER_KEEP_TAIL
          MaxTurns,     \* Settings.CONDENSER_MAX_TURNS
          MaxTokens,    \* the tokens at which the pressure threshold is reached
          MaxRetries,   \* Settings.CONDENSER_MAX_RETRIES
          HistoryTurns, \* Settings.CHAT_HISTORY_TURNS
          Sizes         \* token estimates a turn may have

Workers == Chats \union Runs
Roles == {"user", "agent", "summary"}

VARIABLES conversation, \* Memory.conversation
          pc,           \* what each worker does next
          snapshot,     \* the turns a condensing worker read
          history,      \* the turns a chat sends ahead of its message
          retries,      \* a run's retries_left
          recorded,     \* ghost: every user or agent turn ever recorded
          raced         \* ghost: those recorded while someone was condensing

vars == <<conversation, pc, snapshot, history, retries, recorded, raced>>

(* A turn: its role, who recorded it, its tokens and, for a summary, the    *)
(* turns whose content it stands for.                                      *)
Turn(role, w, size) ==
  [role |-> role, of |-> {<<w, role>>}, size |-> size]

Summary(middle, size) ==
  [role |-> "summary",
   of |-> UNION {middle[i].of : i \in 1 .. Len(middle)}, size |-> size]

Covered(turns) == UNION {turns[i].of : i \in 1 .. Len(turns)}

----------------------------------------------------------------------------
(* The condenser's decisions.                                              *)

ConversationTokens(turns) ==
  LET sum[n \in 0 .. Len(turns)] ==
        IF n = 0 THEN 0 ELSE sum[n - 1] + turns[n].size
  IN  sum[Len(turns)]

ShouldCondense(turns) ==
  \/ ConversationTokens(turns) > MaxTokens
  \/ Len(turns) > MaxTurns

CanCondenseAtRequired(turns) ==  \* mutant: no middle turn to spare
  Len(turns) >= KeepHead + KeepTail + 1

CanCondense(turns) == Len(turns) > KeepHead + KeepTail + 1

CondensedDropping(turns, size) ==  \* mutant: the middle stops one turn early
  LET n == Len(turns)
      middle == SubSeq(turns, KeepHead + 1, n - KeepTail - 1)
  IN  SubSeq(turns, 1, KeepHead) \o <<Summary(middle, size)>>
        \o SubSeq(turns, n - KeepTail + 1, n)

Condensed(turns, size) ==
  LET n == Len(turns)
      middle == SubSeq(turns, KeepHead + 1, n - KeepTail)
  IN  SubSeq(turns, 1, KeepHead) \o <<Summary(middle, size)>>
        \o SubSeq(turns, n - KeepTail + 1, n)

RecentConversation(turns, limit) ==
  SubSeq(turns, Len(turns) - Min({limit, Len(turns)}) + 1, Len(turns))

(* As chat messages: agent and summary turns are the assistant's.          *)
RecentMessages(turns, limit) ==
  LET recent == RecentConversation(turns, limit)
  IN  [i \in 1 .. Len(recent) |->
         [recent[i] EXCEPT !.role = IF @ = "user" THEN @ ELSE "assistant"]]

----------------------------------------------------------------------------

Condensing == {w \in Workers : pc[w] \in {"summarising", "emergency", "context"}}

TypeOK ==
  /\ \A i \in 1 .. Len(conversation) :
       /\ conversation[i].role \in Roles
       /\ conversation[i].size \in Sizes
  /\ pc \in [Workers -> {"idle", "prompt", "ask", "again", "summarising",
                         "emergency", "context", "raised", "error", "done"}]
  /\ retries \in [Runs -> 0 .. MaxRetries]
  /\ raced \subseteq recorded

Init ==
  /\ conversation = <<>>
  /\ pc = [w \in Workers |-> "idle"]
  /\ snapshot = [w \in Workers |-> <<>>]
  /\ history = [w \in Chats |-> <<>>]
  /\ retries = [w \in Runs |-> MaxRetries]
  /\ recorded = {}
  /\ raced = {}

Go(w, next) == pc' = [pc EXCEPT ![w] = next]

RecordTurn(role, w, size) ==
  /\ conversation' = Append(conversation, Turn(role, w, size))
  /\ recorded' = recorded \union {<<w, role>>}
  /\ raced' = IF Condensing # {} THEN raced \union {<<w, role>>} ELSE raced

StartCondensing(w, where) ==
  /\ Go(w, where)
  /\ snapshot' = [snapshot EXCEPT ![w] = conversation]
  /\ UNCHANGED <<conversation, history, retries, recorded, raced>>

(* maybe_condense at the start of a chat or a run: nothing to do, or the   *)
(* middle is read and sent to the model, or condense raises because too few *)
(* turns hold too many tokens. chat_stream calls it outside its try, so the *)
(* error ends the worker; a run reports it.                                *)
NothingToCondense(w) ==
  /\ pc[w] = "idle"
  /\ ~ShouldCondense(conversation)
  /\ Go(w, "prompt")
  /\ UNCHANGED <<conversation, snapshot, history, retries, recorded, raced>>

MaybeCondense(w) ==
  /\ pc[w] = "idle"
  /\ ShouldCondense(conversation)
  /\ CanCondense(conversation)
  /\ StartCondensing(w, "summarising")

CannotCondense(w) ==
  /\ pc[w] = "idle"
  /\ ShouldCondense(conversation)
  /\ ~CanCondense(conversation)
  /\ Go(w, IF w \in Chats THEN "raised" ELSE "error")
  /\ UNCHANGED <<conversation, snapshot, history, retries, recorded, raced>>

(* The summary arrives (the model's, or the fallback when the model fails)  *)
(* and replaces whatever the conversation has become. A chat that condensed *)
(* in an emergency reads its history again, its own message included.      *)
WriteSummary(w) ==
  /\ w \in Condensing
  /\ \E size \in Sizes : conversation' = Condensed(snapshot[w], size)
  /\ snapshot' = [snapshot EXCEPT ![w] = <<>>]
  /\ IF pc[w] = "emergency" /\ w \in Chats
     THEN history' = [history EXCEPT ![w] =
                        RecentMessages(conversation', HistoryTurns)]
     ELSE history' = history
  /\ retries' = [r \in Runs |-> IF r = w /\ pc[w] = "emergency"
                                THEN retries[r] - 1 ELSE retries[r]]
  /\ Go(w, CASE pc[w] = "summarising"               -> "prompt"
             [] pc[w] = "emergency" /\ w \in Chats -> "again"
             [] OTHER                              -> "ask")
  /\ UNCHANGED <<recorded, raced>>

(* The history is read before the user's turn is recorded, so the message   *)
(* is not sent twice.                                                      *)
Prompt(w) ==
  /\ pc[w] = "prompt"
  /\ history' = IF w \in Chats
                THEN [history EXCEPT ![w] =
                        RecentMessages(conversation, HistoryTurns)]
                ELSE history
  /\ \E size \in Sizes : RecordTurn("user", w, size)
  /\ Go(w, "ask")
  /\ UNCHANGED <<snapshot, retries>>

(* The planner's context: ContextEngine.build condenses first, and any     *)
(* error there falls back to the legacy builder.                           *)
BuildContext(w) ==
  /\ w \in Runs
  /\ pc[w] = "ask"
  /\ ShouldCondense(conversation)
  /\ CanCondense(conversation)
  /\ StartCondensing(w, "context")

(* The model answers, or the run ends, and the answer is recorded.         *)
Answer(w) ==
  /\ pc[w] \in {"ask", "again"}
  /\ \E size \in Sizes : RecordTurn("agent", w, size)
  /\ Go(w, "done")
  /\ history' = [c \in Chats |-> IF c = w THEN <<>> ELSE history[c]]
  /\ UNCHANGED <<snapshot, retries>>

ContextTooLongForever(w) ==  \* mutant: the retry limit is not looked at
  /\ pc[w] = "ask"
  /\ CanCondense(conversation)
  /\ StartCondensing(w, "emergency")

(* The history did not fit: emergency condensation, once for a chat and    *)
(* MaxRetries times for a run.                                             *)
ContextTooLong(w) ==
  /\ pc[w] = "ask"
  /\ w \in Runs => retries[w] > 0
  /\ CanCondense(conversation)
  /\ StartCondensing(w, "emergency")

(* Every other error of the model, the retry limit, and a history too short *)
(* to condense: the user is told.                                          *)
Fails(w) ==
  /\ pc[w] \in {"ask", "again"}
  /\ Go(w, "error")
  /\ history' = [c \in Chats |-> IF c = w THEN <<>> ELSE history[c]]
  /\ UNCHANGED <<conversation, snapshot, retries, recorded, raced>>

Step(w) ==
  \/ NothingToCondense(w) \/ MaybeCondense(w) \/ CannotCondense(w)
  \/ WriteSummary(w) \/ Prompt(w) \/ BuildContext(w) \/ Answer(w)
  \/ ContextTooLong(w) \/ Fails(w)

Next == \E w \in Workers : Step(w)

Spec == Init /\ [][Next]_vars

(* A recorded turn leaves the conversation only into a summary that stands  *)
(* for it. The exception is a turn recorded while someone was condensing:  *)
(* the write of the summary overwrites it.                                 *)
NothingForgotten == recorded \ raced \subseteq Covered(conversation)

(* A condensation leaves fewer turns than it read and none to condense, so  *)
(* a retry after it sends less and the retries cannot go on for ever; and   *)
(* the turns that open the conversation, the original task among them, stay *)
(* as they are, whoever else condenses or records meanwhile (condense).    *)
CondensingShrinks ==
  [][\A w \in Condensing :
       pc'[w] # pc[w] =>
         /\ Len(conversation') < Len(snapshot[w])
         /\ ~CanCondense(conversation')
         /\ SubSeq(conversation', 1, KeepHead) = SubSeq(conversation, 1, KeepHead)]_vars
=============================================================================
