---------------------------- MODULE PromptBudget ----------------------------
(***************************************************************************)
(* The size of a planning prompt: ContextEngine.build                      *)
(* (src/agent/context_engine.py) shares the window between conversation    *)
(* and repository context, Planner.build_prompt (src/agent/planner.py)     *)
(* cuts what it is given to what the rest of the prompt leaves             *)
(* (src/llm/context_budget.py, src/llm/token_budget.py).                   *)
(*                                                                         *)
(* A text is its length in characters; four make a token.  The engine is   *)
(* called the way the executor calls it, with the task alone.              *)
(***************************************************************************)
EXTENDS Integers, Sequences, FiniteSetsExt

CONSTANTS NCtx,      \* LOCAL_MODEL_CTX, in tokens
          Response,  \* MAX_NEW_TOKENS
          Tasks,     \* lengths of the request
          Messages,  \* lengths of earlier messages
          Turns,     \* bound: messages of the history
          Retrieved, \* lengths of what the repository builder returns
          Templates  \* lengths of the planning template with its tools

PerToken == 4
Notice == 46     \* "\n[...context truncated to fit token budget...]"
Heading == 64    \* "Current workspace context (...):" and the blank lines
EngineMargin == 200

Tokens(chars) == Max({1, chars \div PerToken})

VARIABLES phase,    \* "asked", "capping", "retrieving", "budgeted",
                    \* "uncut" or "sent"
          task, template, retrieved, messages, \* the inputs
          kept,     \* how many messages _cap_history keeps, the newest ones
          total,    \* their tokens
          older,    \* how many older messages are still to be looked at
          context,  \* length of the workspace context
          prompt    \* length of the prompt

vars == <<phase, task, template, retrieved, messages, kept, total, older, context, prompt>>
inputs == <<task, template, retrieved, messages>>

Init == /\ phase = "asked"
        /\ task \in Tasks /\ template \in Templates /\ retrieved \in Retrieved
        /\ \E n \in 0..Turns : messages \in [1..n -> Messages]
        /\ kept = 0 /\ total = 0 /\ older = 0 /\ context = 0 /\ prompt = 0

-----------------------------------------------------------------------------
Usable == Max({0, NCtx - Response})

\* An empty system prompt and an empty list of tools count one token each.
Fixed == 2 + Tokens(task)
Remaining == Max({0, Usable - (Fixed + EngineMargin)})
HistoryBudget == (Remaining * 3) \div 10
RepoBudget == (Remaining * 4) \div 10

\* Without a limit to keep to (0 or less) the text stays as it is.
Truncated(chars, limit) ==
    IF limit <= 0 \/ Tokens(chars) <= limit THEN chars
    ELSE Max({0, limit * PerToken - Notice}) + Notice

-----------------------------------------------------------------------------
BasePrompt == template + task
PlanMargin == Max({50, (NCtx * 5) \div 100})
\* Mutant: the response is promised to the context as well.
AllowanceOfWindow == Max({0, NCtx - BasePrompt \div PerToken - PlanMargin})

Allowance == Max({0, Usable - BasePrompt \div PerToken - PlanMargin})

\* The newest message is kept, whatever its size.
StartCapping ==
    /\ phase = "asked"
    /\ kept' = Min({1, Len(messages)})
    /\ total' = IF messages = <<>> THEN 0 ELSE Tokens(messages[Len(messages)])
    /\ older' = Len(messages) - kept'
    /\ phase' = "capping"
    /\ UNCHANGED <<inputs, context, prompt>>

Fits == older > 0 /\ total + Tokens(messages[older]) <= HistoryBudget
Keep == kept' = kept + 1 /\ total' = total + Tokens(messages[older])

KeepOlderAgain == /\ phase = "capping" /\ Fits  \* mutant: the same message again
                  /\ Keep
                  /\ UNCHANGED <<older, phase, inputs, context, prompt>>

KeepOlder == /\ phase = "capping" /\ Fits
             /\ Keep
             /\ older' = older - 1
             /\ UNCHANGED <<phase, inputs, context, prompt>>

\* The first message that does not fit ends the history.
Capped == /\ phase = "capping" /\ ~Fits
          /\ phase' = "retrieving"
          /\ UNCHANGED <<inputs, kept, total, older, context, prompt>>

\* What the newest message takes beyond its share is taken from the repository's.
Overrun == Max({0, total - HistoryBudget})
RepoLeft == Max({0, RepoBudget - Overrun})

\* No budget, no service or a failing builder: no context.
Retrieve ==
    /\ phase = "retrieving"
    /\ context' \in {0, IF RepoLeft = 0 THEN 0 ELSE Truncated(retrieved, RepoLeft)}
    /\ phase' = "budgeted"
    /\ UNCHANGED <<inputs, kept, total, older, prompt>>

\* The executor's builder when the engine fails: its text is not cut.
RetrieveUncut ==
    /\ phase = "retrieving"
    /\ context' = retrieved
    /\ phase' = "uncut"
    /\ UNCHANGED <<inputs, kept, total, older, prompt>>

BuildPrompt ==
    /\ phase \in {"budgeted", "uncut"}
    /\ prompt' = IF context = 0 THEN BasePrompt
                 ELSE Heading + Truncated(context, Allowance) + BasePrompt
    /\ phase' = "sent"
    /\ UNCHANGED <<inputs, kept, total, older, context>>

Next == \/ StartCapping \/ KeepOlder \/ Capped
        \/ Retrieve \/ RetrieveUncut \/ BuildPrompt

Spec == Init /\ [][Next]_vars

-----------------------------------------------------------------------------
TypeOK == /\ phase \in {"asked", "capping", "retrieving", "budgeted",
                       "uncut", "sent"}
          /\ kept + older <= Len(messages)
          /\ context \in 0..Max(Retrieved \cup {Notice}) /\ prompt \in Nat

\* Whenever the request and the newest message fit into the window at all,
\* everything ContextEngine.build puts together does, although the newest
\* message may take more than its share (build, _cap_history).
ContextStaysInBudget ==
    LET newest == IF messages = <<>> THEN 0 ELSE Tokens(messages[Len(messages)])
    IN  phase = "budgeted" /\ Fixed + EngineMargin + newest <= Usable =>
           Fixed + total + Tokens(context) <= Usable

\* A prompt with workspace context leaves the model room for its answer
\* whenever any allowance was left for the context (Planner.build_prompt,
\* ContextBudget.context_token_allowance).
PromptLeavesRoom ==
    phase = "sent" /\ context > 0 /\ Allowance > 0 => Tokens(prompt) <= Usable

\* Both budgets, which are computed in different places.
BudgetsFit == ContextStaysInBudget /\ PromptLeavesRoom
=============================================================================
