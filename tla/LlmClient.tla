------------------------------ MODULE LlmClient ------------------------------
(*****************************************************************************)
(* LLMClient (src/llm/client.py) as a run uses it to plan: requests with      *)
(* retries and back-off, the search for the JSON object in the answer, and    *)
(* _plan_with_retry's second prompt, with a user who may cancel at any time.  *)
(* Chat streams and inline completion send one request each.                  *)
(*                                                                           *)
(* An answer is a sequence of braces, quotes, backslashes and other           *)
(* characters.  A unit of waiting is one poll of _interruptible_sleep, which  *)
(* stands for the ten polls of a second.                                     *)
(*****************************************************************************)
EXTENDS Naturals, Sequences, FiniteSets, SequencesExt

CONSTANTS MaxRetries,  \* MAX_RETRIES
          Replies      \* what the model may answer: [prose, object, tail]

VARIABLES use,        \* "plan", "stream" or "raw": who calls the client
          state,      \* "start", "send", "flight", "backoff", "parse", "over"
          prompt,     \* 1: planner.plan; 2: planner.replan
          attempt,    \* failed attempts of this generate()
          waiting,    \* polls left in the back-off
          cancelled,  \* cancel() was called
          reply,      \* the answer received
          found,      \* what _extract_json returned
          log,        \* the requests: prompt, how it ended, sent after a cancel
          outcome     \* how the planning ended

vars == <<use, state, prompt, attempt, waiting, cancelled, reply, found, log, outcome>>

NoReply == [prose |-> <<>>, object |-> <<>>, tail |-> <<>>]
Failures == {"auth", "transient", "other"}

TypeOK ==
    /\ use \in {"plan", "stream", "raw"}
    /\ state \in {"start", "send", "flight", "backoff", "parse", "over"}
    /\ prompt \in 1 .. 2 /\ attempt \in 0 .. MaxRetries + 1
    /\ waiting \in 0 .. 2 ^ MaxRetries
    /\ reply \in Replies \cup {NoReply}
    /\ \A i \in DOMAIN log : log[i].ended \in Failures \cup {"open", "text"}
    /\ outcome \in {"none", "planned", "answered", "cancelled", "ambiguous", "failed"}
    /\ (outcome = "none") = (state # "over")

Init ==
    /\ use \in {"plan", "stream", "raw"}
    /\ state = "start" /\ prompt = 1 /\ attempt = 0 /\ waiting = 0
    /\ cancelled = FALSE
    /\ reply = NoReply /\ found = <<>> /\ log = <<>> /\ outcome = "none"

-----------------------------------------------------------------------------
(* The JSON object of an answer.                                             *)

Text(r) == r.prose \o r.object \o r.tail

\* _find_balanced_json_object: the state after each character from the first
\* brace on.
ScanFrom(text, first) ==
    LET at[k \in first - 1 .. Len(text)] ==
            IF k < first THEN [depth |-> 0, inString |-> FALSE, escape |-> FALSE]
            ELSE LET c == text[k]
                     was == at[k - 1]
                 IN  [depth |-> CASE was.inString -> was.depth
                                  [] ~was.inString /\ c = "{" -> was.depth + 1
                                  [] ~was.inString /\ c = "}" -> was.depth - 1
                                  [] OTHER -> was.depth,
                      inString |-> IF c = "quote" /\ ~was.escape
                                   THEN ~was.inString ELSE was.inString,
                      escape |-> was.inString /\ ~was.escape /\ c = "back"]
    IN  at

\* <<>> stands for None: nothing balanced, and _extract_json raises.
FindBalanced(text) ==
    LET opens == {k \in DOMAIN text : text[k] = "{"}
        first == CHOOSE k \in opens : \A j \in opens : k <= j
        at == ScanFrom(text, first)
        closes == {k \in first .. Len(text) :
                      text[k] = "}" /\ ~at[k - 1].inString /\ at[k].depth = 0}
    IN  IF opens = {} \/ closes = {} THEN <<>>
        ELSE SubSeq(text, first, CHOOSE k \in closes : \A j \in closes : k <= j)

-----------------------------------------------------------------------------
(* The client.                                                               *)

Over(how) == state' = "over" /\ outcome' = how

\* The cancellation is looked at first.
SendUnlessCancelled ==
    /\ state = "start"
    /\ attempt' = 0
    /\ IF cancelled THEN Over("cancelled") ELSE state' = "send" /\ UNCHANGED outcome
    /\ UNCHANGED <<use, prompt, waiting, cancelled, reply, found, log>>

Generate == use = "plan" /\ SendUnlessCancelled
GenerateStream == use = "stream" /\ SendUnlessCancelled

\* A completion takes no cancel_check.
CompleteRaw ==
    /\ use = "raw" /\ state = "start"
    /\ state' = "send"
    /\ UNCHANGED <<use, prompt, attempt, waiting, cancelled, reply, found, log, outcome>>

Send ==
    /\ state = "send"
    /\ state' = "flight"
    /\ log' = Append(log, [prompt |-> prompt, ended |-> "open", late |-> cancelled])
    /\ UNCHANGED <<use, prompt, attempt, waiting, cancelled, reply, found, outcome>>

Ended(how) == log' = [log EXCEPT ![Len(log)].ended = how]

\* The exception leaves the client.  _plan_with_retry prompts once more, but for
\* a cancellation; a stream and a completion give up.
Raised ==
    IF use = "plan" /\ prompt = 1
    THEN state' = "start" /\ prompt' = 2 /\ UNCHANGED outcome
    ELSE Over("failed") /\ UNCHANGED prompt

Fails(how) ==
    /\ state = "flight" /\ Ended(how)
    /\ Raised
    /\ UNCHANGED <<use, attempt, waiting, cancelled, reply, found>>

\* Credentials are rejected, or an error the provider does not call transient.
AuthFails == Fails("auth")
OtherFails == Fails("other")

\* Only generate() retries: RETRY_BASE_DELAY * 2 ** (attempt - 1), or the error
\* goes up after the last attempt.
TransientFails ==
    /\ state = "flight" /\ Ended("transient")
    /\ IF use = "plan" THEN attempt' = attempt + 1 ELSE UNCHANGED attempt
    /\ IF use = "plan" /\ attempt < MaxRetries
       THEN state' = "backoff" /\ waiting' = 2 ^ attempt /\ UNCHANGED <<prompt, outcome>>
       ELSE Raised /\ UNCHANGED waiting
    /\ UNCHANGED <<use, cancelled, reply, found>>

PollBlind ==  \* mutant: the wait does not look at the cancellation
    /\ state = "backoff" /\ waiting > 0
    /\ waiting' = waiting - 1
    /\ UNCHANGED <<use, state, prompt, attempt, cancelled, reply, found, log, outcome>>

\* One round of _interruptible_sleep: check, then sleep.
Poll ==
    /\ state = "backoff" /\ waiting > 0
    /\ IF cancelled THEN Over("cancelled") /\ UNCHANGED waiting
       ELSE waiting' = waiting - 1 /\ UNCHANGED <<state, outcome>>
    /\ UNCHANGED <<use, prompt, attempt, cancelled, reply, found, log>>

\* The wait is over: the next request goes out without another check.
Waited ==
    /\ state = "backoff" /\ waiting = 0
    /\ state' = "send"
    /\ UNCHANGED <<use, prompt, attempt, waiting, cancelled, reply, found, log, outcome>>

Answers ==
    /\ state = "flight" /\ Ended("text")
    /\ IF use = "plan" THEN state' = "parse" /\ reply' \in Replies /\ UNCHANGED outcome
       ELSE Over("answered") /\ UNCHANGED reply
    /\ UNCHANGED <<use, prompt, attempt, waiting, cancelled, found>>

-----------------------------------------------------------------------------
(* generate_json and the planner.                                            *)

Extracted == FindBalanced(Text(reply))

\* A request that says nothing to do is not asked again.
PlanOrAmbiguous ==
    /\ state = "parse" /\ Extracted # <<>>
    /\ found' = Extracted
    /\ \E how \in {"planned", "ambiguous"} : Over(how)
    /\ UNCHANGED <<use, prompt, attempt, waiting, cancelled, reply, log>>

\* No object, an object json.loads refuses, or a plan that validation refuses.
Invalid ==
    /\ state = "parse"
    /\ found' = Extracted
    /\ Raised
    /\ UNCHANGED <<use, attempt, waiting, cancelled, reply, log>>

\* The user stops the run (executor.cancel).
Cancel ==
    /\ ~cancelled /\ state # "over"
    /\ cancelled' = TRUE
    /\ UNCHANGED <<use, state, prompt, attempt, waiting, reply, found, log, outcome>>

Next == Generate \/ GenerateStream \/ CompleteRaw \/ Send \/ AuthFails \/ OtherFails \/ TransientFails \/ Poll \/ Waited
          \/ Answers \/ PlanOrAmbiguous \/ Invalid \/ Cancel

Spec == Init /\ [][Next]_vars

-----------------------------------------------------------------------------
\* After a cancel at most one more request is sent, whatever the back-off, the
\* failure or the second prompt it arrives in (client.py: "takes effect within
\* _CANCEL_POLL_INTERVAL, not after the full delay"); a run is never told that it
\* was cancelled when it was not; a prompt is repeated only after transient
\* failures, and at most MaxRetries times; streams and completions are never
\* repeated; and the object of an answer is found exactly, whatever strings it
\* holds and whatever prose follows it.
RequestsAreBounded ==
    /\ Cardinality({i \in DOMAIN log : log[i].late}) <= 1
    /\ outcome = "cancelled" => cancelled
    /\ \A i \in 2 .. Len(log) :
         log[i].prompt = log[i - 1].prompt => log[i - 1].ended = "transient"
    /\ \A n \in 1 .. 2 :
         Cardinality({i \in DOMAIN log : log[i].prompt = n}) <=
            IF use = "plan" THEN MaxRetries + 1 ELSE IF n = 1 THEN 1 ELSE 0
    /\ outcome \in {"planned", "ambiguous"} => found = reply.object
=============================================================================
