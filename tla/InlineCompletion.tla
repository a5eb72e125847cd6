--------------------------- MODULE InlineCompletion ---------------------------
(*****************************************************************************)
(* Completions while typing: PearlInlineCompletionProvider                    *)
(* (src/vscode-extension/src/completion/inlineCompletionProvider.ts) waits    *)
(* for a pause behind one debounce timer and asks the CompletionService       *)
(* (src/agent/completion.py), which caches what the model said.               *)
(*                                                                           *)
(* A text stands for what is around the cursor.  VS Code cancels the request  *)
(* of a keystroke before or after it asks for the next.  Requests are served  *)
(* in several threads, as by the web server; the MCP server serves one at a   *)
(* time.                                                                     *)
(*****************************************************************************)
EXTENDS Naturals, Sequences, FiniteSets, SequencesExt

CONSTANTS Texts,       \* texts around the cursor
          CacheSize,   \* _CACHE_SIZE
          MaxRequests  \* bound: calls of the provider

VARIABLES document, \* the text the cursor is in
          timer,    \* debounceTimer: the request it is for, or 0
          editor,   \* the requests, as the provider sees them
          service,  \* request -> where its call of complete() is
          cache,    \* _cache: [key, text], least recently used first
          overtaken, \* ghost: requests not cancelled when a later one came
          used      \* ghost: the keys of hits and puts, the latest last

vars == <<document, timer, editor, service, cache, overtaken, used>>

Requests == DOMAIN editor
Newest == Len(editor)
\* What the model says of a text; it is not asked twice for the same answer.
Completion(key) == <<"completes", key>>
NoAnswer == <<>>

TypeOK ==
    /\ document \in Texts
    /\ timer \in 0 .. Newest
    /\ Newest <= MaxRequests /\ DOMAIN service = Requests
    /\ \A r \in Requests :
         /\ editor[r].st \in {"waits", "asks", "shown", "nothing"}
         /\ service[r].at \in {"idle", "called", "infers", "puts", "answered"}
         /\ service[r].text \in {NoAnswer} \cup {Completion(k) : k \in Texts}
    /\ overtaken \subseteq Requests
    /\ Range(used) \subseteq Texts

Init ==
    /\ document \in Texts
    /\ timer = 0 /\ editor = <<>> /\ service = <<>> /\ cache = <<>>
    /\ overtaken = {} /\ used = <<>>

-----------------------------------------------------------------------------
(* The editor.                                                               *)

Resolve(r, st) == editor' = [editor EXCEPT ![r].st = st]
Live(r) == editor[r].st \in {"waits", "asks"} /\ ~editor[r].cancelled

\* The user typed, and the provider is called for what is there now.
Asked(text, st) ==
    /\ Newest < MaxRequests
    /\ document' = text
    /\ editor' = Append(editor, [st |-> st, text |-> text, over |-> text,
                                 cancelled |-> FALSE])
    /\ service' = Append(service, [at |-> "idle", text |-> NoAnswer])
    /\ overtaken' = overtaken \cup {r \in Requests : Live(r)}

\* shouldSkipCompletion, or the setting is off: nothing is shown.
Skip(text) ==
    /\ Asked(text, "nothing")
    /\ UNCHANGED <<timer, cache, used>>

\* waitForPause: the timer is set anew; whoever it was for goes on waiting.
Provide(text) ==
    /\ Asked(text, "waits")
    /\ timer' = Newest + 1
    /\ UNCHANGED <<cache, used>>

\* onCancellationRequested: a waiting request clears the timer, whoever it is for.
CancelRequest(r) ==
    /\ Live(r)
    /\ IF editor[r].st = "waits"
       THEN /\ timer' = 0
            /\ editor' = [editor EXCEPT ![r].cancelled = TRUE, ![r].st = "nothing"]
       ELSE /\ UNCHANGED timer
            /\ editor' = [editor EXCEPT ![r].cancelled = TRUE]
    /\ UNCHANGED <<document, service, cache, overtaken, used>>

\* The pause: the text is read now and the request sent.
TimerFires ==
    /\ timer # 0
    /\ timer' = 0
    /\ editor' = [editor EXCEPT ![timer].st = "asks", ![timer].text = document]
    /\ service' = [service EXCEPT ![timer].at = "called"]
    /\ UNCHANGED <<document, cache, overtaken, used>>

\* requestCompletion gives up after two seconds, or the server is gone; the
\* service goes on.
GiveUp(r) ==
    /\ editor[r].st = "asks"
    /\ Resolve(r, "nothing")
    /\ UNCHANGED <<document, timer, service, cache, overtaken, used>>

Show(r) == editor' = [editor EXCEPT ![r].st = "shown", ![r].over = document]

\* The answer is there: a cancelled request shows nothing.
Render(r) ==
    /\ editor[r].st = "asks" /\ service[r].at = "answered"
    /\ IF editor[r].cancelled \/ service[r].text = NoAnswer
       THEN Resolve(r, "nothing") ELSE Show(r)
    /\ UNCHANGED <<document, timer, service, cache, overtaken, used>>

-----------------------------------------------------------------------------
(* The service.                                                              *)

Serve(r, at, text) == service' = [service EXCEPT ![r] = [at |-> at, text |-> text]]
\* A key is at one place of the ordered dictionary at most.
Cached(key) == {i \in DOMAIN cache : cache[i].key = key}
Without(seq, places) == IF places = {} THEN seq ELSE RemoveAt(seq, CHOOSE i \in places : TRUE)
Others(key) == Without(cache, Cached(key))
Use(key) == used' = Append(Without(used, {i \in DOMAIN used : used[i] = key}), key)

\* _should_complete: not at the start of a buffer or after a blank line.
Decline(r) ==
    /\ service[r].at = "called"
    /\ Serve(r, "answered", NoAnswer)
    /\ UNCHANGED <<document, timer, editor, cache, overtaken, used>>

\* _cache_get: a hit is moved to the end.
CacheGet(r) ==
    LET key == editor[r].text
        hit == cache[CHOOSE i \in Cached(key) : TRUE]
    IN  /\ service[r].at = "called"
        /\ IF Cached(key) # {}
           THEN /\ Serve(r, "answered", hit.text)
                /\ cache' = Append(Others(key), hit)
                /\ Use(key)
           ELSE Serve(r, "infers", NoAnswer) /\ UNCHANGED <<cache, used>>
        /\ UNCHANGED <<document, timer, editor, overtaken>>

\* _infer and _postprocess, outside the lock.
Infer(r) ==
    /\ service[r].at = "infers"
    /\ Serve(r, "puts", Completion(editor[r].text))
    /\ UNCHANGED <<document, timer, editor, cache, overtaken, used>>

\* The model failed, or nothing is left of its text: not cached.
InferNothing(r) ==
    /\ service[r].at = "infers"
    /\ Serve(r, "answered", NoAnswer)
    /\ UNCHANGED <<document, timer, editor, cache, overtaken, used>>

\* _cache_put: the entry moves to the end and the oldest is dropped.
CachePut(r) ==
    LET key == editor[r].text
        longer == Append(Others(key), [key |-> key, text |-> service[r].text])
    IN  /\ service[r].at = "puts"
        /\ Serve(r, "answered", service[r].text)
        /\ cache' = IF Len(longer) > CacheSize THEN Tail(longer) ELSE longer
        /\ Use(key)
        /\ UNCHANGED <<document, timer, editor, overtaken>>

Next ==
    \/ \E text \in Texts : Skip(text) \/ Provide(text)
    \/ TimerFires
    \/ \E r \in Requests :
         \/ CancelRequest(r) \/ GiveUp(r) \/ Render(r)
         \/ Decline(r) \/ CacheGet(r) \/ Infer(r) \/ InferNothing(r) \/ CachePut(r)

Spec == Init /\ [][Next]_vars

-----------------------------------------------------------------------------
(* What the provider promises                                                *)

\* "A cancelled request must not render, even if its response has already come
\* back", and what is shown completes the text it is shown in, whatever the user
\* typed since the request was made and whatever the cache was asked meanwhile.
NoLateSuggestion ==
    \A r \in Requests : editor[r].st = "shown" =>
        /\ ~editor[r].cancelled
        /\ r \notin overtaken => service[r].text = Completion(editor[r].over)

\* "A burst of keystrokes leaves only the last one standing": it holds the timer
\* until it sends or is cancelled, unless an older request is cancelled after it
\* came, which clears the one timer.
LastOneStanding ==
    /\ timer # 0 => \A r \in timer + 1 .. Newest : editor[r].st # "waits"
    /\ /\ Newest > 0 /\ editor[Newest].st = "waits"
       /\ \A r \in overtaken : ~editor[r].cancelled
       => timer = Newest

\* The cache holds what was used last, each text once, with its own completion.
CacheIsLru ==
    /\ [i \in DOMAIN cache |-> cache[i].key] =
         SubSeq(used, Len(used) - Len(cache) + 1, Len(used))
    /\ Len(cache) = IF Len(used) < CacheSize THEN Len(used) ELSE CacheSize
    /\ \A i \in DOMAIN cache : cache[i].text = Completion(cache[i].key)

SuggestionsAreCurrent == NoLateSuggestion /\ LastOneStanding /\ CacheIsLru
=============================================================================
