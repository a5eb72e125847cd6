---------------------------- MODULE LocalModels ----------------------------
(***************************************************************************)
(* On-device inference (llm/providers/local_inference.py): a process-wide  *)
(* cache of loaded models, evicting the least recently used beyond a cap,  *)
(* and one inference lock per model, because a Llama object cannot serve   *)
(* two calls at once. A call fetches the object, then the lock, then       *)
(* generates: three steps another thread's load can come between.          *)
(***************************************************************************)
EXTENDS Naturals, Sequences, FiniteSets, SequencesExt

CONSTANTS Threads,  \* threads of chat, planning and completion
          Models,   \* (model file, n_ctx) keys
          Cap,      \* Settings.LOCAL_MAX_LOADED_MODELS
          MaxCalls, \* bound: inference calls
          None      \* no lock, or nobody who holds it

VARIABLES cache,   \* _llms: entries [key, obj], most recently used last
          locks,   \* _inference_locks: a lock of each key, or None
          owner,   \* who holds each lock, in the order they were made
          loaded,  \* Llama objects made so far
          closed,  \* those evicted and closed
          pc, call, calls

vars == <<cache, locks, owner, loaded, closed, pc, call, calls>>

NoCall == [key |-> None, obj |-> 0, lock |-> 0]

TypeOK ==
  /\ loaded \in Nat
  /\ cache \in Seq([key : Models, obj : 1 .. loaded])
  /\ owner \in Seq(Threads \union {None})
  /\ locks \in [Models -> (DOMAIN owner) \union {None}]
  /\ closed \subseteq 1 .. loaded
  /\ pc \in [Threads -> {"idle", "get", "lock", "wait", "using", "failed"}]

Init ==
  /\ cache = <<>>
  /\ locks = [m \in Models |-> None]
  /\ owner = <<>>
  /\ loaded = 0
  /\ closed = {}
  /\ pc = [t \in Threads |-> "idle"]
  /\ call = [t \in Threads |-> NoCall]
  /\ calls = 0

Go(t, next) == pc' = [pc EXCEPT ![t] = next]
Cached(key) == \E i \in DOMAIN cache : cache[i].key = key

(* The file is on disk, or the background download ends in time; otherwise *)
(* the call fails before it touches the cache.                             *)
Call(t) ==
  /\ pc[t] \in {"idle", "failed"}
  /\ calls < MaxCalls
  /\ calls' = calls + 1
  /\ \E key \in Models : call' = [call EXCEPT ![t] = [NoCall EXCEPT !.key = key]]
  /\ \E next \in {"get", "failed"} : Go(t, next)
  /\ UNCHANGED <<cache, locks, owner, loaded, closed>>

(* A hit: the model becomes the most recently used.                        *)
Hit(t) ==
  /\ pc[t] = "get"
  /\ \E i \in DOMAIN cache :
       /\ cache[i].key = call[t].key
       /\ cache' = Append(RemoveAt(cache, i), cache[i])
       /\ call' = [call EXCEPT ![t].obj = cache[i].obj]
  /\ Go(t, "lock")
  /\ UNCHANGED <<locks, owner, loaded, closed, calls>>

Evicted(entries) ==
  IF Len(entries) > Cap
  THEN [kept |-> SubSeq(entries, Len(entries) - Cap + 1, Len(entries)),
        gone |-> SubSeq(entries, 1, Len(entries) - Cap)]
  ELSE [kept |-> entries, gone |-> <<>>]

(* A miss: load, remember, evict beyond the cap: each evicted model is     *)
(* closed, whoever uses it, and its lock forgotten.                        *)
Load(t) ==
  /\ pc[t] = "get"
  /\ ~Cached(call[t].key)
  /\ LET e == Evicted(Append(cache, [key |-> call[t].key, obj |-> loaded + 1]))
     IN  /\ cache' = e.kept
         /\ closed' = closed \union {x.obj : x \in ToSet(e.gone)}
         /\ locks' = [m \in Models |->
                        IF m \in {x.key : x \in ToSet(e.gone)} THEN None ELSE locks[m]]
  /\ loaded' = loaded + 1
  /\ call' = [call EXCEPT ![t].obj = loaded + 1]
  /\ Go(t, "lock")
  /\ UNCHANGED <<owner, calls>>

LoadFails(t) ==
  /\ pc[t] = "get"
  /\ ~Cached(call[t].key)
  /\ Go(t, "failed")
  /\ UNCHANGED <<cache, locks, owner, loaded, closed, call, calls>>

NewLock == Len(owner) + 1

GetLockFresh(t) ==  \* mutant: the lock made is not remembered
  /\ pc[t] = "lock"
  /\ call' = [call EXCEPT ![t].lock = NewLock]
  /\ owner' = Append(owner, None)
  /\ Go(t, "wait")
  /\ UNCHANGED <<cache, locks, loaded, closed, calls>>

GetLock(t) ==
  LET key == call[t].key
      new == locks[key] = None
      lock == IF new THEN NewLock ELSE locks[key]
  IN  /\ pc[t] = "lock"
      /\ locks' = [locks EXCEPT ![key] = lock]
      /\ owner' = IF new THEN Append(owner, None) ELSE owner
      /\ call' = [call EXCEPT ![t].lock = lock]
      /\ Go(t, "wait")
      /\ UNCHANGED <<cache, loaded, closed, calls>>

Generate(t) ==
  /\ pc[t] = "wait"
  /\ owner[call[t].lock] = None
  /\ owner' = [owner EXCEPT ![call[t].lock] = t]
  /\ Go(t, "using")
  /\ UNCHANGED <<cache, locks, loaded, closed, call, calls>>

(* The answer, an empty one or a context-length error: the lock is free.   *)
Finish(t) ==
  /\ pc[t] = "using"
  /\ owner' = [owner EXCEPT ![call[t].lock] = None]
  /\ call' = [call EXCEPT ![t] = NoCall]
  /\ \E next \in {"idle", "failed"} : Go(t, next)
  /\ UNCHANGED <<cache, locks, loaded, closed, calls>>

Next ==
  \E t \in Threads :
    \/ Call(t) \/ Hit(t) \/ Load(t) \/ LoadFails(t)
    \/ GetLock(t) \/ Generate(t) \/ Finish(t)

Spec == Init /\ [][Next]_vars

----------------------------------------------------------------------------
(* No two threads generate on one Llama object at once. Excepted is an     *)
(* object evicted in the meantime: eviction forgets its lock, so a thread  *)
(* that fetched the object earlier takes a new one (and uses it closed).   *)
OneCallPerObject ==
  \A t, u \in Threads :
    t # u /\ pc[t] = "using" /\ pc[u] = "using" /\ call[t].obj = call[u].obj
      => call[t].obj \in closed
=============================================================================
