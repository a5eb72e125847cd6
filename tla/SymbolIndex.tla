---------------------------- MODULE SymbolIndex ----------------------------
(***************************************************************************)
(* The index of Python definitions that every session of the process       *)
(* shares (src/tools/repo_tools.py): one thread builds it file by file     *)
(* outside the lock and publishes it with setdefault, editing threads      *)
(* refresh one file of the published index after each write, and nothing   *)
(* orders these with each other.  One workspace root is modelled; search   *)
(* and find_references, which read the files themselves and not the index, *)
(* are a single step.                                                      *)
(*                                                                         *)
(* The content of a file is the set of names it defines; Bad is a file     *)
(* that does not parse.  An index says how often it lists each file for a  *)
(* name: the order of a list, line numbers and imports are left out.       *)
(***************************************************************************)
EXTENDS Integers, FiniteSets, FiniteSetsExt

CONSTANTS Threads,   \* worker threads of the sessions
          Files,     \* Python files of the workspace
          Names,     \* definitions a file may hold
          Absent,    \* a file that is not there
          Bad,       \* a file with a syntax error or not UTF-8
          None,      \* no index is cached
          MaxWrites, \* bound: writes to the workspace
          MaxBuilds, \* bound: indexes built
          Limit      \* MAX_SEARCH_RESULTS

Contents == {Absent, Bad} \cup SUBSET Names
Defined(c) == IF c \in {Absent, Bad} THEN {} ELSE c

Unlisted == [n \in Names |-> [f \in Files |-> 0]]
Empty == [files |-> {}, symbols |-> Unlisted]

VARIABLES disk,    \* file -> content
          cache,   \* _INDEX_CACHE[root]: None or an index
          pc,      \* thread -> what it is doing
          file,    \* thread -> the file it writes and refreshes
          todo,    \* thread -> files of a build still to be parsed
          own,     \* thread -> the index a build fills, or the kept symbols
          seen,    \* thread -> what a refresh parsed
          writes,  \* writes so far (bound)
          builds,  \* builds so far (bound)
          matches, \* ghost: what the last search returned, and what there was
          raced,   \* ghost: files whose refresh met another refresh or a build
          external \* ghost: files changed by a program that does not refresh

vars == <<disk, cache, pc, file, todo, own, seen, writes, builds,
          matches, raced, external>>
locals == <<file, todo, own, seen>>
ghosts == <<matches, raced, external>>

Init == /\ disk \in [Files -> {Absent} \cup SUBSET Names]
        /\ cache = None
        /\ pc = [t \in Threads |-> "idle"]
        /\ file \in [Threads -> {CHOOSE f \in Files : TRUE}]
        /\ todo = [t \in Threads |-> {}]
        /\ own = [t \in Threads |-> Empty]
        /\ seen = [t \in Threads |-> Absent]
        /\ writes = 0 /\ builds = 0
        /\ matches = [found |-> 0, notice |-> FALSE, all |-> 0]
        /\ raced = {} /\ external = {}

Idle(t) == pc[t] = "idle"
Goto(t, label) == pc' = [pc EXCEPT ![t] = label]

-----------------------------------------------------------------------------
(* Building: _get_index, _build_index.                                     *)

\* The cache is empty: the thread lists the files that are there.
StartBuild(t) ==
    /\ Idle(t) /\ cache = None /\ builds < MaxBuilds
    /\ LET listed == {f \in Files : disk[f] # Absent}
       IN  /\ todo' = [todo EXCEPT ![t] = listed]
           /\ own' = [own EXCEPT ![t] = [Empty EXCEPT !.files = listed]]
    /\ builds' = builds + 1
    /\ Goto(t, "build")
    /\ UNCHANGED <<disk, cache, file, seen, writes, ghosts>>

Adding(symbols, f, names) ==
    [n \in Names |-> IF n \in names THEN [symbols[n] EXCEPT ![f] = @ + 1] ELSE symbols[n]]

\* A file that does not parse stays listed and defines nothing.
ParseNext(t, f) ==
    /\ pc[t] = "build" /\ f \in todo[t] /\ disk[f] # Absent
    /\ todo' = [todo EXCEPT ![t] = @ \ {f}]
    /\ own' = [own EXCEPT ![t].symbols = Adding(@, f, Defined(disk[f]))]
    /\ UNCHANGED <<disk, cache, pc, file, seen, writes, builds, ghosts>>

\* _parse_python does not catch the error of a file that has gone.
BuildFails(t) ==
    /\ pc[t] = "build" /\ \E f \in todo[t] : disk[f] = Absent
    /\ todo' = [todo EXCEPT ![t] = {}] /\ own' = [own EXCEPT ![t] = Empty]
    /\ Goto(t, "idle")
    /\ UNCHANGED <<disk, cache, file, seen, writes, builds, ghosts>>

\* Mutant: the last builder wins.
PublishLast(t) ==
    /\ pc[t] = "build" /\ todo[t] = {}
    /\ cache' = own[t]
    /\ own' = [own EXCEPT ![t] = Empty]
    /\ Goto(t, "idle")
    /\ UNCHANGED <<disk, file, todo, seen, writes, builds, ghosts>>

\* setdefault: the index that was published first stays.
Publish(t) ==
    /\ pc[t] = "build" /\ todo[t] = {}
    /\ cache' = IF cache = None THEN own[t] ELSE cache
    /\ own' = [own EXCEPT ![t] = Empty]
    /\ Goto(t, "idle")
    /\ UNCHANGED <<disk, file, todo, seen, writes, builds, ghosts>>

-----------------------------------------------------------------------------
(* Editing: a write, then refresh_indexed_file.                            *)

Building == {t \in Threads : pc[t] = "build"}
Refreshing == {t \in Threads : pc[t] \in {"wrote", "drop", "parse", "add"}}

Write(t, f, c) ==
    /\ Idle(t) /\ writes < MaxWrites /\ c # disk[f] /\ c # Bad
    /\ disk' = [disk EXCEPT ![f] = c]
    /\ file' = [file EXCEPT ![t] = f]
    /\ writes' = writes + 1
    /\ Goto(t, "wrote")
    /\ raced' = IF Refreshing # {}
                THEN raced \cup {f} \cup {file[u] : u \in Refreshing} ELSE raced
    /\ UNCHANGED <<cache, todo, own, seen, builds, matches, external>>

\* Nothing is cached: the refresh does nothing, also when a build is under way
\* that has already read the file.
NotCached(t) ==
    /\ pc[t] = "wrote" /\ cache = None
    /\ Goto(t, "idle")
    /\ raced' = IF Building # {} THEN raced \cup {file[t]} ELSE raced
    /\ UNCHANGED <<disk, cache, locals, writes, builds, matches, external>>

Kept(symbols, f) == [n \in Names |-> [symbols[n] EXCEPT ![f] = 0]]

\* The comprehension reads the symbols ...
Keep(t) ==
    /\ pc[t] = "wrote" /\ cache # None
    /\ own' = [own EXCEPT ![t].symbols = Kept(cache.symbols, file[t])]
    /\ Goto(t, "drop")
    /\ UNCHANGED <<disk, cache, file, todo, seen, writes, builds, ghosts>>

\* ... and its result replaces them, without the entries of the file.
Drop(t) ==
    /\ pc[t] = "drop"
    /\ cache' = [files |-> cache.files \ {file[t]}, symbols |-> own[t].symbols]
    /\ own' = [own EXCEPT ![t] = Empty]
    /\ Goto(t, "parse")
    /\ UNCHANGED <<disk, file, todo, seen, writes, builds, ghosts>>

\* The file is gone or does not parse: it stays out of the index.
Gone(t) ==
    /\ pc[t] = "parse" /\ disk[file[t]] \in {Absent, Bad}
    /\ Goto(t, "idle")
    /\ UNCHANGED <<disk, cache, locals, writes, builds, ghosts>>

Parse(t) ==
    /\ pc[t] = "parse" /\ disk[file[t]] \notin {Absent, Bad}
    /\ seen' = [seen EXCEPT ![t] = disk[file[t]]]
    /\ Goto(t, "add")
    /\ UNCHANGED <<disk, cache, file, todo, own, writes, builds, ghosts>>

Add(t) ==
    /\ pc[t] = "add"
    /\ cache' = [files   |-> cache.files \cup {file[t]},
                 symbols |-> Adding(cache.symbols, file[t], Defined(seen[t]))]
    /\ seen' = [seen EXCEPT ![t] = Absent]
    /\ Goto(t, "idle")
    /\ UNCHANGED <<disk, file, todo, own, writes, builds, ghosts>>

\* An editor, git or an approved command changes a file and refreshes nothing.
OthersWrite(f, c) ==
    /\ writes < MaxWrites /\ c # disk[f]
    /\ disk' = [disk EXCEPT ![f] = c]
    /\ writes' = writes + 1
    /\ external' = external \cup {f}
    /\ UNCHANGED <<cache, pc, locals, builds, matches, raced>>

-----------------------------------------------------------------------------
(* search_text and find_references: _search, then the notice.              *)

Lines == Cardinality({line \in Files \X Names : line[2] \in Defined(disk[line[1]])})

Returned == Min({Limit, Lines})
Notice(found) == found >= Limit

Search ==
    /\ matches' = [found |-> Returned, notice |-> Notice(Returned), all |-> Lines]
    /\ UNCHANGED <<disk, cache, pc, locals, writes, builds, raced, external>>

-----------------------------------------------------------------------------
Next == \/ \E t \in Threads :
              \/ StartBuild(t) \/ BuildFails(t) \/ Publish(t)
              \/ \E f \in Files : ParseNext(t, f)
              \/ \E f \in Files, c \in Contents : Write(t, f, c)
              \/ NotCached(t) \/ Keep(t) \/ Drop(t)
              \/ Gone(t) \/ Parse(t) \/ Add(t)
        \/ \E f \in Files, c \in Contents : OthersWrite(f, c)
        \/ Search

Spec == Init /\ [][Next]_vars

-----------------------------------------------------------------------------
IndexType == [files : SUBSET Files, symbols : [Names -> [Files -> Nat]]]

TypeOK == /\ disk \in [Files -> Contents]
          /\ cache = None \/ cache \in IndexType
          /\ pc \in [Threads -> {"idle", "build", "wrote", "drop", "parse", "add"}]
          /\ own \in [Threads -> IndexType]

Current(f) == \A n \in Names :
                 cache.symbols[n][f] = IF n \in Defined(disk[f]) THEN 1 ELSE 0

Quiet == Refreshing = {} /\ cache # None

\* However builds and edits interleave, the published index lists every
\* definition of a file exactly once, unless the file was changed behind the
\* index's back or its refresh met another one or a build (_get_index,
\* refresh_indexed_file).
IndexIsCurrent == Quiet => \A f \in Files \ (raced \cup external) : Current(f)

\* A search that says nothing has returned every match there was (_search,
\* find_references, search_text).
SilenceIsComplete == matches.notice \/ matches.found = matches.all

\* What find_symbol and the searches return can be relied on.
LookupsAreRight == IndexIsCurrent /\ SilenceIsComplete
=============================================================================
