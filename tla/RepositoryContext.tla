------------------------- MODULE RepositoryContext -------------------------
(***************************************************************************)
(* Retrieval: RepositoryService (src/repository/service.py) builds index   *)
(* and graph on the first access and keeps them, SemanticContextBuilder    *)
(* (src/repository/context.py) ranks the files for a query, adds their     *)
(* import neighbours and renders what fits.  Two threads may use one       *)
(* service, which does not lock; the workspace is edited meanwhile, and    *)
(* nobody calls invalidate().                                              *)
(*                                                                         *)
(* The workspace is a version number, an index or a graph the version it   *)
(* was scanned from.  Scores are multiples of a tenth of a point; what a   *)
(* file matches, its PageRank boost and the cost of its snippet are free.  *)
(***************************************************************************)
EXTENDS Integers, FiniteSets, Sequences, FiniteSetsExt, Functions

CONSTANTS Threads,   \* threads that retrieve context
          Ranker,    \* the thread whose query is followed to its end
          Files,     \* indexed files
          Imports,   \* import edges <<importer, imported>>
          None,      \* not built
          Scores,    \* scores a term match may give
          Costs,     \* token costs of a snippet
          MaxFiles,  \* ContextConfig.max_files
          Budget,    \* ContextConfig.max_context_tokens, spent on sections
          MaxEdits   \* bound: edits of the workspace

VARIABLES version,   \* edits so far
          index,     \* RepositoryService._index
          graph,     \* RepositoryService._graph
          pc,        \* thread -> where it is
          scan,      \* thread -> what _build scanned, then what its graph is
                     \* made of; None outside _build
          overlap,   \* two threads have been in the service at a time
          uses,      \* thread -> the index and graph build() works with
          scores,    \* file -> its score, for the files that have one
          matched,   \* files the query itself matches
          ranked,    \* the candidates, best first
          cost,      \* file -> cost of its snippet
          sections,  \* files rendered
          left       \* budget left

vars == <<version, index, graph, pc, scan, overlap, uses, scores, matched,
          ranked, cost, sections, left>>
service == <<index, graph, scan, overlap>>
ranking == <<scores, matched, ranked, cost, sections, left>>

Init == /\ version = 0 /\ index = None /\ graph = None
        /\ pc = [t \in Threads |-> "idle"]
        /\ scan = [t \in Threads |-> None] /\ overlap = FALSE
        /\ uses = [t \in Threads |-> [index |-> None, graph |-> None]]
        /\ scores = <<>> /\ matched = {} /\ ranked = <<>> /\ cost = <<>>
        /\ sections = <<>> /\ left = Budget

Goto(t, label) == pc' = [pc EXCEPT ![t] = label]

\* An approved patch, or anybody else, writes a source file.
Edit == /\ version < MaxEdits
        /\ version' = version + 1
        /\ UNCHANGED <<service, pc, uses, ranking>>

-----------------------------------------------------------------------------
(* The lazy properties.  _build assigns the index, makes a graph of        *)
(* whatever index is there by then, and assigns it when it is ready.       *)

InService(t) == pc[t] \notin {"idle", "ready", "expand", "render", "done"}

AskIndex(t) ==
    /\ pc[t] = "idle"
    /\ Goto(t, IF index = None THEN "scan" ELSE "index")
    /\ overlap' = (overlap \/ \E u \in Threads \ {t} : InService(u))
    /\ UNCHANGED <<version, index, graph, scan, uses, ranking>>

Scan(t) == /\ pc[t] \in {"scan", "rescan"}
           /\ scan' = [scan EXCEPT ![t] = version]
           /\ Goto(t, IF pc[t] = "scan" THEN "publish" ELSE "republish")
           /\ UNCHANGED <<version, index, graph, overlap, uses, ranking>>

PublishIndex(t) ==
    /\ pc[t] \in {"publish", "republish"}
    /\ index' = scan[t]
    /\ Goto(t, IF pc[t] = "publish" THEN "build" ELSE "rebuild")
    /\ UNCHANGED <<version, graph, scan, overlap, uses, ranking>>

BuildGraph(t) ==
    /\ pc[t] \in {"build", "rebuild"}
    /\ scan' = [scan EXCEPT ![t] = index]
    /\ Goto(t, IF pc[t] = "build" THEN "graph" ELSE "regraph")
    /\ UNCHANGED <<version, index, graph, overlap, uses, ranking>>

PublishGraph(t) ==
    /\ pc[t] \in {"graph", "regraph"}
    /\ graph' = scan[t]
    /\ scan' = [scan EXCEPT ![t] = None]
    /\ Goto(t, IF pc[t] = "graph" THEN "index" ELSE "use")
    /\ UNCHANGED <<version, index, overlap, uses, ranking>>

TakeIndex(t) == /\ pc[t] = "index"
                /\ uses' = [uses EXCEPT ![t].index = index]
                /\ Goto(t, IF graph = None THEN "rescan" ELSE "use")
                /\ UNCHANGED <<version, service, ranking>>

TakeGraph(t) == /\ pc[t] = "use"
                /\ uses' = [uses EXCEPT ![t].graph = graph]
                /\ Goto(t, "ready")
                /\ UNCHANGED <<version, service, ranking>>

-----------------------------------------------------------------------------
(* The query of one thread.  Two queries share nothing but the service, so *)
(* that of the other threads ends here.                                    *)

\* _rank up to the first sort: the files that match and what they score.
Score(t, points) ==
    /\ pc[t] = "ready" /\ t = Ranker /\ points # <<>>
    /\ scores' = points
    /\ matched' = DOMAIN points
    /\ Goto(t, "expand")
    /\ UNCHANGED <<version, service, uses, ranked, cost, sections, left>>

\* Nothing matches: the context is empty.
Nothing(t) ==
    /\ pc[t] = "ready"
    /\ Goto(t, "done")
    /\ UNCHANGED <<version, service, uses, ranking>>

\* Best score first, then by path, for which any fixed order will do.
Place == CHOOSE p \in [Files -> 1..Cardinality(Files)] : IsInjective(p)
Above(s, f, g) == s[f] > s[g] \/ (s[f] = s[g] /\ Place[f] < Place[g])
Sorted(s) == [k \in 1..Cardinality(DOMAIN s) |->
                 CHOOSE f \in DOMAIN s : Cardinality({g \in DOMAIN s : Above(s, g, f)}) = k - 1]
First(n, seq) == SubSeq(seq, 1, Min({n, Len(seq)}))

Neighbours(f) == {g \in Files : <<f, g>> \in Imports \/ <<g, f>> \in Imports}

\* Mutant: the weights of a hop are dropped.
ShareWhole(seed, f) == 11

\* A file that imports the seed gets four tenths of its score, one that the
\* seed imports three; the best of several seeds counts.
Share(seed, f) == IF <<f, seed>> \in Imports THEN 4 ELSE 3

Inherited(s, from, f) ==
    Max({(s[g] * Share(g, f)) \div 10 : g \in from \cap Neighbours(f)})

Expand(t) ==
    /\ pc[t] = "expand"
    /\ LET from == Range(First(MaxFiles \div 2 + 1, Sorted(scores)))
           new == (UNION {Neighbours(g) : g \in from}) \ DOMAIN scores
           all == [f \in DOMAIN scores \cup new |->
                      IF f \in new THEN Inherited(scores, from, f) ELSE scores[f]]
       IN  /\ scores' = all
           /\ ranked' = First(MaxFiles, Sorted(all))
    /\ Goto(t, "render")
    /\ UNCHANGED <<version, service, uses, matched, cost, sections, left>>

\* _render_candidates: a snippet that does not fit is left out, a smaller one
\* behind it may still fit.
Turn(t) == pc[t] = "render" /\ Len(ranked) > Cardinality(DOMAIN cost) /\ left > 0

Fits(c) == c <= left

Render(t, c) ==
    /\ Turn(t)
    /\ LET f == ranked[Cardinality(DOMAIN cost) + 1]
       IN  /\ cost' = [g \in DOMAIN cost \cup {f} |-> IF g = f THEN c ELSE cost[g]]
           /\ IF Fits(c)
              THEN /\ sections' = Append(sections, f)
                   /\ left' = left - c
              ELSE UNCHANGED <<sections, left>>
    /\ UNCHANGED <<version, service, pc, uses, scores, matched, ranked>>

Rendered(t) ==
    /\ pc[t] = "render" /\ ~Turn(t)
    /\ Goto(t, "done")
    /\ UNCHANGED <<version, service, uses, ranking>>

-----------------------------------------------------------------------------
Points == UNION {[S -> Scores] : S \in SUBSET Files}

Retrieve(t) == \/ AskIndex(t) \/ Scan(t) \/ PublishIndex(t) \/ BuildGraph(t)
               \/ PublishGraph(t) \/ TakeIndex(t) \/ TakeGraph(t) \/ Nothing(t)
               \/ pc[t] = "ready" /\ \E m \in Points : Score(t, m)
               \/ Expand(t) \/ Rendered(t)
               \/ \E c \in Costs : Render(t, c)

Next == Edit \/ \E t \in Threads : Retrieve(t)

Spec == Init /\ [][Next]_vars

-----------------------------------------------------------------------------
Versions == {None} \cup 0..MaxEdits

TypeOK == /\ index \in Versions /\ graph \in Versions
          /\ DOMAIN scores \subseteq Files
          /\ Range(sections) \subseteq Range(ranked)
          /\ left \in 0..Budget

\* A retrieval ranks with an index and a graph of one scan, although it asks
\* for them one after the other and the workspace is edited meanwhile, unless
\* two threads have been in the service at a time: it is documented as not
\* thread-safe, and may then keep an index and a graph of different scans
\* (RepositoryService._build).
OneScan ==
    ~overlap =>
        \A t \in Threads : pc[t] \in {"ready", "expand", "render"} =>
            uses[t].index # None /\ uses[t].graph = uses[t].index

\* A file that only a neighbour speaks for comes after a neighbour that
\* matches the query itself, and is never shown without it being a candidate
\* (_expand, _rank).
NeighboursComeAfter ==
    \A i \in DOMAIN ranked :
        ranked[i] \notin matched =>
            \E j \in 1..i - 1 : ranked[j] \in matched \cap Neighbours(ranked[i])

\* The rendered sections together cost no more than the budget, and every
\* candidate left out would not have fitted into what is left of it
\* (_render_candidates).  The header and the separators build adds are not
\* counted: the whole string may cost more than the budget.
SectionsFit ==
    pc[Ranker] = "done" =>
        /\ \E spent \in [0..Len(sections) -> 0..Budget] :
              /\ spent[0] = 0 /\ spent[Len(sections)] + left = Budget
              /\ \A i \in DOMAIN sections : spent[i] = spent[i - 1] + cost[sections[i]]
        /\ \A f \in DOMAIN cost : f \notin Range(sections) => cost[f] > left

\* The context a query gets.
RetrievalIsSound == OneScan /\ NeighboursComeAfter /\ SectionsFit
=============================================================================
