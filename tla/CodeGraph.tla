----------------------------- MODULE CodeGraph -----------------------------
(***************************************************************************)
(* The reference graph of a workspace (src/repository/graph.py): how the   *)
(* import statements of its files become IMPORTS edges, and the three      *)
(* iterative algorithms that answer questions about them - Tarjan's        *)
(* strongly connected components, the breadth-first impact of a change and *)
(* the shortest import path.                                               *)
(*                                                                         *)
(* A file is its path without extension, as a sequence of names; a package *)
(* is the file whose last name is "__init__".  A statement is what         *)
(* _parse_import_string and _extract_imported_names make of one import     *)
(* string: the number of leading dots, the module and the imported names.  *)
(* PageRank (a library's numerical result) and the symbol edges are left   *)
(* out.                                                                    *)
(***************************************************************************)
EXTENDS Naturals, FiniteSets, Sequences, SequencesExt, FiniteSetsExt, Functions

CONSTANTS Files,       \* the files of the workspace, sequences of names
          Stmts,       \* the import statements a file may hold
          MaxImports,  \* bound: statements per file
          Symbols,     \* Symbols[f]: how many symbols file f defines
          NoPath       \* shortest_path's None

Graph == INSTANCE Graphs

VARIABLES phase,    \* "scan", "cycles", "ready", "search", "answered"
          imports,  \* file -> statements, RepositoryIndex._imports_by_file
          edges,    \* the IMPORTS edges
          index,    \* Tarjan: index_map, a partial function on files
          lowlink,  \* Tarjan: lowlink, on the same domain
          sccStack, \* Tarjan: scc_stack, the last file on top
          work,     \* Tarjan: work, frames [v, todo] with the neighbours left
          sccs,     \* Tarjan: the circular groups found
          query,    \* the question asked
          queue,    \* breadth-first search: paths still to be extended
          visited,  \* breadth-first search: files already seen
          answer    \* what the question was answered with

vars == <<phase, imports, edges, index, lowlink, sccStack, work, sccs,
          query, queue, visited, answer>>

tarjan == <<index, lowlink, sccStack, work, sccs>>
search == <<query, queue, visited, answer>>

-----------------------------------------------------------------------------
(* From import statements to edges.                                        *)

\* The dotted name a file is imported by; a package is its directory.
ModuleKey(f) == IF Last(f) = "__init__" THEN Front(f) ELSE f

\* module_map: the root __init__ has an empty key and no entry.
ModuleMap(key) == {f \in Files : key # <<>> /\ ModuleKey(f) = key}

\* Mutant: one dot already leaves the package.
ResolveOneUpTooFar(dots, module, f) ==
    LET package == Front(f)
    IN  CASE dots = 0              -> ModuleMap(module)
          [] dots > Len(package)   -> {}
          [] OTHER                 ->
                ModuleMap(SubSeq(package, 1, Len(package) - dots) \o module)

\* The file a statement's module names, as a set of at most one file.
ResolveToFile(dots, module, f) ==
    LET up == dots - 1
        package == Front(f)
    IN  CASE dots = 0           -> ModuleMap(module)
          [] up > Len(package)  -> {}
          [] OTHER              ->
                ModuleMap(SubSeq(package, 1, Len(package) - up) \o module)

\* "from . import X": every X that is a module, else the package itself.
Siblings(s, f) == (UNION {ResolveToFile(s.dots, <<n>>, f) : n \in s.names}) \ {f}

ImportTargets(s, f) ==
    IF s.dots > 0 /\ s.module = <<>>
    THEN IF Siblings(s, f) # {} THEN Siblings(s, f)
                                ELSE ResolveToFile(s.dots, <<>>, f) \ {f}
    ELSE ResolveToFile(s.dots, s.module, f) \ {f}

EdgesOf(imps) ==
    {e \in Files \X Files : \E s \in imps[e[1]] : e[2] \in ImportTargets(s, e[1])}

Targets(f) == {g \in Files : <<f, g>> \in edges}
Sources(f) == {g \in Files : <<g, f>> \in edges}

-----------------------------------------------------------------------------
Init == /\ phase = "scan"
        /\ imports \in [Files -> {S \in SUBSET Stmts : Cardinality(S) <= MaxImports}]
        /\ edges = {}
        /\ index = <<>> /\ lowlink = <<>>
        /\ sccStack = <<>> /\ work = <<>> /\ sccs = {}
        /\ query = "none" /\ queue = <<>> /\ visited = {} /\ answer = "none"

\* RepositoryGraph.build up to its last step, the count of the cycles.
Build == /\ phase = "scan"
         /\ edges' = EdgesOf(imports)
         /\ phase' = "cycles"
         /\ UNCHANGED <<imports, tarjan, search>>

-----------------------------------------------------------------------------
(* detect_cycles: Tarjan's algorithm with an explicit work stack.          *)

\* f gets the next number and goes on both stacks.
Discover(f) ==
    /\ index' = index @@ (f :> Cardinality(DOMAIN index))
    /\ lowlink' = lowlink @@ (f :> Cardinality(DOMAIN index))
    /\ sccStack' = Append(sccStack, f)

Top == Last(work)

\* The files are taken in one order, that of indexed_files.
StartAt(f) ==
    /\ phase = "cycles" /\ work = <<>> /\ DOMAIN index # Files
    /\ f = CHOOSE g \in Files : g \notin DOMAIN index
    /\ Discover(f)
    /\ work' = <<[v |-> f, todo |-> Targets(f)]>>
    /\ UNCHANGED <<phase, imports, edges, sccs, search>>

Frame(w) == [Top EXCEPT !.todo = @ \ {w}]

Descend(w) ==
    /\ phase = "cycles" /\ work # <<>> /\ w \in Top.todo
    /\ w \notin DOMAIN index
    /\ Discover(w)
    /\ work' = Append(Append(Front(work), Frame(w)),
                      [v |-> w, todo |-> Targets(w)])
    /\ UNCHANGED <<phase, imports, edges, sccs, search>>

\* A neighbour already numbered counts only while it is on the stack.
Look(w) ==
    /\ phase = "cycles" /\ work # <<>> /\ w \in Top.todo
    /\ w \in DOMAIN index
    /\ lowlink' = IF w \in Range(sccStack)
                  THEN [lowlink EXCEPT ![Top.v] = Min({@, index[w]})]
                  ELSE lowlink
    /\ work' = Append(Front(work), Frame(w))
    /\ UNCHANGED <<phase, imports, edges, index, sccStack, sccs, search>>

\* The files above and including v on the stack.
Component(v) == LET at == CHOOSE i \in DOMAIN sccStack : sccStack[i] = v
                IN  {sccStack[i] : i \in at..Len(sccStack)}

Propagated(v, rest) ==
    IF rest = <<>> THEN lowlink
    ELSE [lowlink EXCEPT ![Last(rest).v] = Min({@, lowlink[v]})]

\* The frame is finished: its lowlink goes to the parent, and a root takes
\* its component off the stack; a component of one file is no cycle.
Retreat ==
    /\ phase = "cycles" /\ work # <<>> /\ Top.todo = {}
    /\ LET v == Top.v
           root == lowlink[v] = index[v]
           component == Component(v)
       IN  /\ lowlink' = Propagated(v, Front(work))
           /\ sccStack' = IF root
                          THEN SubSeq(sccStack, 1,
                                      Len(sccStack) - Cardinality(component))
                          ELSE sccStack
           /\ sccs' = IF root /\ Cardinality(component) > 1
                      THEN sccs \cup {component} ELSE sccs
    /\ work' = Front(work)
    /\ UNCHANGED <<phase, imports, edges, index, search>>

\* detect_cycles returns: its local variables are gone, the groups stay.
Built == /\ phase = "cycles" /\ work = <<>> /\ DOMAIN index = Files
         /\ phase' = "ready"
         /\ index' = <<>> /\ lowlink' = <<>> /\ sccStack' = <<>>
         /\ UNCHANGED <<imports, edges, work, sccs, search>>

-----------------------------------------------------------------------------
(* Queries on the finished graph.                                          *)

\* impact(f): the reverse search starts at f, which is never "visited".
AskImpact(f) ==
    /\ phase = "ready"
    /\ query' = [kind |-> "impact", of |-> f]
    /\ queue' = <<<<f>>>> /\ visited' = {} /\ phase' = "search"
    /\ UNCHANGED <<imports, edges, tarjan, answer>>

\* shortest_path(f, g).
AskPath(f, g) ==
    /\ phase = "ready"
    /\ query' = [kind |-> "path", of |-> f, to |-> g]
    /\ IF f = g
       THEN /\ answer' = <<f>> /\ phase' = "answered"
            /\ UNCHANGED <<queue, visited>>
       ELSE /\ queue' = <<<<f>>>> /\ visited' = {f} /\ phase' = "search"
            /\ UNCHANGED answer
    /\ UNCHANGED <<imports, edges, tarjan>>

Path == Head(queue)
Here == Last(Path)

\* The files the search meets next, and those of them it has not seen.
Neighbours == IF query.kind = "impact" THEN Sources(Here) ELSE Targets(Here)

Unseen == Neighbours \ (visited \cup {query.of})

\* One turn of either loop: the head leaves, its unseen neighbours join.
Visit ==
    /\ phase = "search" /\ queue # <<>>
    /\ query.kind = "path" => query.to \notin Neighbours
    /\ queue' = Tail(queue) \o [i \in 1..Cardinality(Unseen) |->
                                   Append(Path, SetToSeq(Unseen)[i])]
    /\ visited' = visited \cup Unseen
    /\ UNCHANGED <<phase, imports, edges, tarjan, query, answer>>

Reached ==
    /\ phase = "search" /\ queue # <<>>
    /\ query.kind = "path" /\ query.to \in Neighbours
    /\ answer' = Append(Path, query.to)
    /\ phase' = "answered"
    /\ UNCHANGED <<imports, edges, tarjan, query, queue, visited>>

Risk(n) == CASE n <= 2 -> "LOW" [] n \in 3..10 -> "MEDIUM" [] OTHER -> "HIGH"

Impact(direct, transitive) ==
    [direct     |-> direct,
     transitive |-> transitive,
     affected   |-> MapThenSumSet(LAMBDA g : Symbols[g], direct \cup transitive),
     risk       |-> Risk(Cardinality(transitive))]

Exhausted ==
    /\ phase = "search" /\ queue = <<>>
    /\ answer' = IF query.kind = "path" THEN NoPath
                 ELSE Impact(Sources(query.of), visited)
    /\ phase' = "answered"
    /\ UNCHANGED <<imports, edges, tarjan, query, queue, visited>>

-----------------------------------------------------------------------------
Cycles == \/ \E f \in Files : StartAt(f) \/ Descend(f) \/ Look(f)
          \/ Retreat
          \/ Built

Queries == \/ \E f \in Files : AskImpact(f)
           \/ \E f, g \in Files : AskPath(f, g)
           \/ Visit
           \/ Reached
           \/ Exhausted

Next == Build \/ Cycles \/ Queries

Spec == Init /\ [][Next]_vars

-----------------------------------------------------------------------------
TypeOK ==
    /\ phase \in {"scan", "cycles", "ready", "search", "answered"}
    /\ edges \subseteq Files \X Files
    /\ DOMAIN index \subseteq Files /\ DOMAIN lowlink = DOMAIN index
    /\ \A i \in DOMAIN work : work[i].v \in DOMAIN index
    /\ Range(sccStack) \subseteq DOMAIN index
    /\ visited \subseteq Files

Reach == Graph!ConnectionsIn([node |-> Files, edge |-> edges])

Mutual(f) == {g \in Files : Reach[f, g] /\ Reach[g, f]}

\* The circular import groups reported are exactly the sets of two or more
\* files that import each other, directly or through others (detect_cycles).
CyclesAreComponents ==
    phase = "ready" =>
        sccs = {Mutual(f) : f \in {g \in Files : Cardinality(Mutual(g)) > 1}}

\* The impact of a file is every other file that imports it through any
\* chain, and its affected symbols count each dependent file once
\* (transitive_dependents, impact).
ImpactIsExact ==
    phase = "answered" /\ query.kind = "impact" =>
        LET dependents == {g \in Files \ {query.of} : Reach[g, query.of]}
        IN  answer = Impact(Sources(query.of), dependents)

IsPath(p) == \A i \in 1..Len(p) - 1 : <<p[i], p[i + 1]>> \in edges

\* shortest_path answers with a real path that no other path beats, and with
\* None only when there is no path at all.
PathIsShortest ==
    phase = "answered" /\ query.kind = "path" =>
        IF answer = NoPath THEN ~Reach[query.of, query.to]
        ELSE /\ IsPath(answer)
             /\ answer[1] = query.of /\ Last(answer) = query.to
             /\ \A p \in BoundedSeq(Files, Len(answer) - 1) :
                   ~(p # <<>> /\ p[1] = query.of /\ Last(p) = query.to /\ IsPath(p))

\* The modules Python loads when f executes statement s: the named module,
\* the packages it is in, and the imported names that are modules.
Loads(s, f) ==
    LET base == IF s.dots = 0 THEN <<>>
                ELSE SubSeq(Front(f), 1, Len(Front(f)) - (s.dots - 1))
        full == base \o s.module
    IN  UNION {ModuleMap(SubSeq(full, 1, i)) : i \in 1..Len(full)}
            \cup UNION {ModuleMap(Append(full, n)) : n \in s.names}

\* An edge only joins a file to one that Python loads on its behalf, so a file
\* nobody depends on is never rated as risky (build, _resolve_to_file).
EdgesAreImports ==
    \A e \in edges : \E s \in imports[e[1]] : e[2] \in Loads(s, e[1])

\* What the graph says of the workspace as a whole.
GraphIsExact == EdgesAreImports /\ CyclesAreComponents

\* What the graph answers about single files.
AnswersAreExact == ImpactIsExact /\ PathIsShortest
=============================================================================
