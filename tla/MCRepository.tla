----------------------------- MODULE MCRepository -----------------------------
(*****************************************************************************)
(* One run for the components that read and rewrite the code of a workspace:  *)
(* the scan, the reference graph, the planner, the symbol index, the line and  *)
(* text edits, the prompt budget, the retrieval and the verification.  They   *)
(* share no variable: a behaviour is one of one part, chosen at Init; the     *)
(* others stay as they start.  The step ids of a plan are interchangeable.    *)
(* The planner, the symbol index, the prompts, the retrieval and the          *)
(* verification take their constants from the configuration.                  *)
(*****************************************************************************)
EXTENDS Naturals, FiniteSets, Sequences, TLC

CONSTANTS None, Absent, Bad, Space,
          Letters,                                  \* words or characters
          Calls, Ids, PlanSize, MaxDeps, MaxSteps, MaxReplans,          \* Planning
          Threads, Scripts, Idents, MaxWrites, MaxBuilds, Limit,        \* SymbolIndex
          NCtx, Response, Turns, Tasks, Messages, Retrieved, Templates, \* PromptBudget
          Ranker, Indexed, Imports, Scores, Costs, MaxFiles, Budget,
          MaxEdits,                                                     \* RepositoryContext
          Tracked, StemOf, SrcNames, Tests, MaxPlanned                  \* Verification

Interchangeable == Permutations(Ids)

VARIABLES part,
    gPhase, imports, edges, index, lowlink, sccStack, work, sccs, query, gQueue,
    visited, answer,
    pPhase, replans, plan, degree, queue, order, confidence,
    disk, cache, pc, file, todo, own, seen, writes, builds, matches, raced, external,
    lPhase, text, result, offset, hunks, edit,
    sPhase, content, search, replace, count, updated, pos, replaced, window,
    phase, task, template, retrieved, messages, kept, total, older, context, prompt,
    version, rIndex, graph, rPc, scan, overlap, uses, scores, matched, ranked,
    cost, sections, left,
    rules, gone, stage, unvisited, loaded, paths, infos, byName, byQualified,
    step, planned, change, ends, changed, gitFailed, selected, noOutput, passed,
    failed, verdict

codeGraph == <<gPhase, imports, edges, index, lowlink, sccStack, work, sccs,
               query, gQueue, visited, answer>>
planning == <<pPhase, replans, plan, degree, queue, order, confidence>>
symbols == <<disk, cache, pc, file, todo, own, seen, writes, builds, matches,
             raced, external>>
lines == <<lPhase, text, result, offset, hunks, edit>>
texts == <<sPhase, content, search, replace, count, updated, pos, replaced, window>>
budget == <<phase, task, template, retrieved, messages, kept, total, older, context, prompt>>
retrieval == <<version, rIndex, graph, rPc, scan, overlap, uses, scores, matched,
               ranked, cost, sections, left>>
tree == <<rules, gone, stage, unvisited, loaded, paths, infos, byName, byQualified>>
proof == <<step, planned, change, ends, changed, gitFailed, selected, noOutput,
           passed, failed, verdict>>

-----------------------------------------------------------------------------
(* A package p with modules a and b, and a module b beside it.               *)

Package == <<"p", "__init__">>
ModuleA == <<"p", "a">>
ModuleB == <<"p", "b">>
Beside == <<"b">>
Modules == {Package, ModuleA, ModuleB, Beside}

Import(dots, module, names) == [dots |-> dots, module |-> module, names |-> names]

\* "from . import a", "from . import a, b", "from .b import X", "import b",
\* "import p.a", "from p import b", "from ..b import X": siblings, relative and
\* absolute modules, and one beyond the top of the package.
Statements == {Import(1, <<>>, {"a"}), Import(1, <<>>, {"a", "b"}),
               Import(1, <<"b">>, {"X"}), Import(0, <<"b">>, {}),
               Import(0, <<"p", "a">>, {}), Import(0, <<"p">>, {"b"}),
               Import(2, <<"b">>, {"X"})}

References == INSTANCE CodeGraph WITH
    phase <- gPhase, queue <- gQueue, Files <- Modules, Stmts <- Statements,
    MaxImports <- 1, Symbols <- [f \in Modules |-> IF f = Beside THEN 2 ELSE 1],
    NoPath <- None

Planner == INSTANCE Planning WITH phase <- pPhase, NoId <- None

Definitions == INSTANCE SymbolIndex WITH Files <- Scripts, Names <- Idents

ByLine == INSTANCE LineEdits WITH
    phase <- lPhase, Words <- Letters, MaxLines <- 3, MaxHunks <- 2,
    MaxOld <- 2, MaxNew <- 1

ByText == INSTANCE SearchReplace WITH
    phase <- sPhase, Chars <- Letters, MaxContent <- 4, MaxSearch <- 2,
    MaxReplace <- 1, MaxCount <- 2, StepShare <- 4

Prompts == INSTANCE PromptBudget

Retriever == INSTANCE RepositoryContext WITH
    index <- rIndex, pc <- rPc, Files <- Indexed

Verifier == INSTANCE Verification WITH Files <- Tracked

-----------------------------------------------------------------------------
(* A tree with a package, a generated directory and files named alike.       *)

Folders == {<<>>, <<"src">>, <<"src", "sub">>, <<"build">>}
InPathOrder == << <<"build", "x">>, <<"src", "sub", "x">>, <<"src", "x">>,
                  <<"src", "y">>, <<"x">> >>

Glob(neg, dirOnly, anchored, comps) ==
    [neg |-> neg, dirOnly |-> dirOnly, anchored |-> anchored, comps |-> comps]

\* x, !x, *, !*, src, src/, sub/, !sub/, /*, src/x, !src/x, /x, sub/x.
Anywhere == {Glob(neg, FALSE, FALSE, <<c>>) : neg \in BOOLEAN, c \in {"x", "*"}}
                \cup {Glob(FALSE, dirOnly, FALSE, <<"src">>) : dirOnly \in BOOLEAN}
                \cup {Glob(neg, TRUE, FALSE, <<"sub">>) : neg \in BOOLEAN}
Anchored == {Glob(neg, FALSE, TRUE, <<"src", "x">>) : neg \in BOOLEAN}
                \cup {Glob(FALSE, FALSE, TRUE, comps) : comps \in {<<"*">>, <<"x">>, <<"sub", "x">>}}
Globs == Anywhere \cup Anchored

AtRoot == {<<>>} \cup {<<g>> : g \in Globs} \cup {<<g, h>> : g \in Anywhere, h \in Globs}
InSrc == {<<>>} \cup {<<g>> : g \in Anywhere \cup {Glob(TRUE, FALSE, TRUE, <<"sub", "x">>)}}

Method(class) == [name |-> "m", qualified |-> class]

Repository == INSTANCE Scanner WITH
    left <- unvisited, Dirs <- Folders, Sorted <- InPathOrder, IgnoreDirs <- {"build"},
    Oversized <- {<<"src", "y">>},
    Symbols <- [f \in {InPathOrder[2], InPathOrder[3], InPathOrder[5]} |->
                   IF f = <<"src", "x">> THEN <<Method("m"), Method("C.m")>> ELSE <<Method("m")>>],
    Gitignores <- {[d \in Folders |-> CASE d = <<>> -> r [] d = <<"src">> -> i [] OTHER -> <<>>] :
                      r \in AtRoot, i \in InSrc},
    MaxGone <- 1

-----------------------------------------------------------------------------
(* What the proofs take the constants to be.                                 *)

PlannerBounds == PlanSize \in Nat

SymbolBounds == /\ Scripts # {} /\ IsFiniteSet(Scripts) /\ IsFiniteSet(Idents)
                /\ Limit \in Nat /\ None \notin Definitions!IndexType

PromptBounds == /\ NCtx \in Nat /\ Response \in Nat /\ Turns \in Nat
                /\ Tasks \subseteq Nat /\ Messages \subseteq Nat
                /\ Retrieved \subseteq Nat /\ Templates \subseteq Nat

RetrieverBounds == /\ IsFiniteSet(Indexed) /\ Ranker \in Threads /\ None \notin Nat
                   /\ Scores \subseteq Nat \ {0} /\ Costs \subseteq Nat
                   /\ MaxFiles \in Nat /\ Budget \in Nat

VerifierBounds == IsFiniteSet(Tracked) /\ IsFiniteSet(Tests)

ASSUME Bounded == /\ PlannerBounds /\ SymbolBounds /\ PromptBounds
                  /\ RetrieverBounds /\ VerifierBounds

-----------------------------------------------------------------------------
(* Values of constants.                                                      *)

Call(tool, path) == [tool |-> tool, path |-> path]

PlannedCalls == {Call("read_file", "p"), Call("write_file", "p"), Call("append_file", "p"),
                 Call("bogus", "p"), Call("read_file", "system")}

ImportChain == {<<"a", "b">>, <<"b", "c">>}

\* Two files share the name of a test; b is reported under a name without one
\* when it is new in a new directory.
Reported == [file : {"src/a", "lib/a", "b"}, plain : BOOLEAN]
Stems == [n \in Reported |-> CASE n.file # "b" -> "a"
                               [] n.file = "b" /\ n.plain -> "b"
                               [] OTHER -> "none"]
UnderSrc == {n \in Reported : n.file = "src/a"}

-----------------------------------------------------------------------------
vars == <<part, codeGraph, planning, symbols, lines, texts, budget, retrieval,
          tree, proof>>

NoLines == /\ lPhase = "input" /\ text = <<>> /\ result = <<>>
           /\ offset = 0 /\ hunks = <<>> /\ edit = <<>>
NoTexts == /\ sPhase = "input" /\ content = <<>> /\ search = <<>> /\ replace = <<>>
           /\ count = 0 /\ updated = <<>> /\ pos = 0 /\ replaced = 0 /\ window = <<>>
NoPrompt == /\ phase = "asked" /\ task = 40 /\ template = 6000 /\ retrieved = 100
            /\ messages = <<>> /\ kept = 0 /\ total = 0 /\ older = 0 /\ context = 0 /\ prompt = 0
NoScan == /\ rules = [d \in Folders |-> <<>>] /\ gone = {} /\ stage = "walk"
          /\ unvisited = <<>> /\ loaded = <<>> /\ paths = <<>> /\ infos = <<>>
          /\ byName = <<>> /\ byQualified = <<>>
NoVerdict == /\ step = "status" /\ planned = <<>> /\ change = <<>> /\ ends = <<>>
             /\ changed = {} /\ gitFailed = FALSE /\ selected = {} /\ noOutput = FALSE
             /\ passed = 0 /\ failed = 0 /\ verdict = <<>>

Init ==
    /\ part \in {"graph", "plan", "symbols", "lines", "texts", "budget", "retrieval",
                 "scan", "verify"}
    /\ References!Init /\ (part # "graph" => imports = [f \in Modules |-> {}])
    /\ Planner!Init /\ (part # "plan" => replans = 0)
    /\ Definitions!Init /\ (part # "symbols" => disk = [f \in Scripts |-> Absent])
    /\ IF part = "lines" THEN ByLine!Init ELSE NoLines
    /\ IF part = "texts" THEN ByText!Init ELSE NoTexts
    /\ IF part = "budget" THEN Prompts!Init ELSE NoPrompt
    /\ Retriever!Init
    /\ IF part = "scan" THEN Repository!Init ELSE NoScan
    /\ IF part = "verify" THEN Verifier!Init ELSE NoVerdict

Next ==
    \/ /\ part = "graph" /\ References!Next
       /\ UNCHANGED <<part, planning, symbols, lines, texts, budget, retrieval,
                      tree, proof>>
    \/ /\ part = "plan" /\ Planner!Next
       /\ UNCHANGED <<part, codeGraph, symbols, lines, texts, budget, retrieval,
                      tree, proof>>
    \/ /\ part = "symbols" /\ Definitions!Next
       /\ UNCHANGED <<part, codeGraph, planning, lines, texts, budget, retrieval,
                      tree, proof>>
    \/ /\ part = "lines" /\ ByLine!Next
       /\ UNCHANGED <<part, codeGraph, planning, symbols, texts, budget, retrieval,
                      tree, proof>>
    \/ /\ part = "texts" /\ ByText!Next
       /\ UNCHANGED <<part, codeGraph, planning, symbols, lines, budget, retrieval,
                      tree, proof>>
    \/ /\ part = "budget" /\ Prompts!Next
       /\ UNCHANGED <<part, codeGraph, planning, symbols, lines, texts, retrieval,
                      tree, proof>>
    \/ /\ part = "retrieval" /\ Retriever!Next
       /\ UNCHANGED <<part, codeGraph, planning, symbols, lines, texts, budget,
                      tree, proof>>
    \/ /\ part = "scan" /\ Repository!Next
       /\ UNCHANGED <<part, codeGraph, planning, symbols, lines, texts, budget,
                      retrieval, proof>>
    \/ /\ part = "verify" /\ Verifier!Next
       /\ UNCHANGED <<part, codeGraph, planning, symbols, lines, texts, budget,
                      retrieval, tree>>

Spec == Init /\ [][Next]_vars

-----------------------------------------------------------------------------
(* The properties of the parts, stated and explained in their modules.       *)

TypeOK ==
    CASE part = "graph"     -> References!TypeOK
      [] part = "plan"      -> Planner!TypeOK
      [] part = "symbols"   -> Definitions!TypeOK
      [] part = "lines"     -> ByLine!TypeOK
      [] part = "texts"     -> ByText!TypeOK
      [] part = "budget"    -> Prompts!TypeOK
      [] part = "retrieval" -> Retriever!TypeOK
      [] part = "scan"      -> Repository!TypeOK
      [] part = "verify"    -> Verifier!TypeOK

ScanIsExact == part = "scan" => Repository!ScanIsExact
GraphIsExact == part = "graph" => References!GraphIsExact /\ References!AnswersAreExact
PlansAreSound == part = "plan" => Planner!PlansAreSound
LookupsAreRight == part = "symbols" => Definitions!LookupsAreRight
EditsAreExact == /\ part = "lines" => ByLine!EditsAreExact
                 /\ part = "texts" => ByText!ReplacementIsExact
BudgetsFit == part = "budget" => Prompts!BudgetsFit
RetrievalIsSound == part = "retrieval" => Retriever!RetrievalIsSound
VerdictIsEarned == part = "verify" => Verifier!VerdictIsEarned
=============================================================================
