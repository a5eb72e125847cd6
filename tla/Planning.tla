------------------------------ MODULE Planning ------------------------------
(***************************************************************************)
(* One call of Planner.plan or Planner.replan (src/agent/planner.py): the  *)
(* gates in front of the model, what ToolParser accepts of its answer, the *)
(* topological sort (src/agent/dependency_graph.py), the validation of the *)
(* plan and of its dependencies (src/agent/plan_validator.py), of each     *)
(* call (src/llm/validation.py) and the confidence score                   *)
(* (src/agent/confidence.py).                                              *)
(*                                                                         *)
(* A step is a record: the class of its tool, the path it names, its id    *)
(* and the ids it depends on.  Prompt texts and argument values are left   *)
(* out; a path is "system" when it starts with a forbidden prefix and      *)
(* "alien" when its extension does not occur in the workspace.             *)
(***************************************************************************)
EXTENDS Integers, FiniteSets, Sequences, FiniteSetsExt, Functions

CONSTANTS Calls,      \* [tool, path] pairs the model asks for
          Ids,        \* ids the steps use
          NoId,       \* a step without an id
          PlanSize,   \* bound: steps of a plan
          MaxDeps,    \* bound: dependencies of a step
          MaxSteps,   \* plan_validator.MAX_STEPS
          MaxReplans  \* bound: replans before this call

\* One tool stands for each class: write_file for replace_in_file and
\* edit_lines, append_file for the registered tools that write but that
\* validate_plan does not know (delete_file, rename_file, copy_file,
\* replace_function, insert_after_symbol and their like).
Destructive == {"write_file", "patch_file"}
Writing == Destructive \cup {"create_file"}
WRITE_TOOL_NAMES == Writing \cup {"append_file"}
Registered == {"read_file", "execute_shell"} \cup WRITE_TOOL_NAMES

NoCall == [tool |-> "none", path |-> "none"]

StepOf(calls) ==
    {[tool |-> c.tool, path |-> c.path, id |-> i, deps |-> D] :
        c \in calls, i \in Ids \cup {NoId},
        D \in {E \in SUBSET Ids : Cardinality(E) <= MaxDeps}}

VARIABLES phase,     \* where the call is
          replans,   \* replans_used, 0 for plan()
          plan,      \* the steps as the model declared them
          degree,    \* topological_sort: in_degree
          queue,     \* topological_sort: indices of ready steps
          order,     \* topological_sort: indices in execution order
          confidence \* last_confidence_score, in hundredths of a percent

vars == <<phase, replans, plan, degree, queue, order, confidence>>

Ended == {"conversational", "ambiguous", "unparsable", "cyclic",
          "invalid", "badcall", "accepted"}

Init == /\ phase = "asked"
        /\ replans \in 0..MaxReplans
        /\ plan = <<>> /\ degree = <<>> /\ queue = <<>> /\ order = <<>>
        /\ confidence = -1

-----------------------------------------------------------------------------
(* Confidence, in units of 0.0001.                                         *)

Clamp(x) == Max({0, Min({10000, x})})

StepScore(s, i) ==
    IF s.tool = "none" THEN 10000
    ELSE Clamp(10000 - 200 * (i - 1)
                     - (IF s.tool \in WRITE_TOOL_NAMES THEN 1000 ELSE 0)
                     - (IF s.tool = "execute_shell" THEN 2000 ELSE 0))

ScorePlan(steps, used) ==
    Clamp(FoldFunction(+, 0, [i \in DOMAIN steps |-> StepScore(steps[i], i)])
              \div Len(steps)
          - Min({3000, 1500 * used}))

-----------------------------------------------------------------------------
(* Before the model answers.  replan() has no gates.                       *)

\* A greeting is planned as one "none" step, without the model.
Converse == /\ phase = "asked" /\ replans = 0
            /\ plan' = <<[tool |-> NoCall.tool, path |-> NoCall.path,
                          id |-> NoId, deps |-> {}]>>
            /\ order' = <<1>>
            /\ confidence' = ScorePlan(plan', 0)
            /\ phase' = "conversational"
            /\ UNCHANGED <<replans, degree, queue>>

\* A single word that names nothing raises AmbiguousRequestError.
Clarify == /\ phase = "asked" /\ replans = 0
           /\ phase' = "ambiguous"
           /\ UNCHANGED <<replans, plan, degree, queue, order, confidence>>

\* No JSON object, no step, or a field of the wrong type: ParseError.
Unparsable == /\ phase = "asked"
              /\ phase' = "unparsable"
              /\ UNCHANGED <<replans, plan, degree, queue, order, confidence>>

Annotated(steps) ==
    \E i \in DOMAIN steps : steps[i].id # NoId \/ steps[i].deps # {}

\* id_to_index: of two steps with one id the later one counts; an unknown
\* id has no index and its edge is dropped.
IndexOf(steps, d) == LET named == {i \in DOMAIN steps : steps[i].id = d}
                     IN  IF named = {} THEN {} ELSE {Max(named)}

Prerequisites(steps, i) == UNION {IndexOf(steps, d) : d \in steps[i].deps}

\* The indices in S in ascending order.
Ascending(S) == [k \in 1..Cardinality(S) |->
                    CHOOSE i \in S : Cardinality({j \in S : j < i}) = k - 1]

Ready(deg) == Ascending({i \in DOMAIN deg : deg[i] = 0})

\* The answer is parsed and topological_sort prepares its queue; a plan
\* without annotations keeps its order.
Declare(steps) ==
    /\ phase = "asked"
    /\ plan' = steps
    /\ IF Annotated(steps)
       THEN LET deg == [i \in DOMAIN steps |-> Cardinality(Prerequisites(steps, i))]
            IN  /\ degree' = deg /\ queue' = Ready(deg) /\ order' = <<>>
                /\ phase' = "sorting"
       ELSE /\ degree' = <<>> /\ queue' = <<>>
            /\ order' = [i \in DOMAIN steps |-> i]
            /\ phase' = "sorted"
    /\ UNCHANGED <<replans, confidence>>

-----------------------------------------------------------------------------
(* Kahn's algorithm.                                                       *)

\* Mutant: a successor is released by its first prerequisite.
PopEager ==
       /\ phase = "sorting" /\ queue # <<>>
       /\ LET i == Head(queue)
              waiting == {j \in DOMAIN plan : i \in Prerequisites(plan, j)}
              fresh == {j \in waiting : j \notin Range(order) \cup Range(queue)}
          IN  /\ order' = Append(order, i)
              /\ degree' = degree
              /\ queue' = Tail(queue) \o Ascending(fresh)
       /\ UNCHANGED <<phase, replans, plan, confidence>>

\* One turn of the loop: the steps that only waited for the head join the
\* queue behind those already in it.
Pop == /\ phase = "sorting" /\ queue # <<>>
       /\ LET i == Head(queue)
              waiting == {j \in DOMAIN plan : i \in Prerequisites(plan, j)}
              deg == [j \in DOMAIN plan |->
                         IF j \in waiting THEN degree[j] - 1 ELSE degree[j]]
              fresh == {j \in waiting : deg[j] = 0}
          IN  /\ order' = Append(order, i)
              /\ degree' = deg
              /\ queue' = Tail(queue) \o Ascending(fresh)
       /\ UNCHANGED <<phase, replans, plan, confidence>>

\* The queue has drained: either every step is in order, or a cycle kept some.
Drained == /\ phase = "sorting" /\ queue = <<>>
           /\ phase' = IF Len(order) = Len(plan) THEN "sorted" ELSE "cyclic"
           /\ UNCHANGED <<replans, plan, degree, queue, order, confidence>>

-----------------------------------------------------------------------------
(* Validation, of the steps in execution order.                            *)

Sorted == [i \in DOMAIN order |-> plan[order[i]]]

InScope(s) == /\ s.path # "system"
              /\ s.tool \in {"read_file", "write_file"} => s.path # "alien"

ReadsFirst(steps) ==
    \A i \in DOMAIN steps : steps[i].tool \in Destructive =>
        \E j \in 1..i - 1 : steps[j].tool = "read_file"

WritesOnce(steps) ==
    \A i, j \in DOMAIN steps :
        i < j /\ steps[i].tool \in Writing /\ steps[j].tool \in Writing
            => steps[i].path # steps[j].path

Structure(steps) ==
    /\ Len(steps) \in 1..MaxSteps
    /\ \A i \in DOMAIN steps : steps[i].tool = "none" \/ InScope(steps[i])
    /\ ReadsFirst(steps)
    /\ WritesOnce(steps)

\* validate_dependencies: unique ids, no step waits for itself or for a step
\* that is not there; its own sort cannot fail on steps that are sorted.
Dependencies(steps) ==
    /\ \A i, j \in DOMAIN steps :
          i # j /\ steps[i].id = steps[j].id => steps[i].id = NoId
    /\ \A i \in DOMAIN steps : \A d \in steps[i].deps :
          d # steps[i].id /\ \E j \in DOMAIN steps : steps[j].id = d

Validate ==
    /\ phase = "sorted"
    /\ phase' = IF /\ Structure(Sorted)
                   /\ Annotated(Sorted) => Dependencies(Sorted)
                THEN "valid" ELSE "invalid"
    /\ UNCHANGED <<replans, plan, degree, queue, order, confidence>>

\* validate_tool_call on every step, then the score.
CheckCalls ==
    /\ phase = "valid"
    /\ IF \A i \in DOMAIN plan : plan[i].tool \in Registered \cup {"none"}
       THEN /\ confidence' = ScorePlan(Sorted, replans)
            /\ phase' = "accepted"
       ELSE /\ phase' = "badcall"
            /\ UNCHANGED confidence
    /\ UNCHANGED <<replans, plan, degree, queue, order>>

-----------------------------------------------------------------------------
Plans == UNION {[1..n -> StepOf(Calls)] : n \in 1..PlanSize}

Next == \/ Converse
        \/ Clarify
        \/ Unparsable
        \/ phase = "asked" /\ \E steps \in Plans : Declare(steps)
        \/ Pop
        \/ Drained
        \/ Validate
        \/ CheckCalls

Spec == Init /\ [][Next]_vars

-----------------------------------------------------------------------------
TypeOK == /\ phase \in Ended \cup {"asked", "sorting", "sorted", "valid"}
          /\ replans \in 0..MaxReplans
          /\ Range(plan) \subseteq StepOf(Calls \cup {NoCall})
          /\ Range(queue) \cup Range(order) \subseteq DOMAIN plan
          /\ confidence \in -1..10000

Accepted == phase = "accepted"

\* An accepted plan runs every declared step exactly once, and each after all
\* the steps it depends on, every one of which exists (Planner.plan).
DependenciesRunFirst ==
    Accepted =>
        /\ Len(order) = Len(plan) /\ IsInjective(order)
        /\ \A i \in DOMAIN plan : \A d \in plan[i].deps :
              \E j \in DOMAIN plan :
                 /\ plan[j].id = d
                 /\ \E a, b \in DOMAIN order : a < b /\ order[a] = j /\ order[b] = i

\* In the order an accepted plan runs, which is not the one it was declared in,
\* none of the tools validate_plan knows rewrites a file before something has
\* been read, and no path is written twice by them (validate_plan after the
\* sort).  This says nothing of the writers it does not know: a plan may append
\* to a file it has not read, or append and write to one path.
CheckedWritesAreInformed ==
    Accepted =>
        /\ \A b \in DOMAIN order : plan[order[b]].tool \in Destructive =>
              \E a \in 1..b - 1 : plan[order[a]].tool = "read_file"
        /\ WritesOnce(plan)

\* What the executor is handed has been validated in the order it runs in.
PlansAreSound == DependenciesRunFirst /\ CheckedWritesAreInformed
=============================================================================
