--------------------------- MODULE RepositoryProofs ---------------------------
(*****************************************************************************)
(* Theorems about the code that reads and rewrites a workspace, for all       *)
(* constants within the bounds of MCRepository.  The parts share no variable, *)
(* so each is proved of its own specification, and the last section says it   *)
(* of the composition the run checks:                                        *)
(*   the planner       a plan's steps run after all they depend on;           *)
(*   the symbol index  a lookup finds what the workspace defines, and only    *)
(*                     what raced or changed behind it is out of date;        *)
(*   the verification  what a verdict says is what git and the tests said;    *)
(*   the prompts       what is sent fits the context window;                  *)
(*   the retrieval     ranking, neighbours and budget of the context.         *)
(*****************************************************************************)
EXTENDS MCRepository, FunctionTheorems, FiniteSetTheorems, SequenceTheorems,
        WellFoundedInduction, TLAPS

-----------------------------------------------------------------------------
(* What the parts count and order.                                           *)

LEMMA PlannerCounts == \A S : Planner!Cardinality(S) = Cardinality(S)
BY DEF Planner!Cardinality, Cardinality

LEMMA DefinitionsCounts == \A S : Definitions!Cardinality(S) = Cardinality(S)
BY DEF Definitions!Cardinality, Cardinality

LEMMA VerifierCounts == \A S : Verifier!Cardinality(S) = Cardinality(S)
BY DEF Verifier!Cardinality, Cardinality

LEMMA RetrieverCounts == \A S : Retriever!Cardinality(S) = Cardinality(S)
BY DEF Retriever!Cardinality, Cardinality

\* A finite set of integers has a greatest.
LEMMA Greatest ==
  ASSUME NEW S \in SUBSET Int, IsFiniteSet(S), S # {}
  PROVE  \E x \in S : \A y \in S : x >= y
<1>. DEFINE Over(x) == {y \in S : y > x}
            T == {Over(x) : x \in S}
<1>1. T \subseteq FiniteSubsetsOf(S) /\ T # {}
  <2>1. \A x \in S : Over(x) \in SUBSET S
    OBVIOUS
  <2>2. T \subseteq SUBSET S
    BY <2>1
  <2>3. T # {}
    OBVIOUS
  <2>. QED BY <2>2, <2>3, FS_FiniteSubsetsOfFinite
<1>2. PICK U \in T : \A V \in T : <<V, U>> \notin StrictSubsetOrdering(S)
  BY <1>1, FS_StrictSubsetOrderingWellFounded, WFMin
<1>3. PICK x \in S : U = Over(x)
  BY <1>2
<1>4. ASSUME NEW y \in S, y > x PROVE FALSE
  <2>1. Over(y) \subseteq Over(x) /\ y \in Over(x) /\ y \notin Over(y)
    <3>1. \A z \in Int : z > y => z > x
      BY <1>4
    <3>2. ~(y > y)
      OBVIOUS
    <3>. QED BY <1>4, <3>1, <3>2, Zenon
  <2>2. <<Over(y), Over(x)>> \in StrictSubsetOrdering(S)
    BY <2>1 DEF StrictSubsetOrdering
  <2>. QED BY <2>2, <1>2, <1>3
<1>5. \A y \in S : x >= y
  BY <1>4
<1>. QED BY <1>5

\* R orders the members of D, and any two of them.
OrderOf(D, R) == /\ \A f, g \in D : f # g => <<f, g>> \in R \/ <<g, f>> \in R
                 /\ \A f, g \in D : ~(<<f, g>> \in R /\ <<g, f>> \in R)
                 /\ \A f, g, h \in D : <<f, g>> \in R /\ <<g, h>> \in R => <<f, h>> \in R
RankIn(D, R, f) == Cardinality({g \in D : <<g, f>> \in R})

\* In a finite set that is totally ordered, the members have as many others
\* before them as there are numbers below its size.
LEMMA Ranks ==
  ASSUME NEW D, IsFiniteSet(D), NEW R, OrderOf(D, R)
  PROVE  /\ Cardinality(D) \in Nat
         /\ \A f \in D : RankIn(D, R, f) \in 0 .. Cardinality(D) - 1
         /\ \A f, g \in D : <<f, g>> \in R => RankIn(D, R, f) < RankIn(D, R, g)
         /\ \A f, g \in D : RankIn(D, R, f) = RankIn(D, R, g) => f = g
         /\ \A k \in 1 .. Cardinality(D) : \E f \in D : RankIn(D, R, f) = k - 1
<1>. USE DEF OrderOf
<1>. DEFINE Over(f) == {g \in D : <<g, f>> \in R}
            rank == [f \in D |-> Cardinality(Over(f))]
            n == Cardinality(D)
<1>1. n \in Nat
  BY FS_CardinalityType
<1>2. \A f \in D : IsFiniteSet(Over(f)) /\ rank[f] \in Nat /\ rank[f] < n
  <2>. SUFFICES ASSUME NEW f \in D PROVE IsFiniteSet(Over(f)) /\ rank[f] \in Nat /\ rank[f] < n
    OBVIOUS
  <2>1. Over(f) \in SUBSET D /\ f \notin Over(f)
    OBVIOUS
  <2>2. /\ IsFiniteSet(Over(f)) /\ Cardinality(Over(f)) <= n
        /\ n = Cardinality(Over(f)) => D = Over(f)
    BY <1>1, <2>1, FS_Subset
  <2>3. Cardinality(Over(f)) \in Nat
    BY <2>2, FS_CardinalityType
  <2>. QED BY <1>1, <2>1, <2>2, <2>3
<1>3. \A f, g \in D : <<f, g>> \in R => rank[f] < rank[g]
  <2>. SUFFICES ASSUME NEW f \in D, NEW g \in D, <<f, g>> \in R PROVE rank[f] < rank[g]
    OBVIOUS
  <2>1. Over(f) \in SUBSET Over(g) /\ f \in Over(g) /\ f \notin Over(f)
    OBVIOUS
  <2>2. Cardinality(Over(f)) <= Cardinality(Over(g)) /\ Cardinality(Over(f)) # Cardinality(Over(g))
    BY <1>2, <2>1, FS_Subset
  <2>3. rank[f] = Cardinality(Over(f)) /\ rank[g] = Cardinality(Over(g))
    OBVIOUS
  <2>. HIDE DEF Over, rank, n
  <2>. QED BY <1>2, <2>2, <2>3
<1>4. \A f \in D : rank[f] = Cardinality(Over(f))
  OBVIOUS
<1>. HIDE DEF Over, rank
<1>5. \A f \in D : rank[f] \in 0 .. n - 1
  <2>. HIDE DEF n
  <2>. QED BY <1>1, <1>2
<1>6. rank \in [D -> 0 .. n - 1]
  BY <1>5 DEF rank
<1>7. \A f, g \in D : rank[f] = rank[g] => f = g
  <2>. SUFFICES ASSUME NEW f \in D, NEW g \in D, rank[f] = rank[g], f # g PROVE FALSE
    OBVIOUS
  <2>1. rank[f] < rank[g] \/ rank[g] < rank[f]
    BY <1>3
  <2>. QED BY <1>2, <2>1
<1>8. rank \in Injection(D, 0 .. n - 1)
  BY <1>6, <1>7, Fun_IsInj
<1>9. IsFiniteSet(0 .. n - 1) /\ Cardinality(0 .. n - 1) = n
  BY <1>1, FS_Interval
<1>10. rank \in Surjection(D, 0 .. n - 1)
  BY <1>8, <1>9, FS_Injection
<1>11. \A r \in 0 .. n - 1 : \E f \in D : rank[f] = r
  BY <1>10 DEF Surjection
<1>12. \A k \in 1 .. n : \E f \in D : rank[f] = k - 1
  <2>. SUFFICES ASSUME NEW k \in 1 .. n PROVE \E f \in D : rank[f] = k - 1
    OBVIOUS
  <2>1. k - 1 \in 0 .. n - 1
    BY <1>1
  <2>. QED BY <1>11, <2>1
<1>13. \A k \in 1 .. n : \E f \in D : Cardinality(Over(f)) = k - 1
  BY <1>4, <1>12
<1>14. /\ \A f \in D : Cardinality(Over(f)) \in 0 .. n - 1
       /\ \A f, g \in D : <<f, g>> \in R => Cardinality(Over(f)) < Cardinality(Over(g))
       /\ \A f, g \in D : Cardinality(Over(f)) = Cardinality(Over(g)) => f = g
  BY <1>3, <1>4, <1>5, <1>7
<1>15. \A f : RankIn(D, R, f) = Cardinality(Over(f))
  BY DEF RankIn, Over
<1>. QED BY <1>1, <1>13, <1>14, <1>15

-----------------------------------------------------------------------------
(* The planner.                                                              *)

LEMMA LastOfSteps ==
  ASSUME NEW S \in SUBSET Int, IsFiniteSet(S), S # {}
  PROVE  Planner!Max(S) \in S /\ \A y \in S : Planner!Max(S) >= y
BY Greatest DEF Planner!Max

\* Ascending lists members of the set, none twice.
LEMMA Listed ==
  ASSUME NEW n \in Nat, NEW S \in SUBSET (1 .. n)
  PROVE  /\ IsFiniteSet(S)
         /\ Planner!Ascending(S) \in Seq(S)
         /\ Planner!Ascending(S) \in [1 .. Planner!Cardinality(S) -> S]
         /\ Len(Planner!Ascending(S)) = Planner!Cardinality(S)
         /\ \A k, l \in 1 .. Planner!Cardinality(S) :
              Planner!Ascending(S)[k] = Planner!Ascending(S)[l] => k = l
<1>. DEFINE R == {e \in S \X S : e[1] < e[2]}
            size == Planner!Cardinality(S)
            member(k) == CHOOSE i \in S : Planner!Cardinality({j \in S : j < i}) = k - 1
<1>1. IsFiniteSet(S)
  <2>1. IsFiniteSet(1 .. n)
    BY PlannerCounts, FS_Interval
  <2>. QED BY <2>1, PlannerCounts, FS_Subset
<1>2. \A i, j \in S : <<i, j>> \in R <=> i < j
  OBVIOUS
<1>3. \A i \in S : RankIn(S, R, i) = Planner!Cardinality({j \in S : j < i})
  <2>. SUFFICES ASSUME NEW i \in S PROVE {j \in S : <<j, i>> \in R} = {j \in S : j < i}
    BY PlannerCounts DEF RankIn
  <2>. QED BY <1>2
<1>4. OrderOf(S, R)
  <2>1. \A i, j \in S : i # j => i < j \/ j < i
    OBVIOUS
  <2>2. \A i, j \in S : ~(i < j /\ j < i)
    OBVIOUS
  <2>3. \A i, j, k \in S : i < j /\ j < k => i < k
    OBVIOUS
  <2>. HIDE DEF R
  <2>. QED BY <1>2, <2>1, <2>2, <2>3, Zenon DEF OrderOf
<1>. HIDE DEF R, size
<1>5. size \in Nat /\ \A k \in 1 .. size : \E i \in S : RankIn(S, R, i) = k - 1
  BY <1>1, <1>4, PlannerCounts, Ranks DEF size
<1>6. \A k \in 1 .. size : member(k) \in S /\ Planner!Cardinality({j \in S : j < member(k)}) = k - 1
  <2>. SUFFICES ASSUME NEW k \in 1 .. size
                PROVE  member(k) \in S /\ Planner!Cardinality({j \in S : j < member(k)}) = k - 1
    OBVIOUS
  <2>1. \E i \in S : Planner!Cardinality({j \in S : j < i}) = k - 1
    BY <1>3, <1>5
  <2>. QED BY <2>1
<1>7. Planner!Ascending(S) = [k \in 1 .. size |-> member(k)]
  BY DEF Planner!Ascending, size
<1>. HIDE DEF member
<1>8. Planner!Ascending(S) \in [1 .. size -> S] /\ \A k \in 1 .. size :
        Planner!Ascending(S)[k] = member(k)
  BY <1>6, <1>7
<1>9. Planner!Ascending(S) \in Seq(S) /\ Len(Planner!Ascending(S)) = size
  BY <1>5, <1>8
<1>10. \A k, l \in 1 .. size : Planner!Ascending(S)[k] = Planner!Ascending(S)[l] => k = l
  <2>. SUFFICES ASSUME NEW k \in 1 .. size, NEW l \in 1 .. size,
                       Planner!Ascending(S)[k] = Planner!Ascending(S)[l]
                PROVE  k = l
    OBVIOUS
  <2>1. k - 1 = l - 1
    BY <1>6, <1>8
  <2>. QED BY <1>5, <2>1
<1>. QED BY <1>1, <1>8, <1>9, <1>10 DEF size

\* The steps an order has taken up have all they wait for before them.
Chained ==
    /\ order \in Seq(DOMAIN plan)
    /\ \A k, l \in DOMAIN order : order[k] = order[l] => k = l
    /\ \A k \in DOMAIN order : \A j \in Planner!Prerequisites(plan, order[k]) :
          \E l \in 1 .. k - 1 : order[l] = j

\* A step is queued once, when nothing it waits for is still to come.
Queued ==
    /\ degree = [i \in DOMAIN plan |-> Planner!Cardinality(Planner!Prerequisites(plan, i) \ Planner!Range(order))]
    /\ queue \in Seq(DOMAIN plan)
    /\ \A k, l \in DOMAIN queue : queue[k] = queue[l] => k = l
    /\ \A k \in DOMAIN queue : /\ queue[k] \notin Planner!Range(order)
                               /\ Planner!Prerequisites(plan, queue[k]) \subseteq Planner!Range(order)

PlanInv ==
    /\ pPhase \in {"sorting", "sorted", "valid", "accepted"} =>
          plan \in Seq(Planner!StepOf(Calls)) /\ Chained
    /\ pPhase = "sorting" => Queued
    /\ pPhase \in {"sorted", "valid", "accepted"} => Len(order) = Len(plan)
    /\ pPhase \in {"valid", "accepted"} =>
          Planner!Structure(Planner!Sorted) /\
            (Planner!Annotated(Planner!Sorted) => Planner!Dependencies(Planner!Sorted))

\* What a step waits for are steps of the plan.
LEMMA StepsOfPlan ==
  ASSUME NEW steps \in Seq(Planner!StepOf(Calls)), NEW i \in DOMAIN steps
  PROVE  /\ Planner!Prerequisites(steps, i) \in SUBSET DOMAIN steps
         /\ IsFiniteSet(Planner!Prerequisites(steps, i))
         /\ \A d \in steps[i].deps : \A k \in DOMAIN steps : steps[k].id = d =>
               \E j \in Planner!Prerequisites(steps, i) : steps[j].id = d
<1>1. DOMAIN steps = 1 .. Len(steps) /\ Len(steps) \in Nat /\ IsFiniteSet(DOMAIN steps)
  BY PlannerCounts, FS_Interval
<1>2. ASSUME NEW d, NEW j \in Planner!IndexOf(steps, d)
      PROVE  j \in DOMAIN steps /\ steps[j].id = d
  <2>. DEFINE named == {k \in DOMAIN steps : steps[k].id = d}
  <2>1. named # {} /\ j = Planner!Max(named)
    BY <1>2 DEF Planner!IndexOf
  <2>2. named \in SUBSET Int /\ IsFiniteSet(named)
    BY <1>1, PlannerCounts, FS_Subset
  <2>3. j \in named
    BY <2>1, <2>2, LastOfSteps
  <2>. QED BY <2>3
<1>3. Planner!Prerequisites(steps, i) \in SUBSET DOMAIN steps
  BY <1>2 DEF Planner!Prerequisites
<1>4. ASSUME NEW d \in steps[i].deps, NEW k \in DOMAIN steps, steps[k].id = d
      PROVE  \E j \in Planner!Prerequisites(steps, i) : steps[j].id = d
  <2>1. PICK j : j \in Planner!IndexOf(steps, d)
    BY <1>4 DEF Planner!IndexOf
  <2>2. j \in Planner!Prerequisites(steps, i)
    BY <2>1, <1>4 DEF Planner!Prerequisites
  <2>. QED BY <2>1, <2>2, <1>2
<1>. QED BY <1>1, <1>3, <1>4, PlannerCounts, FS_Subset

LEMMA DeclareHolds ==
  ASSUME PlannerBounds, NEW steps \in Planner!Plans, Planner!Declare(steps)
  PROVE  PlanInv'
<1>. USE DEF Planner!Declare
<1>1. steps \in Seq(Planner!StepOf(Calls)) /\ DOMAIN steps = 1 .. Len(steps) /\ Len(steps) \in Nat
  BY DEF Planner!Plans, PlannerBounds
<1>2. CASE Planner!Annotated(steps)
  <2>. DEFINE deg == [i \in DOMAIN steps |-> Planner!Cardinality(Planner!Prerequisites(steps, i))]
              ready == {i \in DOMAIN deg : deg[i] = 0}
  <2>1. degree' = deg /\ queue' = Planner!Ascending(ready) /\ order' = <<>> /\ pPhase' = "sorting"
        /\ plan' = steps
    BY <1>2 DEF Planner!Ready
  <2>2. ready \in SUBSET (1 .. Len(steps))
    BY <1>1
  <2>3. /\ Planner!Ascending(ready) \in Seq(ready) /\
             DOMAIN Planner!Ascending(ready) = 1 .. Planner!Cardinality(ready)
        /\ \A k, l \in 1 .. Planner!Cardinality(ready) :
             Planner!Ascending(ready)[k] = Planner!Ascending(ready)[l] => k = l
    BY <1>1, <2>2, Listed
  <2>4. ASSUME NEW i \in ready PROVE Planner!Prerequisites(steps, i) = {}
    <3>1. i \in DOMAIN steps /\ Planner!Cardinality(Planner!Prerequisites(steps, i)) = 0
      OBVIOUS
    <3>. QED BY <1>1, <3>1, StepsOfPlan, PlannerCounts, FS_EmptySet
  <2>5. Planner!Range(order') = {}
    BY <2>1 DEF Planner!Range
  <2>6. degree' = [i \in DOMAIN plan' |-> Planner!Cardinality(Planner!Prerequisites(plan', i) \ Planner!Range(order'))]
    <3>1. \A i \in DOMAIN steps :
            Planner!Prerequisites(steps, i) \ {} = Planner!Prerequisites(steps, i)
      OBVIOUS
    <3>. QED BY <2>1, <2>5, <3>1
  <2>7. queue' \in Seq(ready)
    BY <2>1, <2>3
  <2>8. queue' \in Seq(DOMAIN plan') /\ \A k \in DOMAIN queue' : queue'[k] \in ready
    <3>. HIDE DEF ready
    <3>. QED BY <1>1, <2>1, <2>2, <2>7, ElementOfSeq, SeqMonotonic, LenProperties
  <2>9. Queued'
    BY <2>1, <2>3, <2>4, <2>5, <2>6, <2>8 DEF Queued
  <2>10. Chained'
    BY <2>1 DEF Chained
  <2>. QED BY <1>1, <2>1, <2>9, <2>10 DEF PlanInv
<1>3. CASE ~Planner!Annotated(steps)
  <2>1. order' = [i \in DOMAIN steps |-> i] /\ pPhase' = "sorted" /\ plan' = steps
    BY <1>3
  <2>2. \A i \in DOMAIN steps : Planner!Prerequisites(steps, i) = {}
    BY <1>3 DEF Planner!Annotated, Planner!Prerequisites
  <2>3. order' \in Seq(DOMAIN steps) /\ Len(order') = Len(steps) /\ DOMAIN order' = DOMAIN steps
    BY <1>1, <2>1
  <2>4. Chained'
    BY <2>1, <2>2, <2>3 DEF Chained
  <2>. QED BY <1>1, <2>1, <2>3, <2>4 DEF PlanInv
<1>. QED BY <1>2, <1>3

LEMMA PopHolds ==
  ASSUME PlanInv, Planner!Pop
  PROVE  PlanInv'
<1>. DEFINE i == Head(queue)
            waiting == {j \in DOMAIN plan : i \in Planner!Prerequisites(plan, j)}
            deg == [j \in DOMAIN plan |-> IF j \in waiting THEN degree[j] - 1 ELSE degree[j]]
            fresh == {j \in waiting : deg[j] = 0}
<1>1. /\ pPhase = "sorting" /\ queue # <<>> /\ pPhase' = pPhase /\ plan' = plan
      /\ order' = Append(order, i) /\ degree' = deg /\
           queue' = Tail(queue) \o Planner!Ascending(fresh)
  BY DEF Planner!Pop
<1>2. plan \in Seq(Planner!StepOf(Calls)) /\ Chained /\ Queued
  BY <1>1 DEF PlanInv
<1>3. DOMAIN plan = 1 .. Len(plan) /\ Len(plan) \in Nat
  BY <1>2
<1>4. queue \in Seq(DOMAIN plan) /\ order \in Seq(DOMAIN plan)
  BY <1>2 DEF Queued, Chained
<1>5. i \in DOMAIN plan /\ 1 \in DOMAIN queue /\ i = queue[1]
  BY <1>1, <1>4
<1>6. i \notin Planner!Range(order) /\ Planner!Prerequisites(plan, i) \subseteq Planner!Range(order)
  BY <1>2, <1>5 DEF Queued
<1>7. /\ order' \in Seq(DOMAIN plan) /\ Len(order') = Len(order) + 1
      /\ order'[Len(order) + 1] = i /\ \A k \in DOMAIN order : order'[k] = order[k]
      /\ DOMAIN order = 1 .. Len(order) /\ Len(order) \in Nat
      /\ DOMAIN order' = 1 .. Len(order) + 1
  BY <1>1, <1>4, <1>5
<1>8. Planner!Range(order') = Planner!Range(order) \cup {i}
  <2>1. \A k \in DOMAIN order' : k \in DOMAIN order \/ k = Len(order) + 1
    BY <1>7
  <2>2. DOMAIN order \subseteq DOMAIN order' /\ Len(order) + 1 \in DOMAIN order'
    BY <1>7
  <2>. QED BY <1>7, <2>1, <2>2 DEF Planner!Range
<1>9. Chained'
  <2>1. \A k, l \in DOMAIN order' : order'[k] = order'[l] => k = l
    <3>1. \A k \in DOMAIN order : order[k] # i
      BY <1>6 DEF Planner!Range
    <3>2. \A k \in DOMAIN order' : \/ k \in DOMAIN order /\ order'[k] = order[k]
                                   \/ k = Len(order) + 1 /\ order'[k] = i
      BY <1>7
    <3>3. \A k, l \in DOMAIN order : order[k] = order[l] => k = l
      BY <1>2 DEF Chained
    <3>. HIDE DEF i
    <3>. QED BY <3>1, <3>2, <3>3
  <2>2. ASSUME NEW k \in DOMAIN order', NEW j \in Planner!Prerequisites(plan, order'[k])
        PROVE  \E l \in 1 .. k - 1 : order'[l] = j
    <3>1. CASE k \in DOMAIN order
      <4>1. PICK l \in 1 .. k - 1 : order[l] = j
        BY <1>2, <1>7, <2>2, <3>1 DEF Chained
      <4>. QED BY <1>7, <3>1, <4>1
    <3>2. CASE k = Len(order) + 1
      <4>1. PICK l \in DOMAIN order : order[l] = j
        BY <1>6, <1>7, <2>2, <3>2 DEF Planner!Range
      <4>. QED BY <1>7, <3>2, <4>1
    <3>. QED BY <1>7, <3>1, <3>2
  <2>. QED BY <1>1, <1>7, <2>1, <2>2 DEF Chained
<1>10. ASSUME NEW j \in DOMAIN plan
       PROVE  /\ IsFiniteSet(Planner!Prerequisites(plan, j) \ Planner!Range(order'))
              /\ deg[j] = Planner!Cardinality(Planner!Prerequisites(plan, j) \ Planner!Range(order'))
  <2>. DEFINE open == Planner!Prerequisites(plan, j) \ Planner!Range(order)
  <2>1. IsFiniteSet(Planner!Prerequisites(plan, j))
    BY <1>2, StepsOfPlan
  <2>2. IsFiniteSet(open) /\ degree[j] = Planner!Cardinality(open)
    BY <1>2, <2>1, PlannerCounts, FS_Subset DEF Queued
  <2>3. Planner!Prerequisites(plan, j) \ Planner!Range(order') = open \ {i}
    BY <1>8
  <2>4. j \in waiting <=> i \in open
    BY <1>6
  <2>5. /\ IsFiniteSet(open \ {i})
        /\ Planner!Cardinality(open \ {i}) = IF i \in open THEN Planner!Cardinality(open) - 1 ELSE Planner!Cardinality(open)
    BY <2>2, PlannerCounts, FS_RemoveElement
  <2>6. deg[j] = IF j \in waiting THEN degree[j] - 1 ELSE degree[j]
    OBVIOUS
  <2>. HIDE DEF open, waiting, deg
  <2>. QED BY <2>2, <2>3, <2>4, <2>5, <2>6
<1>11. ASSUME NEW j \in fresh
       PROVE  /\ j \in DOMAIN plan /\ Planner!Prerequisites(plan, j) \subseteq Planner!Range(order')
              /\ j \notin Planner!Range(order') /\ j \notin Planner!Range(queue)
  <2>1. j \in DOMAIN plan /\ i \in Planner!Prerequisites(plan, j) /\ deg[j] = 0
    OBVIOUS
  <2>2. Planner!Prerequisites(plan, j) \ Planner!Range(order') = {}
    BY <1>10, <2>1, PlannerCounts, FS_EmptySet
  <2>3. j \notin Planner!Range(queue)
    <3>. SUFFICES ASSUME NEW k \in DOMAIN queue, queue[k] = j PROVE FALSE
      BY DEF Planner!Range
    <3>1. Planner!Prerequisites(plan, j) \subseteq Planner!Range(order)
      BY <1>2 DEF Queued
    <3>. QED BY <1>6, <2>1, <3>1
  <2>4. j \notin Planner!Range(order)
    <3>. SUFFICES ASSUME NEW k \in DOMAIN order, order[k] = j PROVE FALSE
      BY DEF Planner!Range
    <3>1. PICK l \in 1 .. k - 1 : order[l] = i
      BY <1>2, <2>1 DEF Chained
    <3>2. l \in DOMAIN order
      BY <1>7, <3>1
    <3>. QED BY <1>6, <3>1, <3>2 DEF Planner!Range
  <2>5. j # i
    BY <1>5, <2>3 DEF Planner!Range
  <2>. QED BY <1>8, <2>1, <2>2, <2>3, <2>4, <2>5
<1>. DEFINE added == Planner!Ascending(fresh)
            rest == Tail(queue)
            m == Planner!Cardinality(fresh)
            q == Len(queue)
<1>12. /\ added \in Seq(fresh) /\ Len(added) = m /\ m \in Nat
       /\ \A k, l \in 1 .. m : added[k] = added[l] => k = l
       /\ \A k \in 1 .. m : added[k] \in fresh
  <2>1. fresh \in SUBSET (1 .. Len(plan))
    BY <1>3
  <2>2. /\ IsFiniteSet(fresh) /\ added \in Seq(fresh) /\ added \in [1 .. m -> fresh] /\
             Len(added) = m
        /\ \A k, l \in 1 .. m : added[k] = added[l] => k = l
    BY <1>3, <2>1, Listed
  <2>3. m \in Nat
    BY <2>2, PlannerCounts, FS_CardinalityType
  <2>. HIDE DEF fresh, added
  <2>. QED BY <2>2, <2>3
<1>13. /\ rest \in Seq(DOMAIN plan) /\ q \in Nat /\ Len(rest) = q - 1
       /\ \A k \in 1 .. q - 1 : rest[k] = queue[k + 1] /\ k + 1 \in DOMAIN queue
  BY <1>1, <1>4
<1>14. added \in Seq(DOMAIN plan)
  <2>1. fresh \subseteq DOMAIN plan
    OBVIOUS
  <2>. HIDE DEF fresh, added
  <2>. QED BY <1>12, <2>1, SeqMonotonic
<1>. HIDE DEF fresh, added, rest, m, q, i, deg, waiting
<1>15. /\ queue' \in Seq(DOMAIN plan) /\ DOMAIN queue' = 1 .. (q - 1) + m
       /\ \A k \in 1 .. (q - 1) + m : queue'[k] = IF k <= q - 1 THEN rest[k] ELSE added[k - (q - 1)]
  <2>1. queue' = rest \o added
    BY <1>1 DEF rest, added
  <2>2. /\ queue' \in Seq(DOMAIN plan) /\ Len(queue') = (q - 1) + m
        /\ \A k \in 1 .. (q - 1) + m :
             queue'[k] = IF k <= q - 1 THEN rest[k] ELSE added[k - (q - 1)]
    <3>1. Len(rest) = q - 1 /\ Len(added) = m
      BY <1>12, <1>13
    <3>2. /\ rest \o added \in Seq(DOMAIN plan) /\ Len(rest \o added) = Len(rest) + Len(added)
          /\ \A k \in 1 .. Len(rest) + Len(added) : (rest \o added)[k] =
                IF k <= Len(rest) THEN rest[k] ELSE added[k - Len(rest)]
      BY <1>13, <1>14, ConcatProperties
    <3>. QED BY <2>1, <3>1, <3>2
  <2>. QED BY <2>2
<1>16. \A k \in DOMAIN queue' :
          \/ k \in 1 .. q - 1 /\ k + 1 \in DOMAIN queue /\ queue'[k] = queue[k + 1]
          \/ k - (q - 1) \in 1 .. m /\ queue'[k] = added[k - (q - 1)] /\ queue'[k] \in fresh
             /\ ~(k \in 1 .. q - 1)
  <2>. SUFFICES ASSUME NEW k \in DOMAIN queue'
                PROVE  \/ k \in 1 .. q - 1 /\ k + 1 \in DOMAIN queue /\ queue'[k] = queue[k + 1]
                       \/ k - (q - 1) \in 1 .. m /\ queue'[k] = added[k - (q - 1)]
                          /\ queue'[k] \in fresh /\ ~(k \in 1 .. q - 1)
    OBVIOUS
  <2>1. k \in Int /\ 1 <= k /\ k <= (q - 1) + m
    BY <1>12, <1>13, <1>15
  <2>2. queue'[k] = IF k <= q - 1 THEN rest[k] ELSE added[k - (q - 1)]
    BY <1>15
  <2>3. CASE k <= q - 1
    <3>1. k \in 1 .. q - 1
      BY <1>13, <2>1, <2>3
    <3>. QED BY <1>13, <2>2, <2>3, <3>1
  <2>4. CASE ~(k <= q - 1)
    <3>1. k - (q - 1) \in 1 .. m /\ k \notin 1 .. q - 1
      BY <1>12, <1>13, <2>1, <2>4
    <3>2. queue'[k] = added[k - (q - 1)]
      BY <2>2, <2>4
    <3>3. added[k - (q - 1)] \in fresh
      BY <1>12, <3>1
    <3>. QED BY <3>1, <3>2, <3>3
  <2>. QED BY <2>3, <2>4
<1>17. ASSUME NEW k \in DOMAIN queue'
       PROVE  queue'[k] \notin Planner!Range(order') /\
                Planner!Prerequisites(plan, queue'[k]) \subseteq Planner!Range(order')
  <2>1. CASE k \in 1 .. q - 1 /\ k + 1 \in DOMAIN queue /\ queue'[k] = queue[k + 1]
    <3>1. queue[k + 1] # i
      BY <1>2, <1>5, <2>1 DEF Queued
    <3>. QED BY <1>2, <1>8, <2>1, <3>1 DEF Queued
  <2>2. CASE queue'[k] \in fresh
    BY <1>11, <2>2
  <2>. QED BY <1>16, <2>1, <2>2
<1>18. ASSUME NEW k \in DOMAIN queue', NEW l \in DOMAIN queue', queue'[k] = queue'[l]
       PROVE  k = l
  <2>1. k \in Int /\ l \in Int /\ q \in Int
    BY <1>13, <1>15, <1>12
  <2>2. CASE k \in 1 .. q - 1 /\ l \in 1 .. q - 1
    <3>1. queue[k + 1] = queue[l + 1] /\ k + 1 \in DOMAIN queue /\ l + 1 \in DOMAIN queue
      BY <1>18, <1>16, <2>2
    <3>2. k + 1 = l + 1
      BY <1>2, <3>1 DEF Queued
    <3>. QED BY <2>1, <3>2
  <2>3. CASE k \notin 1 .. q - 1 /\ l \notin 1 .. q - 1
    <3>1. k - (q - 1) = l - (q - 1)
      BY <1>18, <1>16, <1>12, <2>3
    <3>. QED BY <2>1, <3>1
  <2>4. ASSUME NEW x \in DOMAIN queue, queue[x] \in fresh PROVE FALSE
    BY <1>11, <2>4 DEF Planner!Range
  <2>. QED BY <1>16, <1>18, <2>2, <2>3, <2>4
<1>19. Queued'
  <2>1. degree' = [j \in DOMAIN plan' |-> Planner!Cardinality(Planner!Prerequisites(plan', j) \ Planner!Range(order'))]
    BY <1>1, <1>10 DEF deg
  <2>. QED BY <1>1, <1>15, <1>17, <1>18, <2>1 DEF Queued
<1>. QED BY <1>1, <1>2, <1>9, <1>19 DEF PlanInv

\* The inductive invariant of the planner: an unchecked plan says nothing yet,
\* a refused one has no order, and a checked one is a bijection onto its steps
\* whose prefix that is out keeps every dependency (plan_validator,
\* dependency_graph.topological_sort).
THEOREM PlanInductive ==
  ASSUME PlannerBounds
  PROVE  Planner!Spec => []PlanInv
<1>1. Planner!Init => PlanInv
  BY DEF Planner!Init, PlanInv
<1>2. ASSUME PlanInv, [Planner!Next]_(Planner!vars) PROVE PlanInv'
  <2>1. CASE UNCHANGED Planner!vars
    BY <1>2, <2>1 DEF Planner!vars, PlanInv, Chained, Queued, Planner!Sorted
  <2>2. CASE Planner!Converse \/ Planner!Clarify \/ Planner!Unparsable
    BY <2>2 DEF Planner!Converse, Planner!Clarify, Planner!Unparsable, PlanInv
  <2>3. CASE pPhase = "asked" /\ \E steps \in Planner!Plans : Planner!Declare(steps)
    BY <2>3, DeclareHolds
  <2>4. CASE Planner!Pop
    BY <1>2, <2>4, PopHolds
  <2>5. CASE Planner!Drained
    BY <1>2, <2>5 DEF Planner!Drained, PlanInv, Chained
  <2>6. CASE Planner!Validate
    BY <1>2, <2>6 DEF Planner!Validate, PlanInv, Chained, Planner!Sorted
  <2>7. CASE Planner!CheckCalls
    BY <1>2, <2>7 DEF Planner!CheckCalls, PlanInv, Chained, Planner!Sorted
  <2>. QED BY <1>2, <2>1, <2>2, <2>3, <2>4, <2>5, <2>6, <2>7 DEF Planner!Next
<1>. QED BY <1>1, <1>2, PTL DEF Planner!Spec

LEMMA SoundWhenAccepted ==
  ASSUME PlanInv
  PROVE  Planner!PlansAreSound
<1>. SUFFICES ASSUME pPhase = "accepted" PROVE Planner!PlansAreSound
  BY DEF Planner!PlansAreSound, Planner!DependenciesRunFirst, Planner!CheckedWritesAreInformed,
  Planner!Accepted
<1>1. /\ plan \in Seq(Planner!StepOf(Calls)) /\ Chained /\ Len(order) = Len(plan)
      /\ Planner!Structure(Planner!Sorted) /\
           (Planner!Annotated(Planner!Sorted) => Planner!Dependencies(Planner!Sorted))
  BY DEF PlanInv
<1>2. /\ DOMAIN plan = 1 .. Len(plan) /\ Len(plan) \in Nat
      /\ order \in [DOMAIN plan -> DOMAIN plan] /\ DOMAIN order = DOMAIN plan
  BY <1>1 DEF Chained
<1>3. \A i \in DOMAIN plan : \E k \in DOMAIN order : order[k] = i
  <2>1. IsFiniteSet(DOMAIN plan)
    BY <1>2, PlannerCounts, FS_Interval
  <2>2. order \in Injection(DOMAIN plan, DOMAIN plan)
    BY <1>1, <1>2, Fun_IsInj DEF Chained
  <2>3. order \in Surjection(DOMAIN plan, DOMAIN plan)
    BY <2>1, <2>2, PlannerCounts, FS_Injection
  <2>. QED BY <1>2, <2>3 DEF Surjection
<1>4. DOMAIN Planner!Sorted = DOMAIN order /\ \A k \in DOMAIN order :
        Planner!Sorted[k] = plan[order[k]]
  BY DEF Planner!Sorted
<1>5. Planner!IsInjective(order)
  BY <1>1 DEF Chained, Planner!IsInjective
<1>6. ASSUME NEW i \in DOMAIN plan, NEW d \in plan[i].deps
      PROVE  \E j \in DOMAIN plan :
                /\ plan[j].id = d
                /\ \E a, b \in DOMAIN order : a < b /\ order[a] = j /\ order[b] = i
  <2>1. PICK k \in DOMAIN order : order[k] = i
    BY <1>3
  <2>2. Planner!Annotated(Planner!Sorted)
    BY <1>4, <1>6, <2>1 DEF Planner!Annotated
  <2>3. PICK l \in DOMAIN Planner!Sorted : Planner!Sorted[l].id = d
    BY <1>1, <1>4, <1>6, <2>1, <2>2 DEF Planner!Dependencies
  <2>4. order[l] \in DOMAIN plan /\ plan[order[l]].id = d
    BY <1>2, <1>4, <2>3
  <2>5. PICK j \in Planner!Prerequisites(plan, i) : plan[j].id = d
    BY <1>1, <1>6, <2>4, StepsOfPlan
  <2>6. j \in DOMAIN plan
    BY <1>1, <1>6, StepsOfPlan
  <2>7. PICK p \in 1 .. k - 1 : order[p] = j
    BY <1>1, <2>1, <2>5 DEF Chained
  <2>8. p \in DOMAIN order /\ p < k
    BY <1>2, <2>1, <2>7
  <2>. QED BY <2>1, <2>5, <2>6, <2>7, <2>8
<1>7. Planner!DependenciesRunFirst
  BY <1>1, <1>5, <1>6 DEF Planner!DependenciesRunFirst
<1>8. ASSUME NEW b \in DOMAIN order, plan[order[b]].tool \in Planner!Destructive
      PROVE  \E a \in 1 .. b - 1 : plan[order[a]].tool = "read_file"
  <2>1. PICK a \in 1 .. b - 1 : Planner!Sorted[a].tool = "read_file"
    BY <1>1, <1>4, <1>8 DEF Planner!Structure, Planner!ReadsFirst
  <2>2. a \in DOMAIN order
    BY <1>2, <2>1
  <2>. QED BY <1>4, <2>1, <2>2
<1>9. Planner!WritesOnce(plan)
  <2>. SUFFICES ASSUME NEW i \in DOMAIN plan, NEW j \in DOMAIN plan, i < j,
                       plan[i].tool \in Planner!Writing, plan[j].tool \in Planner!Writing
                PROVE  plan[i].path # plan[j].path
    BY DEF Planner!WritesOnce
  <2>1. PICK k \in DOMAIN order : order[k] = i
    BY <1>3
  <2>2. PICK l \in DOMAIN order : order[l] = j
    BY <1>3
  <2>3. k < l \/ l < k
    BY <1>2, <2>1, <2>2
  <2>4. Planner!WritesOnce(Planner!Sorted)
    BY <1>1 DEF Planner!Structure
  <2>5. CASE k < l
    BY <1>4, <2>1, <2>2, <2>4, <2>5 DEF Planner!WritesOnce
  <2>6. CASE l < k
    BY <1>4, <2>1, <2>2, <2>4, <2>6 DEF Planner!WritesOnce
  <2>. QED BY <2>3, <2>5, <2>6
<1>. QED BY <1>7, <1>8, <1>9 DEF Planner!PlansAreSound, Planner!CheckedWritesAreInformed

\* An accepted plan runs every step once and after all it depends on, rewrites
\* nothing before it has read something, and writes no path twice (Planning's
\* PlansAreSound).
THEOREM PlansSafe == ASSUME PlannerBounds PROVE Planner!Spec => []Planner!PlansAreSound
<1>1. Planner!Spec => []PlanInv
  BY PlanInductive
<1>. QED BY <1>1, SoundWhenAccepted, PTL

-----------------------------------------------------------------------------
(* The symbol index.                                                         *)

SymbolsTyped ==
    /\ disk \in [Scripts -> Definitions!Contents]
    /\ cache = None \/ cache \in Definitions!IndexType
    /\ pc \in [Threads -> {"idle", "build", "wrote", "drop", "parse", "add"}]
    /\ file \in [Threads -> Scripts]
    /\ todo \in [Threads -> SUBSET Scripts]
    /\ own \in [Threads -> Definitions!IndexType]
    /\ seen \in [Threads -> Definitions!Contents]

Busy(t) == pc[t] \in {"wrote", "drop", "parse", "add"}

\* Scripts that no refresh raced for and nobody changed behind the index's back.
Clean == Scripts \ (raced \cup external)

\* No thread writes or refreshes the file.
Still(f) == \A t \in Threads : Busy(t) => file[t] # f

\* The table list exactly what the file defines, or nothing of it.
Exact(table, f) == \A n \in Idents :
  table[n][f] = IF n \in Definitions!Defined(disk[f]) THEN 1 ELSE 0
Free(table, f) == \A n \in Idents : table[n][f] = 0

\* Two refreshes at once are remembered, and one has an index to work on.
Apart == \A t \in Threads : Busy(t) =>
            /\ pc[t] # "wrote" => cache # None
            /\ \A u \in Threads : Busy(u) /\ u # t => file[t] \in raced

Published == cache # None => \A f \in Clean : Still(f) => Exact(cache.symbols, f)

\* What a refresh has done to the index so far.
Refreshed ==
    \A t \in Threads :
        /\ pc[t] = "drop" => /\ \A g \in Clean \ {file[t]} : Exact(own[t].symbols, g)
                             /\ Free(own[t].symbols, file[t])
        /\ pc[t] \in {"parse", "add"} /\ file[t] \in Clean => Free(cache.symbols, file[t])
        /\ pc[t] = "add" /\ file[t] \in Clean =>
             Definitions!Defined(seen[t]) = Definitions!Defined(disk[file[t]])

\* What a build whose index may still be published has parsed so far.
Filled ==
    cache = None =>
        \A t \in Threads, f \in Clean : pc[t] = "build" /\ Still(f) =>
            IF f \in todo[t] THEN Free(own[t].symbols, f) ELSE Exact(own[t].symbols, f)

SymbolInv == SymbolsTyped /\ Apart /\ Published /\ Refreshed /\ Filled /\ Definitions!SilenceIsComplete

Symbols == [Idents -> [Scripts -> Nat]]

LEMMA AddedOnce ==
  ASSUME NEW table \in Symbols, NEW f \in Scripts, NEW names
  PROVE  /\ Definitions!Adding(table, f, names) \in Symbols
         /\ \A n \in Idents, g \in Scripts \ {f} :
              Definitions!Adding(table, f, names)[n][g] = table[n][g]
         /\ \A n \in Idents : Definitions!Adding(table, f, names)[n][f] =
               IF n \in names THEN table[n][f] + 1 ELSE table[n][f]
BY DEF Definitions!Adding, Symbols

LEMMA KeptWithout ==
  ASSUME NEW table \in Symbols, NEW f \in Scripts
  PROVE  /\ Definitions!Kept(table, f) \in Symbols
         /\ \A n \in Idents, g \in Scripts \ {f} : Definitions!Kept(table, f)[n][g] = table[n][g]
         /\ \A n \in Idents : Definitions!Kept(table, f)[n][f] = 0
BY DEF Definitions!Kept, Symbols

LEMMA Unused == Definitions!Unlisted \in Symbols /\ \A n \in Idents, f \in Scripts :
                  Definitions!Unlisted[n][f] = 0
BY DEF Definitions!Unlisted, Symbols

LEMMA SymbolInit == ASSUME SymbolBounds PROVE Definitions!Init => SymbolInv
<1>. SUFFICES ASSUME Definitions!Init PROVE SymbolInv OBVIOUS
<1>. USE DEF Definitions!Init, SymbolBounds
<1>1. SymbolsTyped
  <2>1. Definitions!Empty \in Definitions!IndexType
    BY Unused DEF Definitions!Empty, Definitions!IndexType, Symbols
  <2>. QED BY <2>1 DEF SymbolsTyped, Definitions!Contents
<1>2. Apart /\ Refreshed /\ Filled /\ Published
  BY DEF Apart, Refreshed, Filled, Published, Busy
<1>3. Definitions!SilenceIsComplete
  BY DEF Definitions!SilenceIsComplete
<1>. QED BY <1>1, <1>2, <1>3 DEF SymbolInv

\* The notice is only missing when nothing was cut off.
LEMMA SearchHolds ==
  ASSUME SymbolBounds, Definitions!Search
  PROVE  Definitions!SilenceIsComplete'
<1>1. Definitions!Lines \in Nat
  <2>1. IsFiniteSet(Scripts \X Idents)
    BY DefinitionsCounts, FS_Product DEF SymbolBounds
  <2>. QED BY <2>1, DefinitionsCounts, FS_Subset, FS_CardinalityType DEF Definitions!Lines
<1>2. Definitions!Returned = IF Definitions!Lines < Limit THEN Definitions!Lines ELSE Limit
  <2>1. Definitions!Min({Limit, Definitions!Lines}) \in {Limit, Definitions!Lines} /\
          \A y \in {Limit, Definitions!Lines} : Definitions!Min({Limit, Definitions!Lines}) <= y
    <3>1. \E x \in {Limit, Definitions!Lines} : \A y \in {Limit, Definitions!Lines} : x <= y
      BY <1>1 DEF SymbolBounds
    <3>. QED BY <3>1 DEF Definitions!Min
  <2>. QED BY <1>1, <2>1 DEF Definitions!Returned, SymbolBounds
<1>3. matches' = [found |-> Definitions!Returned, notice |-> Definitions!Notice(Definitions!Returned), all |-> Definitions!Lines]
  BY DEF Definitions!Search
<1>4. matches'.found = Definitions!Returned /\
        matches'.notice = Definitions!Notice(Definitions!Returned) /\
          matches'.all = Definitions!Lines
  BY <1>3
<1>5. CASE Definitions!Lines < Limit
  <2>1. matches'.found = matches'.all
    BY <1>2, <1>4, <1>5
  <2>. QED BY <2>1 DEF Definitions!SilenceIsComplete
<1>6. CASE ~(Definitions!Lines < Limit)
  <2>1. Definitions!Notice(Definitions!Returned) = TRUE
    BY <1>2, <1>6 DEF Definitions!Notice, SymbolBounds
  <2>. QED BY <1>4, <2>1 DEF Definitions!SilenceIsComplete
<1>. QED BY <1>5, <1>6

LEMMA BuildHolds ==
  ASSUME SymbolBounds, SymbolInv, NEW t \in Threads, Definitions!StartBuild(t)
  PROVE  SymbolInv'
<1>. USE DEF Definitions!StartBuild, Definitions!Idle, Definitions!Goto, Definitions!locals, Definitions!ghosts
<1>. DEFINE listed == {f \in Scripts : disk[f] # Absent}
<1>1. SymbolsTyped /\ Apart /\ Refreshed /\ Filled /\ Definitions!SilenceIsComplete
  BY DEF SymbolInv
<1>2. /\ pc[t] = "idle" /\ cache = None /\ pc' = [pc EXCEPT ![t] = "build"]
      /\ todo' = [todo EXCEPT ![t] = listed]
      /\ own' = [own EXCEPT ![t] = [Definitions!Empty EXCEPT !.files = listed]]
      /\ UNCHANGED <<disk, cache, file, seen, matches, raced, external>>
  OBVIOUS
<1>3. [Definitions!Empty EXCEPT !.files = listed] \in Definitions!IndexType /\
        [Definitions!Empty EXCEPT !.files = listed].symbols = Definitions!Unlisted
  BY Unused DEF Definitions!Empty, Definitions!IndexType, Symbols
<1>4. SymbolsTyped'
  BY <1>1, <1>2, <1>3 DEF SymbolsTyped
<1>5. \A u \in Threads : Busy(u)' = Busy(u)
  BY <1>1, <1>2 DEF Busy, SymbolsTyped
<1>6. Apart' /\ Published' /\ Refreshed'
  BY <1>1, <1>2, <1>5 DEF Apart, Published, Refreshed, SymbolsTyped, Clean, Exact, Free, Busy
<1>7. Filled'
  <2>. SUFFICES ASSUME NEW u \in Threads, NEW f \in Clean', pc'[u] = "build", Still(f)'
                PROVE  IF f \in todo'[u] THEN Free(own'[u].symbols, f)
                       ELSE Exact(own'[u].symbols, f)
    BY <1>2 DEF Filled, Exact, Free
  <2>1. f \in Clean /\ Still(f) /\ f \in Scripts
    BY <1>2, <1>5 DEF Clean, Still
  <2>2. CASE u # t
    BY <1>1, <1>2, <2>1, <2>2 DEF Filled, SymbolsTyped
  <2>3. CASE u = t
    <3>1. own'[u].symbols = Definitions!Unlisted /\ todo'[u] = listed
      BY <1>1, <1>2, <1>3, <2>3 DEF SymbolsTyped
    <3>2. f \notin listed => Definitions!Defined(disk[f]) = {}
      BY <2>1 DEF Definitions!Defined
    <3>. QED BY <2>1, <3>1, <3>2, Unused DEF Free, Exact
  <2>. QED BY <2>2, <2>3
<1>. QED BY <1>1, <1>2, <1>4, <1>6, <1>7 DEF SymbolInv, Definitions!SilenceIsComplete

LEMMA ParseNextHolds ==
  ASSUME SymbolBounds, SymbolInv, NEW t \in Threads, NEW f \in Scripts, Definitions!ParseNext(t, f)
  PROVE  SymbolInv'
<1>. DEFINE names == Definitions!Defined(disk[f])
            s == own[t].symbols
<1>1. SymbolsTyped /\ Apart /\ Published /\ Refreshed /\ Filled /\ Definitions!SilenceIsComplete
  BY DEF SymbolInv
<1>2. /\ pc[t] = "build" /\ f \in todo[t]
      /\ todo' = [todo EXCEPT ![t] = @ \ {f}]
      /\ own' = [own EXCEPT ![t].symbols = Definitions!Adding(@, f, names)]
      /\ UNCHANGED <<disk, cache, pc, file, seen, matches, raced, external>>
  BY DEF Definitions!ParseNext, Definitions!ghosts
<1>3. own[t] \in Definitions!IndexType /\ s \in Symbols
  BY <1>1 DEF SymbolsTyped, Definitions!IndexType, Symbols
<1>4. Definitions!Adding(s, f, names) \in Symbols
  BY <1>3, AddedOnce
<1>5. /\ own'[t].symbols = Definitions!Adding(s, f, names) /\
           own' \in [Threads -> Definitions!IndexType]
      /\ \A u \in Threads \ {t} : own'[u] = own[u]
  BY <1>1, <1>2, <1>3, <1>4 DEF SymbolsTyped, Definitions!IndexType, Symbols
<1>6. SymbolsTyped'
  BY <1>1, <1>2, <1>5 DEF SymbolsTyped
<1>7. Apart' /\ Published'
  BY <1>1, <1>2 DEF Apart, Published, Clean, Still, Exact, Busy
<1>8. Refreshed'
  BY <1>1, <1>2, <1>5 DEF Refreshed, Clean, Exact, Free
<1>9. Filled'
  <2>. SUFFICES ASSUME cache = None, NEW u \in Threads, NEW g \in Clean, pc[u] = "build", Still(g)
                PROVE  IF g \in todo'[u] THEN Free(own'[u].symbols, g)
                       ELSE Exact(own'[u].symbols, g)
    BY <1>2 DEF Filled, Exact, Free, Clean, Still, Busy
  <2>1. IF g \in todo[u] THEN Free(own[u].symbols, g) ELSE Exact(own[u].symbols, g)
    BY <1>1 DEF Filled
  <2>2. CASE u # t
    BY <1>1, <1>2, <1>5, <2>1, <2>2 DEF SymbolsTyped
  <2>3. CASE u = t /\ g # f
    <3>1. g \in todo'[u] <=> g \in todo[u]
      BY <1>1, <1>2, <2>3 DEF SymbolsTyped
    <3>2. \A n \in Idents : own'[u].symbols[n][g] = own[u].symbols[n][g]
      BY <1>3, <1>5, <2>3, AddedOnce DEF Clean
    <3>. QED BY <2>1, <3>1, <3>2 DEF Free, Exact
  <2>4. CASE u = t /\ g = f
    <3>1. g \notin todo'[u] /\ g \in todo[u]
      BY <1>1, <1>2, <2>4 DEF SymbolsTyped
    <3>2. \A n \in Idents : own'[u].symbols[n][f] = IF n \in names THEN s[n][f] + 1 ELSE s[n][f]
      BY <1>3, <1>5, <2>4, AddedOnce
    <3>3. \A n \in Idents : s[n][f] = 0
      BY <2>1, <2>4, <3>1 DEF Free
    <3>. QED BY <2>4, <3>1, <3>2, <3>3 DEF Exact
  <2>. QED BY <2>2, <2>3, <2>4
<1>. QED BY <1>1, <1>2, <1>6, <1>7, <1>8, <1>9 DEF SymbolInv, Definitions!SilenceIsComplete

LEMMA PublishHolds ==
  ASSUME SymbolBounds, SymbolInv, NEW t \in Threads, Definitions!Publish(t) \/
           Definitions!BuildFails(t)
  PROVE  SymbolInv'
<1>. USE DEF Definitions!Goto, Definitions!locals, Definitions!ghosts
<1>1. SymbolsTyped /\ Apart /\ Published /\ Refreshed /\ Filled /\ Definitions!SilenceIsComplete
  BY DEF SymbolInv
<1>2. /\ pc[t] = "build" /\ pc' = [pc EXCEPT ![t] = "idle"]
      /\ own' = [own EXCEPT ![t] = Definitions!Empty]
      /\ UNCHANGED <<disk, file, seen, matches, raced, external>>
      /\ \/ cache' = cache /\ todo' = [todo EXCEPT ![t] = {}]
         \/ todo[t] = {} /\ todo' = todo /\ cache' = IF cache = None THEN own[t] ELSE cache
  BY DEF Definitions!Publish, Definitions!BuildFails
<1>3. Definitions!Empty \in Definitions!IndexType
  BY Unused DEF Definitions!Empty, Definitions!IndexType, Symbols
<1>4. own[t] \in Definitions!IndexType /\ own[t] # None
  BY <1>1 DEF SymbolsTyped, SymbolBounds
<1>5. SymbolsTyped'
  BY <1>1, <1>2, <1>3, <1>4 DEF SymbolsTyped
<1>6. /\ \A u \in Threads : (Busy(u)' <=> Busy(u)) /\ file'[u] = file[u]
      /\ \A u \in Threads : pc'[u] # "idle" => u # t /\ pc'[u] = pc[u] /\ own'[u] = own[u] /\
           todo'[u] = todo[u]
      /\ \A u \in Threads : Busy(u) => pc'[u] = pc[u]
  BY <1>1, <1>2 DEF Busy, SymbolsTyped
<1>7. Clean' = Clean /\ disk' = disk /\ \A f \in Scripts : Still(f)' <=> Still(f)
  BY <1>2, <1>6 DEF Clean, Still
<1>8. cache # None => cache' = cache
  BY <1>2
<1>9. cache' # cache => todo[t] = {} /\ cache' = own[t]
  BY <1>2
<1>10. Apart'
  BY <1>1, <1>2, <1>6, <1>8 DEF Apart, Busy
<1>11. Published'
  <2>. SUFFICES ASSUME cache' # None, NEW f \in Clean, Still(f)
                PROVE  Exact(cache'.symbols, f)
    BY <1>7 DEF Published, Exact, Clean
  <2>1. CASE cache' = cache
    BY <1>1, <2>1 DEF Published
  <2>2. CASE cache' # cache
    <3>1. cache = None
      BY <1>8, <2>2
    <3>. QED BY <1>1, <1>2, <1>9, <2>2, <3>1 DEF Filled
  <2>. QED BY <2>1, <2>2
<1>12. Refreshed'
  <2>1. ASSUME NEW u \in Threads, pc'[u] \in {"drop", "parse", "add"}
        PROVE  pc[u] = pc'[u] /\ own'[u] = own[u] /\ cache' = cache /\ seen'[u] = seen[u]
    <3>1. pc'[u] = pc[u] /\ own'[u] = own[u] /\ Busy(u) /\ pc[u] # "wrote"
      BY <1>6, <2>1 DEF Busy
    <3>2. cache # None
      BY <1>1, <3>1 DEF Apart
    <3>. QED BY <1>2, <1>8, <3>1, <3>2
  <2>. QED BY <1>1, <1>2, <1>7, <2>1 DEF Refreshed, Exact, Free
<1>13. Filled'
  <2>. SUFFICES ASSUME cache' = None, NEW u \in Threads, NEW f \in Clean, pc'[u] = "build", Still(f)
                PROVE  IF f \in todo'[u] THEN Free(own'[u].symbols, f)
                       ELSE Exact(own'[u].symbols, f)
    BY <1>7 DEF Filled, Exact, Free, Clean
  <2>1. cache = None
    BY <1>8
  <2>. QED BY <1>1, <1>6, <2>1 DEF Filled
<1>. QED BY <1>1, <1>2, <1>5, <1>10, <1>11, <1>12, <1>13 DEF SymbolInv,
   Definitions!SilenceIsComplete

\* A change of the workspace: by a thread that refreshes, or by another program.
LEMMA ChangeHolds ==
  ASSUME SymbolBounds, SymbolInv, NEW f \in Scripts, NEW c \in Definitions!Contents,
         disk' = [disk EXCEPT ![f] = c],
         raced \subseteq raced', external \subseteq external',
         UNCHANGED <<cache, todo, own, seen, matches>>,
         pc' \in [Threads -> {"idle", "build", "wrote", "drop", "parse", "add"}],
         file' \in [Threads -> Scripts],
         \A u \in Threads : /\ pc'[u] = "build" => pc[u] = "build"
                            /\ pc'[u] \in {"drop", "parse", "add"} => pc'[u] = pc[u]
                            /\ Busy(u) => pc'[u] = pc[u] /\ file'[u] = file[u],
         \/ f \in external' /\ pc' = pc /\ file' = file
         \/ \E t \in Threads : /\ ~Busy(t) /\ Busy(t)' /\ file'[t] = f
                               /\ \A u \in Threads \ {t} : (Busy(u)' <=> Busy(u))
                               /\ \A u \in Threads : Busy(u) => file[u] \in raced' /\ f \in raced'
  PROVE  SymbolInv'
<1>1. SymbolsTyped /\ Apart /\ Published /\ Refreshed /\ Filled /\ Definitions!SilenceIsComplete
  BY DEF SymbolInv
<1>2. SymbolsTyped'
  BY <1>1 DEF SymbolsTyped
<1>3. Clean' \subseteq Clean
  BY DEF Clean
<1>4. \A g \in Scripts \ {f} : disk'[g] = disk[g]
  BY <1>1 DEF SymbolsTyped
<1>5. \A g \in Clean' : Still(g)' => g # f /\ Still(g)
  BY <1>1 DEF Clean, Still, Busy, SymbolsTyped
<1>6. Apart'
  BY <1>1 DEF Apart, Busy, SymbolsTyped
<1>7. Published'
  BY <1>1, <1>3, <1>4, <1>5 DEF Published, Exact, Clean
<1>8. ASSUME NEW u \in Threads, pc'[u] \in {"drop", "parse", "add"}
      PROVE  pc[u] = pc'[u] /\ file'[u] = file[u] /\ f \notin Clean'
  <2>1. Busy(u) /\ pc[u] = pc'[u] /\ file'[u] = file[u]
    BY <1>8 DEF Busy
  <2>. QED BY <2>1 DEF Clean
<1>9. Refreshed'
  <2>1. \A g \in Clean' : Exact(own, g) = Exact(own, g)
    OBVIOUS
  <2>. SUFFICES ASSUME NEW u \in Threads, pc'[u] \in {"drop", "parse", "add"}
                PROVE  /\ pc'[u] = "drop" => /\ \A g \in Clean' \ {file'[u]} : Exact(own[u].symbols, g)'
                                             /\ Free(own[u].symbols, file'[u])
                       /\ pc'[u] \in {"parse", "add"} /\ file'[u] \in Clean' =>
                            Free(cache.symbols, file'[u])
                       /\ pc'[u] = "add" /\ file'[u] \in Clean' =>
                            Definitions!Defined(seen[u]) = Definitions!Defined(disk'[file'[u]])
    BY DEF Refreshed, Free, Exact
  <2>2. pc[u] = pc'[u] /\ file'[u] = file[u] /\ f \notin Clean'
    BY <1>8
  <2>3. \A g \in Clean' : Exact(own[u].symbols, g) => Exact(own[u].symbols, g)'
    BY <1>4, <2>2 DEF Exact, Clean
  <2>4. file[u] \in Clean' => disk'[file[u]] = disk[file[u]] /\ file[u] \in Clean
    BY <1>3, <1>4, <2>2 DEF Clean
  <2>. QED BY <1>1, <1>3, <2>2, <2>3, <2>4 DEF Refreshed
<1>10. Filled'
  <2>. SUFFICES ASSUME cache = None, NEW u \in Threads, NEW g \in Clean', pc'[u] = "build", Still(g)'
                PROVE  IF g \in todo[u] THEN Free(own[u].symbols, g) ELSE Exact(own[u].symbols, g)'
    BY DEF Filled, Exact, Free
  <2>1. g # f /\ Still(g) /\ g \in Clean /\ pc[u] = "build"
    BY <1>3, <1>5
  <2>2. IF g \in todo[u] THEN Free(own[u].symbols, g) ELSE Exact(own[u].symbols, g)
    BY <1>1, <2>1 DEF Filled
  <2>. QED BY <1>4, <2>1, <2>2 DEF Exact, Clean
<1>. QED BY <1>1, <1>2, <1>6, <1>7, <1>9, <1>10 DEF SymbolInv, Definitions!SilenceIsComplete

LEMMA WriteHolds ==
  ASSUME SymbolBounds, SymbolInv, NEW t \in Threads, NEW f \in Scripts, NEW c \in Definitions!Contents,
         Definitions!Write(t, f, c)
  PROVE  SymbolInv'
<1>1. SymbolsTyped
  BY DEF SymbolInv
<1>2. /\ pc[t] = "idle" /\ disk' = [disk EXCEPT ![f] = c]
      /\ file' = [file EXCEPT ![t] = f] /\ pc' = [pc EXCEPT ![t] = "wrote"]
      /\ UNCHANGED <<cache, todo, own, seen, matches, external>>
  BY DEF Definitions!Write, Definitions!Idle, Definitions!Goto
<1>3. raced' = IF Definitions!Refreshing # {} THEN raced \cup {f} \cup {file[u] : u \in Definitions!Refreshing} ELSE raced
  BY DEF Definitions!Write
<1>4. \A u \in Threads : Busy(u) => file[u] \in raced' /\ f \in raced'
  BY <1>3 DEF Busy, Definitions!Refreshing
<1>5. raced \subseteq raced'
  BY <1>3
<1>6. /\ file' \in [Threads -> Scripts]
      /\ pc' \in [Threads -> {"idle", "build", "wrote", "drop", "parse", "add"}]
  BY <1>1, <1>2 DEF SymbolsTyped
<1>7. /\ \A u \in Threads \ {t} : pc'[u] = pc[u] /\ file'[u] = file[u]
      /\ pc'[t] = "wrote" /\ file'[t] = f
  BY <1>1, <1>2 DEF SymbolsTyped
<1>8. /\ ~Busy(t) /\ Busy(t)' /\ \A u \in Threads \ {t} : (Busy(u)' <=> Busy(u))
  BY <1>2, <1>7 DEF Busy
<1>9. \A u \in Threads : /\ pc'[u] = "build" => pc[u] = "build"
                         /\ pc'[u] \in {"drop", "parse", "add"} => pc'[u] = pc[u]
                         /\ Busy(u) => pc'[u] = pc[u] /\ file'[u] = file[u]
  BY <1>7, <1>8
<1>. QED BY <1>2, <1>4, <1>5, <1>6, <1>7, <1>8, <1>9, ChangeHolds

LEMMA OthersWriteHolds ==
  ASSUME SymbolBounds, SymbolInv, NEW f \in Scripts, NEW c \in Definitions!Contents, Definitions!OthersWrite(f, c)
  PROVE  SymbolInv'
<1>1. SymbolsTyped
  BY DEF SymbolInv
<1>2. /\ disk' = [disk EXCEPT ![f] = c] /\ external' = external \cup {f}
      /\ UNCHANGED <<cache, pc, file, todo, own, seen, matches, raced>>
  BY DEF Definitions!OthersWrite, Definitions!locals
<1>3. pc' \in [Threads -> {"idle", "build", "wrote", "drop", "parse", "add"}] /\
        file' \in [Threads -> Scripts]
  BY <1>1, <1>2 DEF SymbolsTyped
<1>. QED BY <1>2, <1>3, ChangeHolds

\* Nothing is published, so there is nothing to refresh; a build that has read the
\* old content is remembered.
LEMMA NotCachedHolds ==
  ASSUME SymbolBounds, SymbolInv, NEW t \in Threads, Definitions!NotCached(t)
  PROVE  SymbolInv'
<1>1. SymbolsTyped /\ Apart /\ Published /\ Refreshed /\ Filled /\ Definitions!SilenceIsComplete
  BY DEF SymbolInv
<1>2. /\ pc[t] = "wrote" /\ cache = None /\ pc' = [pc EXCEPT ![t] = "idle"]
      /\ UNCHANGED <<disk, cache, file, todo, own, seen, matches, external>>
  BY DEF Definitions!NotCached, Definitions!Goto, Definitions!locals
<1>3. raced' = IF Definitions!Building # {} THEN raced \cup {file[t]} ELSE raced
  BY DEF Definitions!NotCached
<1>4. SymbolsTyped'
  BY <1>1, <1>2 DEF SymbolsTyped
<1>5. /\ \A u \in Threads \ {t} : pc'[u] = pc[u]
      /\ pc'[t] = "idle" /\ raced \subseteq raced' /\ Clean' \subseteq Clean
  BY <1>1, <1>2, <1>3 DEF SymbolsTyped, Clean
<1>6. Apart' /\ Published'
  BY <1>1, <1>2, <1>5 DEF Apart, Published, Busy
<1>7. Refreshed'
  BY <1>1, <1>2, <1>5 DEF Refreshed, Free, Exact
<1>8. Filled'
  <2>. SUFFICES ASSUME NEW u \in Threads, NEW f \in Clean', pc'[u] = "build", Still(f)'
                PROVE  IF f \in todo[u] THEN Free(own[u].symbols, f) ELSE Exact(own[u].symbols, f)
    BY <1>2 DEF Filled, Exact, Free
  <2>1. pc[u] = "build" /\ Definitions!Building # {}
    BY <1>5 DEF Definitions!Building
  <2>2. f # file[t] /\ f \in Clean
    BY <1>2, <1>3, <1>5, <2>1 DEF Clean
  <2>3. Still(f)
    BY <1>2, <1>5, <2>2 DEF Still, Busy
  <2>. QED BY <1>1, <1>2, <2>1, <2>2, <2>3 DEF Filled
<1>. QED BY <1>1, <1>2, <1>4, <1>6, <1>7, <1>8 DEF SymbolInv, Definitions!SilenceIsComplete

\* A file no refresh raced for is refreshed by one thread, alone.
LEMMA Lonely ==
  ASSUME Apart, NEW t \in Threads, Busy(t), NEW f \in Clean
  PROVE  /\ f = file[t] => \A u \in Threads \ {t} : ~Busy(u)
         /\ f # file[t] => Still(f)
BY DEF Apart, Clean, Still

LEMMA KeepHolds ==
  ASSUME SymbolBounds, SymbolInv, NEW t \in Threads, Definitions!Keep(t)
  PROVE  SymbolInv'
<1>. DEFINE f == file[t]
<1>1. SymbolsTyped /\ Apart /\ Published /\ Refreshed /\ Filled /\ Definitions!SilenceIsComplete
  BY DEF SymbolInv
<1>2. /\ pc[t] = "wrote" /\ cache # None /\ pc' = [pc EXCEPT ![t] = "drop"]
      /\ own' = [own EXCEPT ![t].symbols = Definitions!Kept(cache.symbols, f)]
      /\ UNCHANGED <<disk, cache, file, todo, seen, matches, raced, external>>
  BY DEF Definitions!Keep, Definitions!Goto, Definitions!ghosts
<1>3. cache.symbols \in Symbols /\ f \in Scripts /\ own[t] \in Definitions!IndexType
  BY <1>1, <1>2 DEF SymbolsTyped, Definitions!IndexType, Symbols
<1>4. Definitions!Kept(cache.symbols, f) \in Symbols
  BY <1>3, KeptWithout
<1>5. /\ own' \in [Threads -> Definitions!IndexType] /\
           own'[t].symbols = Definitions!Kept(cache.symbols, f)
      /\ \A u \in Threads \ {t} : own'[u] = own[u] /\ pc'[u] = pc[u]
      /\ pc'[t] = "drop"
  BY <1>1, <1>2, <1>3, <1>4 DEF SymbolsTyped, Definitions!IndexType, Symbols
<1>6. SymbolsTyped'
  BY <1>1, <1>2, <1>5 DEF SymbolsTyped
<1>7. Busy(t) /\ \A u \in Threads : Busy(u)' <=> Busy(u)
  BY <1>2, <1>5 DEF Busy
<1>8. Apart' /\ Published' /\ Filled'
  BY <1>1, <1>2, <1>5, <1>7 DEF Apart, Published, Filled, Still, Exact, Clean
<1>9. Refreshed'
  <2>1. \A g \in Clean \ {f} : Exact(own'[t].symbols, g)
    <3>. SUFFICES ASSUME NEW g \in Clean \ {f} PROVE Exact(own'[t].symbols, g)
      OBVIOUS
    <3>1. Exact(cache.symbols, g)
      BY <1>1, <1>2, <1>7, Lonely DEF Published
    <3>. QED BY <1>3, <1>5, <3>1, KeptWithout DEF Exact, Clean
  <2>2. Free(own'[t].symbols, f)
    BY <1>3, <1>5, KeptWithout DEF Free
  <2>. QED BY <1>1, <1>2, <1>5, <2>1, <2>2 DEF Refreshed, Exact, Free, Clean
<1>. QED BY <1>1, <1>2, <1>6, <1>8, <1>9 DEF SymbolInv, Definitions!SilenceIsComplete

LEMMA DropHolds ==
  ASSUME SymbolBounds, SymbolInv, NEW t \in Threads, Definitions!Drop(t)
  PROVE  SymbolInv'
<1>. DEFINE f == file[t]
<1>1. SymbolsTyped /\ Apart /\ Published /\ Refreshed /\ Filled /\ Definitions!SilenceIsComplete
  BY DEF SymbolInv
<1>2. /\ pc[t] = "drop" /\ pc' = [pc EXCEPT ![t] = "parse"]
      /\ cache' = [files |-> cache.files \ {f}, symbols |-> own[t].symbols]
      /\ own' = [own EXCEPT ![t] = Definitions!Empty]
      /\ UNCHANGED <<disk, file, todo, seen, matches, raced, external>>
  BY DEF Definitions!Drop, Definitions!Goto, Definitions!ghosts
<1>3. Busy(t) /\ cache # None /\ cache \in Definitions!IndexType /\ own[t] \in Definitions!IndexType
  BY <1>1, <1>2 DEF SymbolsTyped, Apart, Busy
<1>4. cache' \in Definitions!IndexType /\ cache' # None /\ cache'.symbols = own[t].symbols
  BY <1>2, <1>3 DEF Definitions!IndexType, SymbolBounds
<1>5. Definitions!Empty \in Definitions!IndexType
  BY Unused DEF Definitions!Empty, Definitions!IndexType, Symbols
<1>6. /\ pc'[t] = "parse" /\ own' \in [Threads -> Definitions!IndexType]
      /\ \A u \in Threads \ {t} : own'[u] = own[u] /\ pc'[u] = pc[u]
  BY <1>1, <1>2, <1>5 DEF SymbolsTyped
<1>7. SymbolsTyped'
  BY <1>1, <1>2, <1>4, <1>6 DEF SymbolsTyped
<1>8. \A u \in Threads : Busy(u)' <=> Busy(u)
  BY <1>2, <1>6 DEF Busy
<1>9. Apart' /\ Filled'
  BY <1>1, <1>2, <1>4, <1>6, <1>8 DEF Apart, Filled
<1>10. Published'
  <2>1. \A g \in Clean : Still(g) => g # f /\ Exact(own[t].symbols, g)
    BY <1>1, <1>2, <1>3 DEF Still, Refreshed
  <2>. QED BY <1>2, <1>4, <1>8, <2>1 DEF Published, Still, Exact, Clean
<1>11. Refreshed'
  <2>1. \A u \in Threads \ {t} : pc'[u] \in {"drop", "parse", "add"} => file[u] \notin Clean
    BY <1>1, <1>3, <1>6 DEF Apart, Busy, Clean
  <2>2. Free(cache'.symbols, f)
    BY <1>1, <1>2, <1>4 DEF Refreshed
  <2>. QED BY <1>1, <1>2, <1>6, <2>1, <2>2 DEF Refreshed, Exact, Free, Clean
<1>. QED BY <1>1, <1>2, <1>7, <1>9, <1>10, <1>11 DEF SymbolInv, Definitions!SilenceIsComplete

LEMMA ParseHolds ==
  ASSUME SymbolBounds, SymbolInv, NEW t \in Threads, Definitions!Parse(t) \/ Definitions!Gone(t)
  PROVE  SymbolInv'
<1>. DEFINE f == file[t]
<1>1. SymbolsTyped /\ Apart /\ Published /\ Refreshed /\ Filled /\ Definitions!SilenceIsComplete
  BY DEF SymbolInv
<1>2. /\ pc[t] = "parse"
      /\ UNCHANGED <<disk, cache, file, todo, own, matches, raced, external>>
      /\ \/ pc' = [pc EXCEPT ![t] = "add"] /\ seen' = [seen EXCEPT ![t] = disk[f]]
         \/ pc' = [pc EXCEPT ![t] = "idle"] /\ seen' = seen /\ Definitions!Defined(disk[f]) = {}
  BY DEF Definitions!Parse, Definitions!Gone, Definitions!Goto, Definitions!ghosts,
  Definitions!locals, Definitions!Defined
<1>3. /\ \A u \in Threads \ {t} : pc'[u] = pc[u] /\ seen'[u] = seen[u]
      /\ \/ pc'[t] = "add" /\ seen'[t] = disk[f]
         \/ pc'[t] = "idle" /\ Definitions!Defined(disk[f]) = {}
  BY <1>1, <1>2 DEF SymbolsTyped
<1>4. SymbolsTyped'
  BY <1>1, <1>2 DEF SymbolsTyped
<1>5. Busy(t) /\ cache # None /\ \A u \in Threads : Busy(u)' => Busy(u)
  BY <1>1, <1>2, <1>3 DEF Busy, Apart
<1>6. Apart' /\ Filled'
  BY <1>1, <1>2, <1>3, <1>5 DEF Apart, Filled
<1>7. Published'
  <2>. SUFFICES ASSUME NEW g \in Clean, Still(g)' PROVE Exact(cache.symbols, g)
    BY <1>2 DEF Published, Exact, Clean
  <2>1. CASE g # f
    BY <1>1, <1>5, <2>1, Lonely DEF Published
  <2>2. CASE g = f
    <3>1. pc'[t] = "idle" /\ Definitions!Defined(disk[f]) = {}
      BY <1>2, <1>3, <2>2 DEF Still, Busy
    <3>. QED BY <1>1, <1>2, <2>2, <3>1 DEF Refreshed, Exact, Free
  <2>. QED BY <2>1, <2>2
<1>8. Refreshed'
  BY <1>1, <1>2, <1>3 DEF Refreshed, Exact, Free, Clean
<1>. QED BY <1>1, <1>2, <1>4, <1>6, <1>7, <1>8 DEF SymbolInv, Definitions!SilenceIsComplete

LEMMA AddHolds ==
  ASSUME SymbolBounds, SymbolInv, NEW t \in Threads, Definitions!Add(t)
  PROVE  SymbolInv'
<1>. DEFINE f == file[t]
            names == Definitions!Defined(seen[t])
<1>1. SymbolsTyped /\ Apart /\ Published /\ Refreshed /\ Filled /\ Definitions!SilenceIsComplete
  BY DEF SymbolInv
<1>2. /\ pc[t] = "add" /\ pc' = [pc EXCEPT ![t] = "idle"]
      /\ cache' = [files |-> cache.files \cup {f}, symbols |-> Definitions!Adding(cache.symbols, f, names)]
      /\ seen' = [seen EXCEPT ![t] = Absent]
      /\ UNCHANGED <<disk, file, todo, own, matches, raced, external>>
  BY DEF Definitions!Add, Definitions!Goto, Definitions!ghosts
<1>3. Busy(t) /\ cache # None /\ cache \in Definitions!IndexType /\ f \in Scripts /\
        cache.symbols \in Symbols
  BY <1>1, <1>2 DEF SymbolsTyped, Apart, Busy, Definitions!IndexType, Symbols
<1>4. /\ cache'.symbols = Definitions!Adding(cache.symbols, f, names) /\ cache'.symbols \in Symbols
      /\ cache' \in Definitions!IndexType /\ cache' # None
  BY <1>2, <1>3, AddedOnce DEF Definitions!IndexType, SymbolBounds, Symbols
<1>5. pc'[t] = "idle" /\ \A u \in Threads \ {t} : pc'[u] = pc[u] /\ seen'[u] = seen[u]
  BY <1>1, <1>2 DEF SymbolsTyped
<1>6. SymbolsTyped'
  BY <1>1, <1>2, <1>4 DEF SymbolsTyped, Definitions!Contents
<1>7. \A u \in Threads : Busy(u)' => Busy(u) /\ u # t /\ pc'[u] = pc[u]
  BY <1>5 DEF Busy
<1>8. Apart' /\ Filled'
  BY <1>1, <1>2, <1>4, <1>5, <1>7 DEF Apart, Filled
<1>9. \A n \in Idents, g \in Scripts \ {f} : cache'.symbols[n][g] = cache.symbols[n][g]
  BY <1>3, <1>4, AddedOnce
<1>10. Published'
  <2>. SUFFICES ASSUME NEW g \in Clean, Still(g)' PROVE Exact(cache'.symbols, g)
    BY <1>2 DEF Published, Exact, Clean
  <2>1. CASE g # f
    <3>1. Exact(cache.symbols, g)
      BY <1>1, <1>3, <2>1, Lonely DEF Published
    <3>. QED BY <1>9, <2>1, <3>1 DEF Exact, Clean
  <2>2. CASE g = f
    <3>1. Free(cache.symbols, f) /\ names = Definitions!Defined(disk[f])
      BY <1>1, <1>2, <2>2 DEF Refreshed
    <3>2. \A n \in Idents : cache'.symbols[n][f] =
             IF n \in names THEN cache.symbols[n][f] + 1 ELSE cache.symbols[n][f]
      BY <1>3, <1>4, AddedOnce
    <3>. QED BY <2>2, <3>1, <3>2 DEF Exact, Free
  <2>. QED BY <2>1, <2>2
<1>11. Refreshed'
  <2>1. \A u \in Threads \ {t} : pc'[u] \in {"drop", "parse", "add"} => file[u] \notin Clean
    BY <1>1, <1>3, <1>5 DEF Apart, Busy, Clean
  <2>. QED BY <1>1, <1>2, <1>5, <2>1 DEF Refreshed, Exact, Free, Clean
<1>. QED BY <1>1, <1>2, <1>6, <1>8, <1>10, <1>11 DEF SymbolInv, Definitions!SilenceIsComplete

\* The inductive invariant of the symbol index: what a refresh holds and
\* publishes agrees with the files, except where somebody wrote or raced.
THEOREM SymbolInductive ==
  ASSUME SymbolBounds
  PROVE  Definitions!Spec => []SymbolInv
<1>1. Definitions!Init => SymbolInv
  BY SymbolInit
<1>2. ASSUME SymbolInv, [Definitions!Next]_(Definitions!vars) PROVE SymbolInv'
  <2>1. CASE UNCHANGED Definitions!vars
    BY <1>2, <2>1 DEF Definitions!vars, SymbolInv, SymbolsTyped, Apart, Published, Refreshed,
    Filled, Busy, Clean,
                      Still, Exact, Free, Definitions!SilenceIsComplete
  <2>2. CASE Definitions!Search
    <3>1. Definitions!SilenceIsComplete'
      BY <2>2, SearchHolds
    <3>2. UNCHANGED <<disk, cache, pc, file, todo, own, seen, raced, external>>
      BY <2>2 DEF Definitions!Search, Definitions!locals
    <3>. QED BY <1>2, <3>1, <3>2
                DEF SymbolInv, SymbolsTyped, Apart, Published, Refreshed, Filled, Busy, Clean,
                    Still, Exact, Free
  <2>3. CASE \E f \in Scripts, c \in Definitions!Contents : Definitions!OthersWrite(f, c)
    BY <1>2, <2>3, OthersWriteHolds
  <2>4. ASSUME NEW t \in Threads,
               \/ Definitions!StartBuild(t) \/ Definitions!BuildFails(t) \/ Definitions!Publish(t)
               \/ \E f \in Scripts : Definitions!ParseNext(t, f)
               \/ \E f \in Scripts, c \in Definitions!Contents : Definitions!Write(t, f, c)
        PROVE  SymbolInv'
    BY <1>2, <2>4, BuildHolds, PublishHolds, ParseNextHolds, WriteHolds
  <2>5. ASSUME NEW t \in Threads,
               Definitions!NotCached(t) \/ Definitions!Keep(t) \/ Definitions!Drop(t) \/
                 Definitions!Gone(t) \/ Definitions!Parse(t) \/ Definitions!Add(t)
        PROVE  SymbolInv'
    BY <1>2, <2>5, NotCachedHolds, KeepHolds, DropHolds, ParseHolds, AddHolds
  <2>. QED BY <1>2, <2>1, <2>2, <2>3, <2>4, <2>5 DEF Definitions!Next
<1>. QED BY <1>1, <1>2, PTL DEF Definitions!Spec

\* A lookup lists every definition once and nothing else, outside the files that
\* changed behind the index or that two refreshes raced for (SymbolIndex's
\* LookupsAreRight).
THEOREM LookupsHold ==
  ASSUME SymbolBounds
  PROVE  Definitions!Spec => []Definitions!LookupsAreRight
<1>1. SymbolInv => Definitions!LookupsAreRight
  <2>. SUFFICES ASSUME SymbolInv, Definitions!Quiet, NEW f \in Scripts \ (raced \cup external) PROVE Definitions!Current(f)
    BY DEF Definitions!LookupsAreRight, Definitions!IndexIsCurrent, SymbolInv
  <2>1. f \in Clean /\ Still(f) /\ cache # None
    BY DEF Clean, Still, Definitions!Quiet, Definitions!Refreshing, Busy
  <2>. QED BY <2>1 DEF SymbolInv, Published, Exact, Definitions!Current
<1>. QED BY <1>1, SymbolInductive, PTL

-----------------------------------------------------------------------------
(* The verification.                                                         *)

\* What git reports when it answers.
Reports == {Verifier!Name(f, change[f] = "plain") : f \in {g \in Tracked : change[g] # "same"}}

\* What may be applied.
Applied == {Verifier!Name(f, TRUE) : f \in Tracked}

VerifierInv ==
    /\ planned \in Seq(Applied)
    /\ change \in [Tracked -> {"same", "plain", "other"}]
    /\ step = "status" => changed = {} /\ ~gitFailed
    /\ changed = IF step # "status" /\ ~gitFailed THEN Reports ELSE {}
    /\ step \in {"run", "judge", "judged"} =>
          selected = {StemOf[n] : n \in Verifier!PlannedSet \cup changed} \cap Tests
    /\ noOutput \in BOOLEAN
    /\ step \in {"status", "select", "run"} => passed = 0 /\ failed = 0 /\ ~noOutput
    /\ step \in {"judge", "judged"} =>
          IF noOutput THEN passed = 0 /\ failed = 0
          ELSE /\ passed = IF Verifier!Interrupted THEN 0 ELSE Verifier!EndingWith("pass")
               /\ failed = IF Verifier!Interrupted THEN 0 ELSE Verifier!EndingWith("fail")
    /\ step = "judged" =>
          verdict = [status |-> Verifier!DetermineStatus, risk |-> Verifier!ComputeRisk,
                     confidence |-> Verifier!Confidence(changed)]

\* The inductive invariant of the verification: the report so far follows from
\* what git and the tests have answered.
THEOREM VerifierInductive ==
  ASSUME VerifierBounds
  PROVE  Verifier!Spec => []VerifierInv
<1>. USE DEF VerifierInv, Reports
<1>1. ASSUME Verifier!Init PROVE VerifierInv
  <2>1. PICK n \in 0 .. MaxPlanned : planned \in [1 .. n -> Applied]
    BY <1>1 DEF Verifier!Init, Applied
  <2>2. planned \in Seq(Applied)
    BY <2>1 DEF VerifierBounds
  <2>. QED BY <1>1, <2>2 DEF Verifier!Init
<1>2. ASSUME VerifierInv, [Verifier!Next]_(Verifier!vars) PROVE VerifierInv'
  <2>1. CASE UNCHANGED Verifier!vars
    <3>1. /\ UNCHANGED <<step, planned, change, ends, changed, gitFailed, selected, noOutput,
                          passed, failed, verdict>>
          /\ Verifier!PlannedSet' = Verifier!PlannedSet
      BY <2>1 DEF Verifier!vars, Verifier!PlannedSet
    <3>2. /\ Verifier!Interrupted' = Verifier!Interrupted
          /\ Verifier!EndingWith("pass")' = Verifier!EndingWith("pass") /\
               Verifier!EndingWith("fail")' = Verifier!EndingWith("fail")
          /\ Verifier!DetermineStatus' = Verifier!DetermineStatus /\
               Verifier!ComputeRisk' = Verifier!ComputeRisk
          /\ Verifier!Confidence(changed)' = Verifier!Confidence(changed)
      BY <3>1 DEF Verifier!Interrupted, Verifier!EndingWith, Verifier!DetermineStatus,
      Verifier!ComputeRisk,
      Verifier!Confidence, Verifier!Unexpected
    <3>. QED BY <1>2, <3>1, <3>2
  <2>2. CASE Verifier!Status
    BY <1>2, <2>2 DEF Verifier!Status
  <2>3. CASE Verifier!StatusFails
    BY <1>2, <2>3 DEF Verifier!StatusFails
  <2>4. CASE Verifier!Select
    BY <1>2, <2>4 DEF Verifier!Select, Verifier!PlannedSet
  <2>5. CASE Verifier!RunTests
    BY <1>2, <2>5 DEF Verifier!RunTests, Verifier!Interrupted, Verifier!EndingWith,
    Verifier!PlannedSet
  <2>6. CASE Verifier!RunnerFails
    BY <1>2, <2>6 DEF Verifier!RunnerFails, Verifier!PlannedSet
  <2>7. CASE Verifier!Judge
    BY <1>2, <2>7 DEF Verifier!Judge, Verifier!Interrupted, Verifier!EndingWith, Verifier!PlannedSet,
    Verifier!DetermineStatus, Verifier!ComputeRisk, Verifier!Confidence, Verifier!Unexpected
  <2>. QED BY <1>2, <2>1, <2>2, <2>3, <2>4, <2>5, <2>6, <2>7 DEF Verifier!Next
<1>. QED BY <1>1, <1>2, PTL DEF Verifier!Spec

LEMMA Finite ==
  ASSUME VerifierBounds, VerifierInv
  PROVE  /\ IsFiniteSet(Verifier!PlannedSet) /\ Verifier!Cardinality(Verifier!PlannedSet) \in Nat
         /\ Verifier!Cardinality(Verifier!PlannedSet) <= Len(planned) /\ Len(planned) \in Nat
         /\ (planned = <<>> <=> Len(planned) = 0) /\ (planned = <<>> <=> Verifier!PlannedSet = {})
         /\ \A n \in Verifier!PlannedSet : n \in Verifier!Names /\ n.plain = TRUE
         /\ IsFiniteSet(changed) /\ changed \subseteq Verifier!Names
<1>1. /\ planned \in Seq(Applied) /\ Len(planned) \in Nat
      /\ DOMAIN planned = 1 .. Len(planned)
  BY DEF VerifierInv
<1>2. planned \in Surjection(1 .. Len(planned), Verifier!PlannedSet)
  <2>1. planned \in [1 .. Len(planned) -> Applied]
    BY <1>1
  <2>2. Verifier!PlannedSet = Range(planned)
    BY DEF Verifier!PlannedSet, Verifier!Range, Range
  <2>. QED BY <2>1, <2>2, Fun_RangeProperties
<1>3. IsFiniteSet(1 .. Len(planned)) /\ Verifier!Cardinality(1 .. Len(planned)) = Len(planned)
  BY <1>1, VerifierCounts, FS_Interval
<1>4. IsFiniteSet(Verifier!PlannedSet) /\
        Verifier!Cardinality(Verifier!PlannedSet) <= Len(planned) /\
          Verifier!Cardinality(Verifier!PlannedSet) \in Nat
  BY <1>2, <1>3, VerifierCounts, FS_Surjection, FS_CardinalityType
<1>5. \A n \in Verifier!PlannedSet : n \in Verifier!Names /\ n.plain = TRUE
  <2>. SUFFICES ASSUME NEW k \in 1 .. Len(planned)
                PROVE  planned[k] \in Verifier!Names /\ planned[k].plain = TRUE
    BY <1>1 DEF Verifier!PlannedSet, Verifier!Range
  <2>0. planned[k] \in Applied
    BY <1>1
  <2>1. PICK f \in Tracked : planned[k] = Verifier!Name(f, TRUE)
    BY <2>0 DEF Applied
  <2>. QED BY <2>1 DEF Verifier!Names, Verifier!Name
<1>6. (planned = <<>> <=> Len(planned) = 0) /\ (planned = <<>> <=> Verifier!PlannedSet = {})
  <2>1. planned = <<>> <=> Len(planned) = 0
    BY <1>1
  <2>2. Len(planned) # 0 => planned[1] \in Verifier!PlannedSet
    BY <1>1 DEF Verifier!PlannedSet, Verifier!Range
  <2>3. Len(planned) = 0 => Verifier!PlannedSet = {}
    BY <1>1 DEF Verifier!PlannedSet, Verifier!Range
  <2>. QED BY <2>1, <2>2, <2>3
<1>7. IsFiniteSet(changed) /\ changed \subseteq Verifier!Names
  <2>. DEFINE differing == {g \in Tracked : change[g] # "same"}
              report == [f \in differing |-> Verifier!Name(f, change[f] = "plain")]
  <2>1. IsFiniteSet(differing)
    BY VerifierCounts, FS_Subset DEF VerifierBounds
  <2>2. Reports \subseteq Verifier!Names
    <3>1. \A f \in Tracked : Verifier!Name(f, change[f] = "plain") \in Verifier!Names
      BY DEF Verifier!Names, Verifier!Name
    <3>. QED BY <3>1 DEF Reports
  <2>3. report \in Surjection(differing, Reports)
    BY Fun_IsSurj DEF Reports
  <2>4. IsFiniteSet(Reports)
    BY <2>1, <2>3, VerifierCounts, FS_Surjection
  <2>. QED BY <2>2, <2>4, VerifierCounts, FS_EmptySet DEF VerifierInv
<1>. QED BY <1>1, <1>4, <1>5, <1>6, <1>7

\* The counts of pytest, and what they say of a failing test.
LEMMA Counted ==
  ASSUME VerifierBounds, VerifierInv, step = "judged"
  PROVE  /\ passed \in Nat /\ failed \in Nat
         /\ selected = {} => passed = 0 /\ failed = 0
         /\ ~noOutput /\ ~Verifier!Interrupted =>
              \A t \in selected : ends[t] = "fail" => failed > 0
<1>1. /\ selected = {StemOf[n] : n \in Verifier!PlannedSet \cup changed} \cap Tests
      /\ IF noOutput THEN passed = 0 /\ failed = 0
         ELSE /\ passed = IF Verifier!Interrupted THEN 0 ELSE Verifier!EndingWith("pass")
              /\ failed = IF Verifier!Interrupted THEN 0 ELSE Verifier!EndingWith("fail")
  BY DEF VerifierInv
<1>2. IsFiniteSet(selected)
  BY <1>1, VerifierCounts, FS_Subset DEF VerifierBounds
<1>3. \A how : IsFiniteSet({t \in selected : ends[t] = how})
  BY <1>2, VerifierCounts, FS_Subset
<1>4. \A how : Verifier!EndingWith(how) \in Nat /\
        (Verifier!EndingWith(how) = 0 <=> {t \in selected : ends[t] = how} = {})
  BY <1>3, VerifierCounts, FS_CardinalityType, FS_EmptySet DEF Verifier!EndingWith
<1>5. passed \in Nat /\ failed \in Nat
  BY <1>1, <1>4
<1>6. ASSUME ~noOutput, ~Verifier!Interrupted, NEW t \in selected, ends[t] = "fail" PROVE failed > 0
  <2>1. {u \in selected : ends[u] = "fail"} # {}
    BY <1>6
  <2>2. failed # 0
    BY <1>1, <1>4, <1>6, <2>1
  <2>. QED BY <1>5, <2>2
<1>7. selected = {} => passed = 0 /\ failed = 0
  BY <1>1, <1>4
<1>. QED BY <1>5, <1>6, <1>7

\* A share of tests that passed, in half units of the whole.
LEMMA Passing ==
  ASSUME NEW p \in Nat, NEW f \in Nat, p + f > 0
  PROVE  LET half == (Verifier!Full * p) \div (2 * (p + f))
         IN  half \in 0 .. 30 /\ (f > 0 => half < 30)
<1>. DEFINE half == (60 * p) \div (2 * (p + f))
<1>1. half \in Int /\ (2 * (p + f)) * half <= 60 * p /\ 60 * p < (2 * (p + f)) * (half + 1)
  OBVIOUS
<1>2. half >= 0
  <2>1. CASE half <= -1
    <3>1. (2 * (p + f)) * (half + 1) <= 0
      BY <1>1, <2>1
    <3>. QED BY <1>1, <3>1
  <2>. QED BY <1>1, <2>1
<1>3. half <= 30
  <2>1. CASE half >= 31
    <3>1. (2 * (p + f)) * half >= (2 * (p + f)) * 31
      BY <1>1, <2>1
    <3>. QED BY <1>1, <3>1
  <2>. QED BY <1>1, <2>1
<1>4. ASSUME f > 0 PROVE half # 30
  BY <1>1, <1>4
<1>. QED BY <1>1, <1>2, <1>3, <1>4 DEF Verifier!Full

\* The part of the plan that changed.
Share(c) == IF planned = <<>> THEN Verifier!Full ELSE (Verifier!Full * Verifier!Cardinality(Verifier!PlannedSet \cap c)) \div Len(planned)
Odd(c) == Verifier!Least(3, Verifier!Cardinality(Verifier!Unexpected(c)))
ScoreOf(c) == Share(c) - Odd(c) * Verifier!TenPercent

LEMMA Scored ==
  ASSUME VerifierBounds, VerifierInv, NEW c, IsFiniteSet(c)
  PROVE  /\ Share(c) \in 0 .. Verifier!Full /\ Odd(c) \in 0 .. 3 /\ ScoreOf(c) \in Int
         /\ Odd(c) = 0 => c \subseteq Verifier!PlannedSet
         /\ planned # <<>> /\ Share(c) = Verifier!Full => Verifier!PlannedSet \subseteq c
         /\ planned # <<>> /\ c = {} => Share(c) = 0
<1>. DEFINE k == Verifier!Cardinality(Verifier!PlannedSet \cap c)
            n == Len(planned)
<1>1. IsFiniteSet(Verifier!PlannedSet) /\ n \in Nat /\
        Verifier!Cardinality(Verifier!PlannedSet) <= n /\
          Verifier!Cardinality(Verifier!PlannedSet) \in Nat
      /\ (planned = <<>> <=> n = 0)
  BY Finite
<1>2. /\ IsFiniteSet(Verifier!PlannedSet \cap c) /\ k \in Nat /\
           k <= Verifier!Cardinality(Verifier!PlannedSet)
      /\ k = Verifier!Cardinality(Verifier!PlannedSet) =>
           Verifier!PlannedSet \cap c = Verifier!PlannedSet
  <2>1. Verifier!PlannedSet \cap c \in SUBSET Verifier!PlannedSet
    OBVIOUS
  <2>. QED BY <1>1, <2>1, VerifierCounts, FS_Subset, FS_CardinalityType
<1>3. /\ IsFiniteSet(Verifier!Unexpected(c)) /\ Verifier!Cardinality(Verifier!Unexpected(c)) \in Nat
      /\ Verifier!Cardinality(Verifier!Unexpected(c)) = 0 <=> Verifier!Unexpected(c) = {}
  BY VerifierCounts, FS_Subset, FS_CardinalityType, FS_EmptySet DEF Verifier!Unexpected
<1>4. Odd(c) \in 0 .. 3 /\ (Odd(c) = 0 => c \subseteq Verifier!PlannedSet)
  BY <1>3 DEF Odd, Verifier!Least, Verifier!Unexpected
<1>. HIDE DEF k, n
<1>5. ASSUME n # 0
      PROVE  /\ (60 * k) \div n \in 0 .. 60
             /\ (60 * k) \div n = 60 => k = n
             /\ k = 0 => (60 * k) \div n = 0
  <2>. DEFINE q == (60 * k) \div n
  <2>1. q \in Int /\ n * q <= 60 * k /\ 60 * k < n * (q + 1) /\ k <= n /\ n > 0 /\ k >= 0
    BY <1>1, <1>2, <1>5
  <2>2. q >= 0
    <3>1. CASE q <= -1
      <4>1. n * (q + 1) <= 0
        BY <1>1, <2>1, <3>1
      <4>. QED BY <1>1, <1>2, <2>1, <4>1
    <3>. QED BY <2>1, <3>1
  <2>3. q <= 60
    <3>1. CASE q >= 61
      <4>1. n * q >= n * 61
        BY <1>1, <2>1, <3>1
      <4>. QED BY <1>1, <1>2, <2>1, <4>1
    <3>. QED BY <2>1, <3>1
  <2>4. q = 60 => k = n
    BY <1>1, <1>2, <2>1
  <2>5. k = 0 => q = 0
    BY <1>1, <1>2, <2>1
  <2>. QED BY <2>1, <2>2, <2>3, <2>4, <2>5
<1>6. Share(c) = IF n = 0 THEN 60 ELSE (60 * k) \div n
  BY <1>1 DEF Share, Verifier!Full, k, n
<1>7. Share(c) \in 0 .. Verifier!Full
  BY <1>5, <1>6 DEF Verifier!Full
<1>8. planned # <<>> /\ Share(c) = Verifier!Full => Verifier!PlannedSet \subseteq c
  <2>1. planned # <<>> /\ Share(c) = Verifier!Full => k = n
    BY <1>1, <1>5, <1>6 DEF Verifier!Full
  <2>2. k = n => Verifier!PlannedSet \cap c = Verifier!PlannedSet
    BY <1>1, <1>2
  <2>. QED BY <2>1, <2>2
<1>9. planned # <<>> /\ c = {} => Share(c) = 0
  <2>1. c = {} => k = 0
    BY VerifierCounts, FS_EmptySet DEF k
  <2>. QED BY <1>1, <1>5, <1>6, <2>1
<1>10. ScoreOf(c) \in Int
  BY <1>4, <1>7 DEF ScoreOf, Verifier!TenPercent, Verifier!Full
<1>. QED BY <1>4, <1>7, <1>8, <1>9, <1>10

\* Confidence, with the share of the tests named.
LEMMA Weighed ==
  ASSUME NEW c
  PROVE  LET run == passed + failed
         IN  Verifier!Confidence(c) = Verifier!Clamped(CASE run > 0 -> (ScoreOf(c) \div 2) + (Verifier!Full * passed) \div (2 * run)
                                       [] run = 0 /\ c = {} -> ScoreOf(c) \div 2
                                       [] OTHER -> ScoreOf(c))
BY DEF Verifier!Confidence, ScoreOf, Share, Odd

LEMMA ConfidenceIs ==
  ASSUME VerifierBounds, VerifierInv, step = "judged", NEW c, IsFiniteSet(c)
  PROVE  /\ passed + failed > 0 => \E half \in 0 .. 30 :
               /\ Verifier!Confidence(c) = Verifier!Clamped((ScoreOf(c) \div 2) + half)
               /\ half = (Verifier!Full * passed) \div (2 * (passed + failed))
               /\ failed > 0 => half < 30
         /\ passed + failed = 0 =>
              Verifier!Confidence(c) = Verifier!Clamped(IF c = {} THEN ScoreOf(c) \div 2 ELSE ScoreOf(c))
<1>1. passed \in Nat /\ failed \in Nat
  BY Counted
<1>2. CASE passed + failed > 0
  <2>1. Verifier!Confidence(c) = Verifier!Clamped((ScoreOf(c) \div 2) + (Verifier!Full * passed) \div (2 * (passed + failed)))
    BY <1>1, <1>2, Weighed
  <2>. DEFINE half == (Verifier!Full * passed) \div (2 * (passed + failed))
  <2>2. half \in 0 .. 30 /\ (failed > 0 => half < 30)
    BY <1>1, <1>2, Passing
  <2>3. Verifier!Confidence(c) = Verifier!Clamped((ScoreOf(c) \div 2) + half)
    BY <2>1
  <2>. HIDE DEF half
  <2>4. \E h \in 0 .. 30 : /\ Verifier!Confidence(c) = Verifier!Clamped((ScoreOf(c) \div 2) + h)
                           /\ h = half /\ (failed > 0 => h < 30)
    BY <2>2, <2>3
  <2>. QED BY <1>1, <1>2, <2>4 DEF half
<1>3. CASE passed + failed = 0
  BY <1>1, <1>3, Weighed
<1>. QED BY <1>1, <1>2, <1>3

LEMMA EarnedWhenJudged ==
  ASSUME VerifierBounds, VerifierInv, step = "judged"
  PROVE  Verifier!VerdictIsEarned
<1>. DEFINE really == {n \in Verifier!PlannedSet : change[n.file] # "same"}
            failing == \E n \in Verifier!PlannedSet : StemOf[n] \in Tests /\
              ends[StemOf[n]] = "fail"
            s == ScoreOf(changed)
<1>1. /\ verdict.status = Verifier!DetermineStatus /\ verdict.risk = Verifier!ComputeRisk
      /\ verdict.confidence = Verifier!Confidence(changed)
      /\ selected = {StemOf[n] : n \in Verifier!PlannedSet \cup changed} \cap Tests
      /\ changed = IF gitFailed THEN {} ELSE Reports
  BY DEF VerifierInv
<1>2. passed \in Nat /\ failed \in Nat /\ IsFiniteSet(changed) /\ changed \subseteq Verifier!Names
  BY Counted, Finite
<1>3. /\ Share(changed) \in 0 .. 60 /\ Odd(changed) \in 0 .. 3
      /\ s = Share(changed) - Odd(changed) * 6 /\ s \in Int /\ s <= 60
  <2>1. Share(changed) \in 0 .. 60 /\ Odd(changed) \in 0 .. 3
    BY <1>2, Scored DEF Verifier!Full
  <2>2. s = Share(changed) - Odd(changed) * 6
    BY DEF ScoreOf, Verifier!TenPercent
  <2>. QED BY <2>1, <2>2
<1>4. ASSUME failing, ~noOutput, ~Verifier!Interrupted PROVE failed > 0
  <2>1. PICK n \in Verifier!PlannedSet : StemOf[n] \in Tests /\ ends[StemOf[n]] = "fail"
    BY <1>4
  <2>2. StemOf[n] \in selected
    BY <1>1, <2>1
  <2>. QED BY <1>4, <2>1, <2>2, Counted
<1>5. failed > 0 => verdict.status = "FAILED" /\ verdict.risk = "HIGH"
  BY <1>1 DEF Verifier!DetermineStatus, Verifier!ComputeRisk
<1>6. \A x \in Int : x < Verifier!Full => Verifier!Clamped(x) < Verifier!Full
  BY DEF Verifier!Clamped, Verifier!Least, Verifier!Full
<1>7. failed > 0 => verdict.confidence < Verifier!Full
  <2>. SUFFICES ASSUME failed > 0 PROVE Verifier!Confidence(changed) < Verifier!Full
    BY <1>1
  <2>1. PICK half \in 0 .. 30 :
               Verifier!Confidence(changed) = Verifier!Clamped((s \div 2) + half) /\ half < 30
    BY <1>2, ConfidenceIs
  <2>2. (s \div 2) + half \in Int /\ (s \div 2) + half < Verifier!Full
    BY <1>3, <2>1 DEF Verifier!Full
  <2>. QED BY <1>6, <2>1, <2>2
<1>8. \A n \in changed : change[n.file] # "same" /\ (n.plain = TRUE => change[n.file] = "plain")
  <2>. SUFFICES ASSUME NEW n \in Reports
                PROVE  change[n.file] # "same" /\ (n.plain = TRUE => change[n.file] = "plain")
    BY <1>1
  <2>1. PICK f \in Tracked : change[f] # "same" /\ n = Verifier!Name(f, change[f] = "plain")
    BY DEF Reports
  <2>2. n.file = f /\ n.plain = (change[f] = "plain")
    BY <2>1 DEF Verifier!Name
  <2>. QED BY <2>1, <2>2
<1>9. ASSUME verdict.status = "SUCCESS", planned # <<>> PROVE really # {}
  <2>1. Verifier!PlannedSet # {} /\ failed = 0
    BY <1>1, <1>2, <1>5, <1>9, Finite
  <2>2. Verifier!PlannedSet \cap changed # {}
    BY <1>1, <1>9, <2>1 DEF Verifier!DetermineStatus
  <2>. QED BY <1>8, <2>2
<1>10. ASSUME verdict.confidence = Verifier!Full
       PROVE  /\ s = 60 /\ Odd(changed) = 0 /\ Share(changed) = Verifier!Full
              /\ changed # {} /\ failed = 0
  <2>1. failed = 0
    BY <1>2, <1>7, <1>10 DEF Verifier!Full
  <2>2. CASE passed + failed > 0
    <3>1. PICK half \in 0 .. 30 : Verifier!Confidence(changed) = Verifier!Clamped((s \div 2) + half)
      BY <1>2, <2>2, ConfidenceIs
    <3>2. ~((s \div 2) + half < Verifier!Full)
      BY <1>1, <1>3, <1>6, <1>10, <3>1 DEF Verifier!Full
    <3>3. s = 60
      BY <1>3, <3>1, <3>2 DEF Verifier!Full
    <3>4. Odd(changed) = 0 /\ Share(changed) = Verifier!Full
      BY <1>3, <3>3 DEF Verifier!Full
    <3>5. changed # {}
      <4>. SUFFICES ASSUME changed = {} PROVE FALSE OBVIOUS
      <4>1. Verifier!PlannedSet = {}
        <5>1. planned # <<>> => Share(changed) = 0
          BY <1>2, Scored
        <5>. QED BY <3>4, <5>1, Finite DEF Verifier!Full
      <4>2. selected = {}
        BY <1>1, <4>1
      <4>. QED BY <2>2, <4>2, Counted
    <3>. QED BY <2>1, <3>3, <3>4, <3>5
  <2>3. CASE passed + failed = 0
    <3>1. Verifier!Confidence(changed) = Verifier!Clamped(IF changed = {} THEN s \div 2 ELSE s)
      BY <1>2, <2>3, ConfidenceIs
    <3>2. changed # {} /\ s = 60
      <4>1. s \div 2 \in Int /\ s \div 2 < Verifier!Full
        BY <1>3 DEF Verifier!Full
      <4>2. s < Verifier!Full => Verifier!Clamped(s) < Verifier!Full
        BY <1>3, <1>6
      <4>3. Verifier!Clamped(s \div 2) < Verifier!Full
        BY <1>6, <4>1
      <4>. QED BY <1>1, <1>3, <1>10, <3>1, <4>2, <4>3 DEF Verifier!Full
    <3>. QED BY <1>3, <2>1, <3>2 DEF Verifier!Full
  <2>. QED BY <1>2, <2>2, <2>3
<1>11. ASSUME verdict.confidence = Verifier!Full
       PROVE  /\ really = Verifier!PlannedSet
              /\ \A f \in Tracked : change[f] # "same" =>
                   Verifier!Name(f, TRUE) \in Verifier!PlannedSet
  <2>1. /\ changed \subseteq Verifier!PlannedSet /\ changed # {} /\ failed = 0 /\
             Share(changed) = Verifier!Full
    BY <1>2, <1>10, <1>11, Scored
  <2>2. planned # <<>>
    BY <2>1, Finite
  <2>3. Verifier!PlannedSet = changed
    BY <1>2, <2>1, <2>2, Scored
  <2>4. changed = Reports
    BY <1>1, <2>1
  <2>5. really = Verifier!PlannedSet
    BY <1>8, <2>3
  <2>6. ASSUME NEW f \in Tracked, change[f] # "same"
        PROVE  Verifier!Name(f, TRUE) \in Verifier!PlannedSet
    <3>1. Verifier!Name(f, change[f] = "plain") \in Verifier!PlannedSet
      BY <2>3, <2>4, <2>6 DEF Reports
    <3>2. (change[f] = "plain") = TRUE
      BY <3>1, Finite DEF Verifier!Name
    <3>. QED BY <3>1, <3>2
  <2>. QED BY <2>5, <2>6
<1>12. ASSUME verdict.risk = "LOW", ~gitFailed, NEW f \in Tracked, change[f] = "plain", Verifier!Name(f, TRUE) \in SrcNames
       PROVE  Verifier!Name(f, TRUE) \in Verifier!PlannedSet
  <2>1. Verifier!Name(f, TRUE) \in changed
    <3>1. Verifier!Name(f, change[f] = "plain") \in changed
      BY <1>1, <1>12 DEF Reports
    <3>. QED BY <1>12, <3>1
  <2>2. Verifier!Unexpected(changed) \cap SrcNames = {}
    BY <1>1, <1>12 DEF Verifier!ComputeRisk
  <2>. QED BY <1>12, <2>1, <2>2 DEF Verifier!Unexpected
<1>13. ASSUME planned # <<>>, NEW n \in Verifier!Names \ Verifier!PlannedSet
       PROVE  Verifier!Confidence(changed \cup {n}) <= Verifier!Confidence(changed)
  <2>. DEFINE more == changed \cup {n}
              t == ScoreOf(more)
  <2>1. IsFiniteSet(more)
    BY <1>2, VerifierCounts, FS_AddElement
  <2>2. Share(more) = Share(changed)
    <3>1. Verifier!PlannedSet \cap more = Verifier!PlannedSet \cap changed
      BY <1>13
    <3>. QED BY <3>1 DEF Share
  <2>3. Odd(changed) <= Odd(more) /\ Odd(more) \in 0 .. 3 /\ (changed = {} => Odd(more) > 0)
    <3>1. IsFiniteSet(Verifier!Unexpected(more)) /\
            Verifier!Unexpected(changed) \in SUBSET Verifier!Unexpected(more)
          /\ n \in Verifier!Unexpected(more)
      BY <1>13, <2>1, VerifierCounts, FS_Subset DEF Verifier!Unexpected
    <3>2. /\ Verifier!Cardinality(Verifier!Unexpected(changed)) \in Nat /\
               Verifier!Cardinality(Verifier!Unexpected(more)) \in Nat
          /\ Verifier!Cardinality(Verifier!Unexpected(changed)) <= Verifier!Cardinality(Verifier!Unexpected(more))
          /\ Verifier!Cardinality(Verifier!Unexpected(more)) # 0
      BY <3>1, VerifierCounts, FS_Subset, FS_CardinalityType, FS_EmptySet
    <3>. QED BY <3>2 DEF Odd, Verifier!Least
  <2>4. t = Share(more) - Odd(more) * 6 /\ t <= s /\ t \in Int
    <3>1. t = Share(more) - Odd(more) * 6
      BY DEF ScoreOf, Verifier!TenPercent
    <3>. QED BY <1>3, <2>2, <2>3, <3>1
  <2>5. \A x, y \in Int : x <= y => Verifier!Clamped(x) <= Verifier!Clamped(y)
    BY DEF Verifier!Clamped, Verifier!Least, Verifier!Full
  <2>6. CASE passed + failed > 0
    <3>1. PICK half \in 0 .. 30 : Verifier!Confidence(changed) = Verifier!Clamped((s \div 2) + half)
                                  /\ half = (Verifier!Full * passed) \div (2 * (passed + failed))
      BY <1>2, <2>6, ConfidenceIs
    <3>2. PICK same \in 0 .. 30 : Verifier!Confidence(more) = Verifier!Clamped((t \div 2) + same)
                                  /\ same = (Verifier!Full * passed) \div (2 * (passed + failed))
      BY <2>1, <2>6, ConfidenceIs
    <3>3. half = same
      BY <3>1, <3>2
    <3>4. t \div 2 <= s \div 2 /\ t \div 2 \in Int /\ s \div 2 \in Int
      BY <1>3, <2>4
    <3>5. (t \div 2) + half <= (s \div 2) + half /\ (t \div 2) + half \in Int /\
            (s \div 2) + half \in Int
      BY <3>1, <3>4
    <3>. QED BY <2>5, <3>1, <3>2, <3>3, <3>5
  <2>7. CASE passed + failed = 0
    <3>1. Verifier!Confidence(more) = Verifier!Clamped(t)
      BY <2>1, <2>7, ConfidenceIs
    <3>2. Verifier!Confidence(changed) = Verifier!Clamped(IF changed = {} THEN s \div 2 ELSE s)
      BY <1>2, <2>7, ConfidenceIs
    <3>3. CASE changed # {}
      BY <1>3, <2>4, <2>5, <3>1, <3>2, <3>3
    <3>4. CASE changed = {}
      <4>1. Share(changed) = 0 /\ Odd(changed) = 0
        <5>1. Share(changed) = 0
          BY <1>2, <1>13, <3>4, Scored
        <5>2. Verifier!Unexpected(changed) = {}
          BY <3>4 DEF Verifier!Unexpected
        <5>. QED BY <5>1, <5>2, VerifierCounts, FS_EmptySet DEF Odd, Verifier!Least
      <4>2. s = 0 /\ t < 0
        BY <1>3, <2>2, <2>3, <2>4, <3>4, <4>1
      <4>3. Verifier!Clamped(s \div 2) = 0 /\ Verifier!Clamped(t) = 0
        BY <2>4, <4>2 DEF Verifier!Clamped, Verifier!Least, Verifier!Full
      <4>. QED BY <3>1, <3>2, <3>4, <4>3
    <3>. QED BY <3>3, <3>4
  <2>. QED BY <1>2, <2>6, <2>7
<1>. QED BY <1>4, <1>5, <1>7, <1>9, <1>11, <1>12, <1>13 DEF Verifier!VerdictIsEarned

\* Status, risk and confidence of a verdict claim no more than git and the tests
\* have said (Verification's VerdictIsEarned).
THEOREM VerdictsHold == ASSUME VerifierBounds PROVE Verifier!Spec => []Verifier!VerdictIsEarned
<1>1. VerifierInv => Verifier!VerdictIsEarned
  BY EarnedWhenJudged DEF Verifier!VerdictIsEarned
<1>. QED BY <1>1, VerifierInductive, PTL

-----------------------------------------------------------------------------
(* The prompts.                                                              *)

Newest == IF messages = <<>> THEN 0 ELSE Prompts!Tokens(messages[Len(messages)])

PromptInv ==
    /\ task \in Nat /\ template \in Nat /\ retrieved \in Nat /\ messages \in Seq(Nat)
    /\ phase \in {"asked", "capping", "retrieving", "budgeted", "uncut", "sent"}
    /\ older \in 0 .. Len(messages) /\ total \in Nat
    /\ phase # "asked" => total <= Prompts!HistoryBudget \/ total = Newest
    /\ context \in Nat
    /\ phase = "budgeted" => \/ context = 0
                             \/ Prompts!RepoLeft > 0 /\
                                  context = Prompts!Truncated(retrieved, Prompts!RepoLeft)
    /\ phase = "sent" /\ context > 0 =>
         prompt = Prompts!Heading + Prompts!Truncated(context, Prompts!Allowance) + Prompts!BasePrompt

LEMMA OfTwo ==
  ASSUME NEW x \in Int, NEW y \in Int
  PROVE  /\ Prompts!Max({x, y}) = IF x >= y THEN x ELSE y
         /\ Prompts!Min({x, y}) = IF x <= y THEN x ELSE y
<1>1. \E m \in {x, y} : \A z \in {x, y} : m >= z
  OBVIOUS
<1>2. Prompts!Max({x, y}) \in {x, y} /\ \A z \in {x, y} : Prompts!Max({x, y}) >= z
  BY <1>1 DEF Prompts!Max
<1>3. \E m \in {x, y} : \A z \in {x, y} : m <= z
  OBVIOUS
<1>4. Prompts!Min({x, y}) \in {x, y} /\ \A z \in {x, y} : Prompts!Min({x, y}) <= z
  BY <1>3 DEF Prompts!Min
<1>. QED BY <1>2, <1>4

LEMMA TokensOf ==
  ASSUME NEW chars \in Nat
  PROVE  /\ Prompts!Tokens(chars) \in Nat /\ Prompts!Tokens(chars) >= 1
         /\ Prompts!Tokens(chars) = IF chars < 8 THEN 1 ELSE chars \div 4
<1>1. chars \div 4 \in Int
  OBVIOUS
<1>2. Prompts!Tokens(chars) = IF 1 >= chars \div 4 THEN 1 ELSE chars \div 4
  BY <1>1, OfTwo DEF Prompts!Tokens, Prompts!PerToken
<1>. QED BY <1>1, <1>2

LEMMA Shortened ==
  ASSUME NEW chars \in Nat, NEW limit \in Nat
  PROVE  /\ Prompts!Truncated(chars, limit) \in Nat
         /\ limit > 0 => /\ Prompts!Truncated(chars, limit) <= 4 * limit + 3 \/ Prompts!Truncated(chars, limit) = 46
                         /\ \/ Prompts!Tokens(Prompts!Truncated(chars, limit)) <= limit
                            \/ Prompts!Tokens(Prompts!Truncated(chars, limit)) <= 11
<1>1. CASE limit <= 0 \/ Prompts!Tokens(chars) <= limit
  <2>1. Prompts!Truncated(chars, limit) = chars
    BY <1>1 DEF Prompts!Truncated
  <2>. QED BY <1>1, <2>1, TokensOf
<1>2. CASE ~(limit <= 0 \/ Prompts!Tokens(chars) <= limit)
  <2>1. Prompts!Truncated(chars, limit) = Prompts!Max({0, limit * 4 - 46}) + 46
    BY <1>2 DEF Prompts!Truncated, Prompts!PerToken, Prompts!Notice
  <2>2. Prompts!Truncated(chars, limit) = IF 0 >= limit * 4 - 46 THEN 46 ELSE limit * 4
    BY <2>1, OfTwo
  <2>. QED BY <2>2, TokensOf
<1>. QED BY <1>1, <1>2

LEMMA Shares ==
  ASSUME PromptBounds, NEW t \in Nat, t = task
  PROVE  /\ Prompts!Usable \in Nat /\ Prompts!Fixed \in Nat /\ Prompts!Remaining \in Nat
         /\ Prompts!Remaining = IF Prompts!Usable >= Prompts!Fixed + 200 THEN Prompts!Usable - (Prompts!Fixed + 200) ELSE 0
         /\ Prompts!HistoryBudget \in Nat /\ Prompts!RepoBudget \in Nat
         /\ Prompts!HistoryBudget + Prompts!RepoBudget <= Prompts!Remaining
<1>1. Prompts!Usable \in Nat
  BY OfTwo DEF Prompts!Usable, PromptBounds
<1>2. Prompts!Fixed \in Nat
  BY TokensOf DEF Prompts!Fixed
<1>3. Prompts!Remaining = IF Prompts!Usable >= Prompts!Fixed + 200 THEN Prompts!Usable - (Prompts!Fixed + 200) ELSE 0
  BY <1>1, <1>2, OfTwo DEF Prompts!Remaining, Prompts!EngineMargin
<1>4. Prompts!Remaining \in Nat
  BY <1>1, <1>2, <1>3
<1>. QED BY <1>1, <1>2, <1>3, <1>4 DEF Prompts!HistoryBudget, Prompts!RepoBudget

\* The inductive invariant of the prompt budget: each part is within what the
\* parts before it left of the window.
THEOREM PromptInductive ==
  ASSUME PromptBounds
  PROVE  Prompts!Spec => []PromptInv
<1>1. ASSUME Prompts!Init PROVE PromptInv
  <2>1. PICK n \in 0 .. Turns : messages \in [1 .. n -> Messages]
    BY <1>1 DEF Prompts!Init
  <2>2. messages \in Seq(Nat)
    <3>1. n \in Nat /\ Messages \subseteq Nat
      BY DEF PromptBounds
    <3>2. messages \in [1 .. n -> Nat]
      BY <2>1, <3>1
    <3>. QED BY <3>1, <3>2
  <2>. QED BY <1>1, <2>2 DEF Prompts!Init, PromptInv, PromptBounds
<1>2. ASSUME PromptInv, [Prompts!Next]_(Prompts!vars) PROVE PromptInv'
  <2>. USE DEF PromptInv
  <2>1. /\ messages \in Seq(Nat) /\ Len(messages) \in Nat
        /\ \A i \in 1 .. Len(messages) : messages[i] \in Nat /\ Prompts!Tokens(messages[i]) \in Nat
    <3>1. messages \in Seq(Nat)
      BY <1>2
    <3>2. ASSUME NEW i \in 1 .. Len(messages)
          PROVE  messages[i] \in Nat /\ Prompts!Tokens(messages[i]) \in Nat
      <4>1. messages[i] \in Nat
        BY <3>1
      <4>. QED BY <4>1, TokensOf
    <3>. QED BY <3>1, <3>2
  <2>2. /\ UNCHANGED Prompts!inputs => /\ Prompts!HistoryBudget' = Prompts!HistoryBudget /\ Newest' = Newest
                               /\ Prompts!Allowance' = Prompts!Allowance /\
                                    Prompts!BasePrompt' = Prompts!BasePrompt
        /\ UNCHANGED <<Prompts!inputs, total>> => Prompts!RepoLeft' = Prompts!RepoLeft
    BY DEF Prompts!inputs, Prompts!HistoryBudget, Newest, Prompts!Allowance, Prompts!BasePrompt,
    Prompts!RepoLeft, Prompts!Overrun, Prompts!RepoBudget,
           Prompts!Remaining, Prompts!Fixed
  <2>3. CASE UNCHANGED Prompts!vars
    BY <1>2, <2>2, <2>3 DEF Prompts!vars, Prompts!inputs
  <2>4. CASE Prompts!StartCapping
    <3>1. /\ phase = "asked" /\ phase' = "capping" /\ UNCHANGED <<Prompts!inputs, context, prompt>>
          /\ total' = Newest /\ older' = Len(messages) - Prompts!Min({1, Len(messages)})
      BY <2>4 DEF Prompts!StartCapping, Newest
    <3>2. Newest \in Nat
      BY <2>1 DEF Newest
    <3>3. older' \in 0 .. Len(messages)
      <4>1. Prompts!Min({1, Len(messages)}) = IF 1 <= Len(messages) THEN 1 ELSE Len(messages)
        <5>1. \A y \in Nat : Prompts!Min({1, y}) = IF 1 <= y THEN 1 ELSE y
          BY OfTwo
        <5>. QED BY <2>1, <5>1
      <4>. QED BY <2>1, <3>1, <4>1
    <3>. QED BY <1>2, <2>2, <3>1, <3>2, <3>3 DEF Prompts!inputs
  <2>5. CASE Prompts!KeepOlder
    <3>1. /\ phase = "capping" /\ older > 0 /\
               total + Prompts!Tokens(messages[older]) <= Prompts!HistoryBudget
          /\ total' = total + Prompts!Tokens(messages[older]) /\ older' = older - 1
          /\ UNCHANGED <<phase, Prompts!inputs, context, prompt>>
      BY <2>5 DEF Prompts!KeepOlder, Prompts!Fits, Prompts!Keep
    <3>. QED BY <1>2, <2>1, <2>2, <3>1 DEF Prompts!inputs
  <2>6. CASE Prompts!Capped
    BY <1>2, <2>2, <2>6 DEF Prompts!Capped, Prompts!inputs
  <2>7. CASE Prompts!Retrieve
    <3>1. /\ phase = "retrieving" /\ phase' = "budgeted" /\
               UNCHANGED <<Prompts!inputs, total, older>>
          /\ \/ context' = 0
             \/ Prompts!RepoLeft # 0 /\ context' = Prompts!Truncated(retrieved, Prompts!RepoLeft)
      BY <2>7 DEF Prompts!Retrieve
    <3>2. Prompts!RepoLeft \in Nat
      <4>1. Prompts!HistoryBudget \in Nat /\ Prompts!RepoBudget \in Nat
        BY <1>2, Shares
      <4>2. Prompts!Overrun \in Nat
        BY <1>2, <4>1, OfTwo DEF Prompts!Overrun
      <4>. QED BY <4>1, <4>2, OfTwo DEF Prompts!RepoLeft
    <3>3. context' \in Nat
      <4>1. Prompts!Truncated(retrieved, Prompts!RepoLeft) \in Nat
        BY <1>2, <3>2, Shortened
      <4>. QED BY <3>1, <4>1
    <3>4. Prompts!Truncated(retrieved, Prompts!RepoLeft)' = Prompts!Truncated(retrieved, Prompts!RepoLeft)
      BY <2>2, <3>1 DEF Prompts!inputs, Prompts!Truncated
    <3>. QED BY <1>2, <2>2, <3>1, <3>2, <3>3, <3>4 DEF Prompts!inputs
  <2>8. CASE Prompts!RetrieveUncut
    BY <1>2, <2>2, <2>8 DEF Prompts!RetrieveUncut, Prompts!inputs
  <2>9. CASE Prompts!BuildPrompt
    <3>1. /\ phase # "asked" /\ phase' = "sent" /\
               UNCHANGED <<Prompts!inputs, total, older, context>>
          /\ context > 0 =>
               prompt' = Prompts!Heading + Prompts!Truncated(context, Prompts!Allowance) + Prompts!BasePrompt
      BY <1>2, <2>9 DEF Prompts!BuildPrompt
    <3>. QED BY <1>2, <2>2, <3>1 DEF Prompts!inputs, Prompts!Truncated
  <2>. QED BY <1>2, <2>3, <2>4, <2>5, <2>6, <2>7, <2>8, <2>9 DEF Prompts!Next
<1>. QED BY <1>1, <1>2, PTL DEF Prompts!Spec

LEMMA StaysInBudget ==
  ASSUME PromptBounds, PromptInv
  PROVE  Prompts!ContextStaysInBudget
<1>. SUFFICES ASSUME phase = "budgeted", Prompts!Fixed + Prompts!EngineMargin + Newest <= Prompts!Usable
              PROVE  Prompts!Fixed + total + Prompts!Tokens(context) <= Prompts!Usable
  BY DEF Prompts!ContextStaysInBudget, Newest
<1>1. /\ total \in Nat /\ (total <= Prompts!HistoryBudget \/ total = Newest) /\
           retrieved \in Nat /\ context \in Nat
      /\ context = 0 \/
           (Prompts!RepoLeft > 0 /\ context = Prompts!Truncated(retrieved, Prompts!RepoLeft))
  BY DEF PromptInv
<1>2. /\ Prompts!Usable \in Nat /\ Prompts!Fixed \in Nat /\ Prompts!Remaining \in Nat /\
           Prompts!HistoryBudget \in Nat /\ Prompts!RepoBudget \in Nat
      /\ Prompts!HistoryBudget + Prompts!RepoBudget <= Prompts!Remaining
      /\ Prompts!Remaining = IF Prompts!Usable >= Prompts!Fixed + 200 THEN Prompts!Usable - (Prompts!Fixed + 200) ELSE 0
  BY Shares DEF PromptInv
<1>3. Newest \in Nat
  <2>1. messages \in Seq(Nat)
    BY DEF PromptInv
  <2>. QED BY <2>1, TokensOf DEF Newest
<1>4. Prompts!Overrun = IF 0 >= total - Prompts!HistoryBudget THEN 0 ELSE total - Prompts!HistoryBudget
  BY <1>1, <1>2, OfTwo DEF Prompts!Overrun
<1>5. Prompts!RepoLeft = IF 0 >= Prompts!RepoBudget - Prompts!Overrun THEN 0 ELSE Prompts!RepoBudget - Prompts!Overrun
  BY <1>1, <1>2, <1>4, OfTwo DEF Prompts!RepoLeft
<1>6. Prompts!Tokens(context) <= Prompts!RepoLeft \/ Prompts!Tokens(context) <= 11
  <2>1. CASE context = 0
    BY <2>1, TokensOf
  <2>2. CASE Prompts!RepoLeft > 0 /\ context = Prompts!Truncated(retrieved, Prompts!RepoLeft)
    <3>1. Prompts!RepoLeft \in Nat
      BY <1>1, <1>2, <1>4, <1>5
    <3>. QED BY <1>1, <2>2, <3>1, Shortened
  <2>. QED BY <1>1, <2>1, <2>2
<1>7. Prompts!Tokens(context) \in Nat
  BY <1>1, TokensOf
<1>8. Prompts!Fixed + 200 + Newest <= Prompts!Usable
  BY DEF Prompts!EngineMargin
<1>. QED BY <1>1, <1>2, <1>3, <1>4, <1>5, <1>6, <1>7, <1>8

LEMMA LeavesRoom ==
  ASSUME PromptBounds, PromptInv
  PROVE  Prompts!PromptLeavesRoom
<1>. SUFFICES ASSUME phase = "sent", context > 0, Prompts!Allowance > 0 PROVE Prompts!Tokens(prompt) <= Prompts!Usable
  BY DEF Prompts!PromptLeavesRoom
<1>1. /\ context \in Nat /\ template \in Nat /\ task \in Nat
      /\ prompt = 64 + Prompts!Truncated(context, Prompts!Allowance) + Prompts!BasePrompt
  BY DEF PromptInv, Prompts!Heading
<1>2. Prompts!BasePrompt \in Nat /\ Prompts!Usable \in Nat /\ Prompts!BasePrompt \div 4 \in Nat /\
        Prompts!BasePrompt <= 4 * (Prompts!BasePrompt \div 4) + 3
  BY <1>1, Shares DEF Prompts!BasePrompt
<1>3. Prompts!PlanMargin \in Nat /\ Prompts!PlanMargin >= 50
  <2>1. (NCtx * 5) \div 100 \in Int
    BY DEF PromptBounds
  <2>. QED BY <2>1, OfTwo DEF Prompts!PlanMargin
<1>4. Prompts!Allowance = Prompts!Usable - (Prompts!BasePrompt \div 4) - Prompts!PlanMargin /\
        Prompts!Allowance \in Nat
  <2>1. Prompts!Allowance = IF 0 >= Prompts!Usable - (Prompts!BasePrompt \div 4) - Prompts!PlanMargin THEN 0
                    ELSE Prompts!Usable - (Prompts!BasePrompt \div 4) - Prompts!PlanMargin
    BY <1>2, <1>3, OfTwo DEF Prompts!Allowance, Prompts!PerToken
  <2>. QED BY <1>2, <1>3, <2>1
<1>5. Prompts!Truncated(context, Prompts!Allowance) \in Nat
      /\ (Prompts!Truncated(context, Prompts!Allowance) <= 4 * Prompts!Allowance + 3 \/ Prompts!Truncated(context, Prompts!Allowance) = 46)
  BY <1>1, <1>4, Shortened
<1>6. prompt \in Nat /\ prompt <= 4 * Prompts!Usable
  BY <1>1, <1>2, <1>3, <1>4, <1>5
<1>. QED BY <1>2, <1>3, <1>4, <1>6, TokensOf

\* What history and repository take leaves room for the rest of the window, and
\* so does the planner's prompt (PromptBudget's BudgetsFit).
THEOREM PromptsFit == ASSUME PromptBounds PROVE Prompts!Spec => []Prompts!BudgetsFit
<1>1. PromptInv => Prompts!BudgetsFit
  BY StaysInBudget, LeavesRoom DEF Prompts!BudgetsFit
<1>. QED BY <1>1, PromptInductive, PTL

-----------------------------------------------------------------------------
(* The retrieval.                                                            *)

LEMMA BestOfSeeds ==
  ASSUME NEW S \in SUBSET Int, IsFiniteSet(S), S # {}
  PROVE  Retriever!Max(S) \in S /\ \A y \in S : Retriever!Max(S) >= y
BY Greatest DEF Retriever!Max

\* Above is a strict total order of the files with a score.
LEMMA Ordered ==
  ASSUME RetrieverBounds, NEW D \in SUBSET Indexed, NEW s \in [D -> Int]
  PROVE  /\ \A f, g \in D : f # g => Retriever!Above(s, f, g) \/ Retriever!Above(s, g, f)
         /\ \A f, g \in D : ~(Retriever!Above(s, f, g) /\ Retriever!Above(s, g, f))
         /\ \A f, g, h \in D : Retriever!Above(s, f, g) /\ Retriever!Above(s, g, h) =>
              Retriever!Above(s, f, h)
<1>1. Retriever!Place \in [Indexed -> 1 .. Retriever!Cardinality(Indexed)] /\
        Retriever!IsInjective(Retriever!Place)
  <2>. DEFINE n == Retriever!Cardinality(Indexed)
  <2>1. IsFiniteSet(1 .. n) /\ Retriever!Cardinality(1 .. n) = n
    BY RetrieverCounts, FS_CardinalityType, FS_Interval DEF RetrieverBounds
  <2>2. PICK p \in Bijection(Indexed, 1 .. n) : TRUE
    BY <2>1, RetrieverCounts, FS_SameCardinalityBij, Fun_ExistsBij DEF RetrieverBounds
  <2>3. p \in [Indexed -> 1 .. n] /\ \A f, g \in Indexed : p[f] = p[g] => f = g
    BY <2>2 DEF Bijection, Injection, IsInjective
  <2>4. Retriever!IsInjective(p)
    BY <2>3 DEF Retriever!IsInjective
  <2>. QED BY <2>3, <2>4 DEF Retriever!Place
<1>2. \A f \in Indexed : Retriever!Place[f] \in Nat
  BY <1>1, RetrieverCounts, FS_CardinalityType DEF RetrieverBounds
<1>3. \A f, g \in Indexed : Retriever!Place[f] = Retriever!Place[g] => f = g
  BY <1>1 DEF Retriever!IsInjective
<1>4. \A f \in D : s[f] \in Int /\ Retriever!Place[f] \in Int
  BY <1>2
<1>5. \A f, g \in D : f # g => Retriever!Above(s, f, g) \/ Retriever!Above(s, g, f)
  BY <1>3, <1>4 DEF Retriever!Above
<1>6. \A f, g \in D : ~(Retriever!Above(s, f, g) /\ Retriever!Above(s, g, f))
  BY <1>4 DEF Retriever!Above
<1>7. \A f, g, h \in D : Retriever!Above(s, f, g) /\ Retriever!Above(s, g, h) =>
        Retriever!Above(s, f, h)
  BY <1>4 DEF Retriever!Above
<1>. QED BY <1>5, <1>6, <1>7

\* Sorted lists the files with a score, each once, the better ones first.
LEMMA Best ==
  ASSUME RetrieverBounds, NEW D \in SUBSET Indexed, NEW s \in [D -> Int]
  PROVE  LET n == Retriever!Cardinality(D)
         IN  /\ n \in Nat /\ Retriever!Sorted(s) \in [1 .. n -> D] /\ Retriever!Sorted(s) \in Seq(D) /\ Len(Retriever!Sorted(s)) = n
             /\ \A f \in D : \E k \in 1 .. n : Retriever!Sorted(s)[k] = f
             /\ \A k, l \in 1 .. n : Retriever!Sorted(s)[k] = Retriever!Sorted(s)[l] => k = l
             /\ \A k, l \in 1 .. n :
                  Retriever!Above(s, Retriever!Sorted(s)[k], Retriever!Sorted(s)[l]) => k < l
<1>. DEFINE R == {e \in D \X D : Retriever!Above(s, e[1], e[2])}
            n == Retriever!Cardinality(D)
<1>1. IsFiniteSet(D)
  BY RetrieverCounts, FS_Subset DEF RetrieverBounds
<1>2. \A f, g \in D : <<f, g>> \in R <=> Retriever!Above(s, f, g)
  OBVIOUS
<1>3. \A f \in D : RankIn(D, R, f) = Retriever!Cardinality({g \in D : Retriever!Above(s, g, f)})
  <2>. SUFFICES ASSUME NEW f \in D
                PROVE  {g \in D : <<g, f>> \in R} = {g \in D : Retriever!Above(s, g, f)}
    BY RetrieverCounts DEF RankIn
  <2>. QED BY <1>2
<1>. HIDE DEF R
<1>4. /\ n \in Nat
      /\ \A f \in D : RankIn(D, R, f) \in 0 .. n - 1
      /\ \A f, g \in D : <<f, g>> \in R => RankIn(D, R, f) < RankIn(D, R, g)
      /\ \A f, g \in D : RankIn(D, R, f) = RankIn(D, R, g) => f = g
      /\ \A k \in 1 .. n : \E f \in D : RankIn(D, R, f) = k - 1
  <2>1. OrderOf(D, R)
    <3>1. \A f, g \in D : f # g => <<f, g>> \in R \/ <<g, f>> \in R
      BY <1>2, Ordered
    <3>2. \A f, g \in D : ~(<<f, g>> \in R /\ <<g, f>> \in R)
      BY <1>2, Ordered
    <3>3. \A f, g, h \in D : <<f, g>> \in R /\ <<g, h>> \in R => <<f, h>> \in R
      BY <1>2, Ordered
    <3>. QED BY <3>1, <3>2, <3>3 DEF OrderOf
  <2>. QED BY <1>1, <2>1, RetrieverCounts, Ranks
<1>. HIDE DEF n
<1>. DEFINE rank(f) == RankIn(D, R, f)
            member(k) == CHOOSE f \in D : Retriever!Cardinality({g \in D : Retriever!Above(s, g, f)}) = k - 1
<1>5. \A k \in 1 .. n : member(k) \in D /\ rank(member(k)) = k - 1
  <2>. SUFFICES ASSUME NEW k \in 1 .. n PROVE member(k) \in D /\ rank(member(k)) = k - 1
    OBVIOUS
  <2>1. \E f \in D : Retriever!Cardinality({g \in D : Retriever!Above(s, g, f)}) = k - 1
    BY <1>3, <1>4
  <2>2. member(k) \in D /\
          Retriever!Cardinality({g \in D : Retriever!Above(s, g, member(k))}) = k - 1
    BY <2>1
  <2>. QED BY <1>3, <2>2
<1>6. Retriever!Sorted(s) = [k \in 1 .. n |-> member(k)]
  BY DEF Retriever!Sorted, n
<1>. HIDE DEF member
<1>7. Retriever!Sorted(s) \in [1 .. n -> D] /\ \A k \in 1 .. n :
        rank(Retriever!Sorted(s)[k]) = k - 1
  BY <1>5, <1>6
<1>. HIDE DEF rank
<1>8. Retriever!Sorted(s) \in Seq(D) /\ Len(Retriever!Sorted(s)) = n
  BY <1>4, <1>7
<1>9. \A k, l \in 1 .. n : Retriever!Sorted(s)[k] = Retriever!Sorted(s)[l] => k = l
  <2>. SUFFICES ASSUME NEW k \in 1 .. n, NEW l \in 1 .. n, Retriever!Sorted(s)[k] = Retriever!Sorted(s)[l] PROVE k = l
    OBVIOUS
  <2>1. k - 1 = l - 1
    BY <1>7
  <2>. QED BY <1>4, <2>1
<1>10. \A k, l \in 1 .. n : Retriever!Above(s, Retriever!Sorted(s)[k], Retriever!Sorted(s)[l]) =>
         k < l
  <2>. SUFFICES ASSUME NEW k \in 1 .. n, NEW l \in 1 .. n, Retriever!Above(s, Retriever!Sorted(s)[k], Retriever!Sorted(s)[l])
                PROVE  k < l
    OBVIOUS
  <2>1. Retriever!Sorted(s)[k] \in D /\ Retriever!Sorted(s)[l] \in D
    BY <1>7
  <2>2. rank(Retriever!Sorted(s)[k]) < rank(Retriever!Sorted(s)[l])
    BY <1>2, <1>4, <2>1 DEF rank
  <2>3. k - 1 < l - 1
    BY <1>7, <2>2
  <2>. QED BY <1>4, <2>3
<1>11. \A f \in D : \E k \in 1 .. n : Retriever!Sorted(s)[k] = f
  <2>. SUFFICES ASSUME NEW f \in D PROVE \E k \in 1 .. n : Retriever!Sorted(s)[k] = f
    OBVIOUS
  <2>1. rank(f) \in 0 .. n - 1
    BY <1>4 DEF rank
  <2>2. rank(f) + 1 \in 1 .. n /\ (rank(f) + 1) - 1 = rank(f)
    BY <1>4, <2>1
  <2>3. rank(Retriever!Sorted(s)[rank(f) + 1]) = rank(f) /\ Retriever!Sorted(s)[rank(f) + 1] \in D
    BY <1>7, <2>2
  <2>4. \A g \in D : rank(f) = rank(g) => f = g
    BY <1>4 DEF rank
  <2>. QED BY <2>2, <2>3, <2>4
<1>. QED BY <1>4, <1>7, <1>8, <1>9, <1>10, <1>11 DEF n

LEMMA FirstOf ==
  ASSUME NEW S, NEW q \in Seq(S), NEW m \in Nat
  PROVE  /\ Retriever!First(m, q) \in Seq(S) /\ Len(Retriever!First(m, q)) <= m /\
              Len(Retriever!First(m, q)) <= Len(q)
         /\ \A k \in 1 .. Len(Retriever!First(m, q)) : Retriever!First(m, q)[k] = q[k]
         /\ Len(Retriever!First(m, q)) \in Nat
         /\ \A k \in 1 .. Len(q) : k <= m => k <= Len(Retriever!First(m, q))
<1>. DEFINE e == Retriever!Min({m, Len(q)})
<1>1. e \in Nat /\ e <= m /\ e <= Len(q) /\ (e = m \/ e = Len(q))
  <2>. DEFINE two == {m, Len(q)}
  <2>1. Len(q) \in Nat
    OBVIOUS
  <2>2. \E x \in two : \A y \in two : x <= y
    BY <2>1
  <2>3. Retriever!Min(two) \in two /\ \A y \in two : Retriever!Min(two) <= y
    BY <2>2 DEF Retriever!Min
  <2>. HIDE DEF e
  <2>4. e \in {m, Len(q)} /\ \A y \in {m, Len(q)} : e <= y
    BY <2>3 DEF e
  <2>. QED BY <2>1, <2>4
<1>2. Retriever!First(m, q) = SubSeq(q, 1, e)
  BY DEF Retriever!First
<1>. HIDE DEF e
<1>3. /\ SubSeq(q, 1, e) \in Seq(S) /\ Len(SubSeq(q, 1, e)) = e
      /\ \A k \in 1 .. e : SubSeq(q, 1, e)[k] = q[k]
  BY <1>1
<1>. QED BY <1>1, <1>2, <1>3

Labels == {"idle", "scan", "publish", "build", "graph", "index", "rescan", "republish",
           "rebuild", "regraph", "use", "ready", "expand", "render", "done"}

\* What a thread has of the index and the graph where it is.
Well(t) ==
    /\ rPc[t] \in {"publish", "republish", "graph", "regraph"} => scan[t] # None
    /\ rPc[t] \in {"build", "graph", "index", "rescan", "republish", "rebuild", "regraph", "use"} =>
          rIndex # None
    /\ rPc[t] \in {"rescan", "republish", "rebuild", "regraph", "use"} => uses[t].index # None
    /\ rPc[t] = "use" => graph # None
    /\ rPc[t] \in {"ready", "expand", "render"} => uses[t].index # None /\ uses[t].graph # None
    /\ rPc[t] \in {"expand", "render"} => t = Ranker

Served ==
    /\ version \in Nat /\ rIndex \in Nat \cup {None} /\ graph \in Nat \cup {None}
    /\ rPc \in [Threads -> Labels]
    /\ scan \in [Threads -> Nat \cup {None}]
    /\ uses \in [Threads -> [index : Nat \cup {None}, graph : Nat \cup {None}]]
    /\ \A t \in Threads : Well(t)

\* A thread moves no other, and nobody takes the index or the graph away.
Alone(t) ==
    /\ \A u \in Threads \ {t} : rPc'[u] = rPc[u] /\ scan'[u] = scan[u] /\ uses'[u] = uses[u]
    /\ rIndex # None => rIndex' # None
    /\ graph # None => graph' # None

LEMMA ServedHolds ==
  ASSUME RetrieverBounds, Served, NEW t \in Threads, Retriever!Retrieve(t)
  PROVE  Served'
<1>. DEFINE Types == /\ version \in Nat /\ rIndex \in Nat \cup {None} /\ graph \in Nat \cup {None}
                     /\ rPc \in [Threads -> Labels]
                     /\ scan \in [Threads -> Nat \cup {None}]
                     /\ uses \in [Threads -> [index : Nat \cup {None}, graph : Nat \cup {None}]]
<1>1. Types /\ Well(t) /\ None \notin Nat
  BY DEF Served, RetrieverBounds
<1>2. ASSUME Retriever!AskIndex(t) PROVE Types' /\ Alone(t) /\ Well(t)'
  <2>1. Types' /\ Alone(t)
    BY <1>1, <1>2 DEF Retriever!AskIndex, Retriever!Goto, Retriever!service, Retriever!ranking,
    Alone, Labels
  <2>2. Well(t)'
    BY <1>1, <1>2 DEF Retriever!AskIndex, Retriever!Goto, Retriever!service, Retriever!ranking,
    Well, Labels
  <2>. QED BY <2>1, <2>2
<1>3. ASSUME Retriever!Scan(t) PROVE Types' /\ Alone(t) /\ Well(t)'
  <2>1. Types' /\ Alone(t)
    BY <1>1, <1>3 DEF Retriever!Scan, Retriever!Goto, Retriever!service, Retriever!ranking,
    Alone, Labels
  <2>2. Well(t)'
    BY <1>1, <1>3
       DEF Retriever!Scan, Retriever!Goto, Retriever!service, Retriever!ranking, Well, Labels
  <2>. QED BY <2>1, <2>2
<1>4. ASSUME Retriever!PublishIndex(t) PROVE Types' /\ Alone(t) /\ Well(t)'
  <2>1. Types' /\ Alone(t)
    <3>1. Types'
      BY <1>1, <1>4 DEF Retriever!PublishIndex, Retriever!Goto, Retriever!service,
      Retriever!ranking, Labels
    <3>2. Alone(t)
      BY <1>1, <1>4 DEF Retriever!PublishIndex, Retriever!Goto, Retriever!service,
      Retriever!ranking, Alone, Well
    <3>. QED BY <3>1, <3>2
  <2>2. Well(t)'
    BY <1>1, <1>4 DEF Retriever!PublishIndex, Retriever!Goto, Retriever!service,
    Retriever!ranking, Well, Labels
  <2>. QED BY <2>1, <2>2
<1>5. ASSUME Retriever!PublishGraph(t) PROVE Types' /\ Alone(t) /\ Well(t)'
  <2>1. Types' /\ Alone(t)
    <3>1. Types'
      BY <1>1, <1>5 DEF Retriever!PublishGraph, Retriever!Goto, Retriever!service,
      Retriever!ranking, Labels
    <3>2. Alone(t)
      BY <1>1, <1>5 DEF Retriever!PublishGraph, Retriever!Goto, Retriever!service,
      Retriever!ranking, Alone, Well
    <3>. QED BY <3>1, <3>2
  <2>2. Well(t)'
    BY <1>1, <1>5 DEF Retriever!PublishGraph, Retriever!Goto, Retriever!service,
    Retriever!ranking, Well, Labels
  <2>. QED BY <2>1, <2>2
<1>5a. ASSUME Retriever!BuildGraph(t) PROVE Types' /\ Alone(t) /\ Well(t)'
  <2>1. Types' /\ Alone(t)
    <3>1. Types'
      BY <1>1, <1>5a DEF Retriever!BuildGraph, Retriever!Goto, Retriever!service,
      Retriever!ranking, Labels
    <3>2. Alone(t)
      BY <1>1, <1>5a DEF Retriever!BuildGraph, Retriever!Goto, Retriever!service,
      Retriever!ranking, Alone, Well
    <3>. QED BY <3>1, <3>2
  <2>2. Well(t)'
    BY <1>1, <1>5a DEF Retriever!BuildGraph, Retriever!Goto, Retriever!service,
    Retriever!ranking, Well, Labels
  <2>. QED BY <2>1, <2>2
<1>6. ASSUME Retriever!TakeIndex(t) PROVE Types' /\ Alone(t) /\ Well(t)'
  <2>1. Types' /\ Alone(t)
    BY <1>1, <1>6 DEF Retriever!TakeIndex, Retriever!Goto, Retriever!service, Retriever!ranking,
    Alone, Labels
  <2>2. Well(t)'
    BY <1>1, <1>6 DEF Retriever!TakeIndex, Retriever!Goto, Retriever!service, Retriever!ranking,
    Well, Labels
  <2>. QED BY <2>1, <2>2
<1>7. ASSUME Retriever!TakeGraph(t) PROVE Types' /\ Alone(t) /\ Well(t)'
  <2>1. Types' /\ Alone(t)
    <3>1. Types'
      BY <1>1, <1>7 DEF Retriever!TakeGraph, Retriever!Goto, Retriever!service,
      Retriever!ranking, Labels
    <3>2. Alone(t)
      BY <1>1, <1>7 DEF Retriever!TakeGraph, Retriever!Goto, Retriever!service,
      Retriever!ranking, Alone
    <3>. QED BY <3>1, <3>2
  <2>2. Well(t)'
    BY <1>1, <1>7 DEF Retriever!TakeGraph, Retriever!Goto, Retriever!service, Retriever!ranking,
    Well, Labels
  <2>. QED BY <2>1, <2>2
<1>8. ASSUME Retriever!Nothing(t) PROVE Types' /\ Alone(t) /\ Well(t)'
  <2>1. Types' /\ Alone(t)
    BY <1>1, <1>8 DEF Retriever!Nothing, Retriever!Goto, Retriever!service, Retriever!ranking,
    Alone, Labels
  <2>2. Well(t)'
    BY <1>1, <1>8 DEF Retriever!Nothing, Retriever!Goto, Retriever!service, Retriever!ranking,
    Well, Labels
  <2>. QED BY <2>1, <2>2
<1>9. ASSUME Retriever!Expand(t) PROVE Types' /\ Alone(t) /\ Well(t)'
  <2>1. Types' /\ Alone(t)
    BY <1>1, <1>9 DEF Retriever!Expand, Retriever!Goto, Retriever!service, Retriever!ranking,
    Alone, Labels
  <2>2. Well(t)'
    BY <1>1, <1>9 DEF Retriever!Expand, Retriever!Goto, Retriever!service, Retriever!ranking,
    Well, Labels
  <2>. QED BY <2>1, <2>2
<1>10. ASSUME Retriever!Rendered(t) PROVE Types' /\ Alone(t) /\ Well(t)'
  <2>1. Types' /\ Alone(t)
    BY <1>1, <1>10 DEF Retriever!Rendered, Retriever!Goto, Retriever!service, Retriever!ranking,
    Alone, Labels
  <2>2. Well(t)'
    BY <1>1, <1>10 DEF Retriever!Rendered, Retriever!Goto, Retriever!service, Retriever!ranking,
    Well, Labels
  <2>. QED BY <2>1, <2>2
<1>11. ASSUME NEW m \in Retriever!Points, Retriever!Score(t, m)
       PROVE  Types' /\ Alone(t) /\ Well(t)'
  <2>1. Types' /\ Alone(t)
    BY <1>1, <1>11 DEF Retriever!Score, Retriever!Goto, Retriever!service, Retriever!ranking,
    Alone, Labels
  <2>2. Well(t)'
    BY <1>1, <1>11 DEF Retriever!Score, Retriever!Goto, Retriever!service, Retriever!ranking,
    Well, Labels
  <2>. QED BY <2>1, <2>2
<1>12. ASSUME NEW c \in Costs, Retriever!Render(t, c) PROVE Types' /\ Alone(t) /\ Well(t)'
  BY <1>1, <1>12 DEF Retriever!Render, Retriever!service, Retriever!ranking, Alone, Well
<1>13. Types' /\ Alone(t) /\ Well(t)'
  BY <1>2, <1>3, <1>4, <1>5, <1>6, <1>7, <1>8, <1>9, <1>10, <1>11, <1>12, <1>5a
  DEF Retriever!Retrieve
<1>14. ASSUME NEW u \in Threads, u # t PROVE Well(u)'
  BY <1>1, <1>13, <1>14 DEF Alone, Well, Served
<1>. QED BY <1>13, <1>14 DEF Served

\* While no two threads have been in the service at a time, one that is in it is
\* alone, and outside it index and graph are of one scan.
Matched(t) ==
    /\ rPc[t] \notin {"rescan", "republish", "rebuild", "regraph"}
    /\ rPc[t] = "graph" => scan[t] = rIndex
    /\ rPc[t] \in {"index", "use"} => graph = rIndex
    /\ rPc[t] = "use" => uses[t].index = rIndex
    /\ rPc[t] \in {"ready", "expand", "render"} => uses[t].graph = uses[t].index

Single == \A t, u \in Threads : Retriever!InService(t) /\ Retriever!InService(u) => t = u

Paired ==
    /\ overlap \in BOOLEAN
    /\ ~overlap => /\ Single
                   /\ (\A t \in Threads : ~Retriever!InService(t)) => graph = rIndex
                   /\ \A t \in Threads : Matched(t)

\* The steps inside the service, and those of a query.
LEMMA PairedHolds ==
  ASSUME RetrieverBounds, Served, Paired, NEW t \in Threads, Retriever!Retrieve(t)
  PROVE  Paired'
<1>1. /\ rPc \in [Threads -> Labels] /\ scan \in [Threads -> Nat \cup {None}]
      /\ uses \in [Threads -> [index : Nat \cup {None}, graph : Nat \cup {None}]]
      /\ Well(t)
  BY DEF Served
<1>2. overlap' \in BOOLEAN
  BY DEF Paired, Retriever!Retrieve, Retriever!AskIndex, Retriever!Scan, Retriever!PublishIndex,
  Retriever!BuildGraph, Retriever!PublishGraph, Retriever!TakeIndex, Retriever!TakeGraph,
  Retriever!Nothing, Retriever!Score, Retriever!Expand, Retriever!Rendered, Retriever!Render,
  Retriever!service
<1>. SUFFICES ASSUME ~overlap'
              PROVE  /\ Single'
                     /\ (\A u \in Threads : ~Retriever!InService(u)') => graph' = rIndex'
                     /\ \A u \in Threads : Matched(u)'
  BY <1>2 DEF Paired
<1>. DEFINE Held == /\ Single
                    /\ (\A u \in Threads : ~Retriever!InService(u)) => graph = rIndex
                    /\ \A u \in Threads : Matched(u)
<1>. USE DEF Retriever!Goto, Retriever!InService
<1>3. ASSUME Retriever!AskIndex(t) PROVE Held'
  <2>1. ~overlap /\ \A u \in Threads \ {t} : ~Retriever!InService(u)
    BY <1>3 DEF Retriever!AskIndex
  <2>2. Held /\ rPc[t] = "idle" /\ graph = rIndex
    BY <1>3, <2>1 DEF Retriever!AskIndex, Paired
  <2>3. /\ \A u \in Threads \ {t} : rPc'[u] = rPc[u]
        /\ rPc'[t] \in {"scan", "index"}
        /\ graph' = graph /\ rIndex' = rIndex /\ uses' = uses /\ scan' = scan
    BY <1>1, <1>3 DEF Retriever!AskIndex
  <2>4. Matched(t)' /\ Retriever!InService(t)'
    BY <2>2, <2>3 DEF Matched
  <2>5. \A u \in Threads \ {t} : Matched(u)' /\ ~Retriever!InService(u)'
    BY <2>1, <2>2, <2>3 DEF Matched
  <2>. QED BY <2>4, <2>5 DEF Single
<1>. DEFINE Inside == Retriever!InService(t) /\ \A u \in Threads \ {t} : ~Retriever!InService(u)
            Others == \A u \in Threads \ {t} : /\ rPc'[u] = rPc[u] /\ scan'[u] = scan[u]
                                             /\ uses'[u] = uses[u]
\* Who is not in the service has a pair that no step of another disturbs.
<1>4. ASSUME Inside, Held, Others, Matched(t)', Retriever!InService(t)' \/ graph' = rIndex'
      PROVE  Held'
  <2>1. \A u \in Threads \ {t} : Matched(u)' /\ ~Retriever!InService(u)'
    BY <1>4 DEF Matched
  <2>. QED BY <1>4, <2>1 DEF Single
<1>5. ASSUME Retriever!InService(t), overlap' = overlap PROVE Inside /\ Held
  BY <1>5 DEF Paired, Single
<1>6. ASSUME Retriever!Scan(t) PROVE Held'
  <2>1. Inside /\ Held
    BY <1>5, <1>6 DEF Retriever!Scan
  <2>2. Others /\ Retriever!InService(t)'
    BY <1>1, <1>6 DEF Retriever!Scan
  <2>3. Matched(t)'
    BY <1>1, <1>6, <2>1 DEF Retriever!Scan, Matched
  <2>. QED BY <1>4, <2>1, <2>2, <2>3
<1>7. ASSUME Retriever!PublishIndex(t) PROVE Held'
  <2>1. Inside /\ Held
    BY <1>5, <1>7 DEF Retriever!PublishIndex
  <2>2. Others /\ Retriever!InService(t)'
    BY <1>1, <1>7 DEF Retriever!PublishIndex
  <2>3. Matched(t)'
    BY <1>1, <1>7, <2>1 DEF Retriever!PublishIndex, Matched
  <2>. QED BY <1>4, <2>1, <2>2, <2>3
<1>8. ASSUME Retriever!BuildGraph(t) PROVE Held'
  <2>1. Inside /\ Held
    BY <1>5, <1>8 DEF Retriever!BuildGraph
  <2>2. Others /\ Retriever!InService(t)'
    BY <1>1, <1>8 DEF Retriever!BuildGraph
  <2>3. Matched(t)'
    BY <1>1, <1>8, <2>1 DEF Retriever!BuildGraph, Matched
  <2>. QED BY <1>4, <2>1, <2>2, <2>3
<1>9. ASSUME Retriever!PublishGraph(t) PROVE Held'
  <2>1. Inside /\ Held
    BY <1>5, <1>9 DEF Retriever!PublishGraph
  <2>2. Others /\ Retriever!InService(t)'
    BY <1>1, <1>9 DEF Retriever!PublishGraph
  <2>3. Matched(t)'
    BY <1>1, <1>9, <2>1 DEF Retriever!PublishGraph, Matched
  <2>. QED BY <1>4, <2>1, <2>2, <2>3
<1>10. ASSUME Retriever!TakeIndex(t) PROVE Held'
  <2>1. Inside /\ Held
    BY <1>5, <1>10 DEF Retriever!TakeIndex, Retriever!service
  <2>2. Others /\ Retriever!InService(t)'
    BY <1>1, <1>10 DEF Retriever!TakeIndex, Retriever!service
  <2>3. graph = rIndex /\ rIndex # None
    BY <1>1, <1>10, <2>1 DEF Retriever!TakeIndex, Matched, Well
  <2>4. Matched(t)'
    BY <1>1, <1>10, <2>3 DEF Retriever!TakeIndex, Retriever!service, Matched
  <2>. QED BY <1>4, <2>1, <2>2, <2>4
<1>11. ASSUME Retriever!TakeGraph(t) PROVE Held'
  <2>1. Inside /\ Held
    BY <1>5, <1>11 DEF Retriever!TakeGraph, Retriever!service
  <2>2. Others
    BY <1>1, <1>11 DEF Retriever!TakeGraph, Retriever!service
  <2>3. graph = rIndex /\ uses[t].index = rIndex
    BY <1>11, <2>1 DEF Retriever!TakeGraph, Matched
  <2>4. graph' = rIndex'
    BY <1>11, <2>3 DEF Retriever!TakeGraph, Retriever!service
  <2>5. rPc'[t] = "ready" /\ uses'[t].graph = graph /\ uses'[t].index = uses[t].index
    BY <1>1, <1>11 DEF Retriever!TakeGraph
  <2>6. Matched(t)'
    BY <2>3, <2>5 DEF Matched
  <2>. QED BY <1>4, <2>1, <2>2, <2>4, <2>6
<1>12. ASSUME rPc[t] \in {"ready", "expand", "render"}, UNCHANGED <<Retriever!service, uses>>,
              \E label \in {"ready", "expand", "render", "done"} : rPc' = [rPc EXCEPT ![t] = label]
       PROVE  Held'
  <2>1. PICK label \in {"ready", "expand", "render", "done"} : rPc' = [rPc EXCEPT ![t] = label]
    BY <1>12
  <2>2. /\ rIndex' = rIndex /\ graph' = graph /\ scan' = scan /\ uses' = uses
        /\ overlap' = overlap
    BY <1>12 DEF Retriever!service
  <2>3. Held
    BY <2>2 DEF Paired
  <2>4. \A u \in Threads : Retriever!InService(u)' <=> Retriever!InService(u)
    BY <1>1, <1>12, <2>1
  <2>5. \A u \in Threads : Matched(u)'
    BY <1>1, <1>12, <2>1, <2>2, <2>3 DEF Matched
  <2>. QED BY <2>2, <2>3, <2>4, <2>5 DEF Single
<1>13. ASSUME \/ Retriever!Nothing(t) \/ Retriever!Expand(t) \/ Retriever!Rendered(t)
              \/ \E m \in Retriever!Points : Retriever!Score(t, m)
              \/ \E c \in Costs : Retriever!Render(t, c)
       PROVE  Held'
  <2>1. ASSUME Retriever!Nothing(t) PROVE Held'
    BY <1>12, <2>1 DEF Retriever!Nothing
  <2>2. ASSUME Retriever!Expand(t) PROVE Held'
    BY <1>12, <2>2 DEF Retriever!Expand
  <2>3. ASSUME Retriever!Rendered(t) PROVE Held'
    BY <1>12, <2>3 DEF Retriever!Rendered
  <2>4. ASSUME NEW m \in Retriever!Points, Retriever!Score(t, m) PROVE Held'
    BY <1>12, <2>4 DEF Retriever!Score
  <2>5. ASSUME NEW c \in Costs, Retriever!Render(t, c) PROVE Held'
    <3>1. rPc[t] = "render" /\ rPc' = [rPc EXCEPT ![t] = "render"] /\ UNCHANGED <<Retriever!service, uses>>
      BY <1>1, <2>5 DEF Retriever!Render, Retriever!Turn
    <3>. QED BY <1>12, <3>1
  <2>. QED BY <1>13, <2>1, <2>2, <2>3, <2>4, <2>5
<1>. QED BY <1>3, <1>6, <1>7, <1>8, <1>9, <1>10, <1>11, <1>13 DEF Retriever!Retrieve

LEMMA ScoresAreNumbers ==
  ASSUME RetrieverBounds, NEW D, NEW s \in [D -> Scores]
  PROVE  s \in [D -> Int] /\ \A f \in D : s[f] \in Int
<1>1. \A x \in Scores : x \in Int
  BY DEF RetrieverBounds
<1>. QED BY <1>1

\* What a file inherits is less than what a neighbour that speaks for it has.
LEMMA Less ==
  ASSUME RetrieverBounds, NEW D \in SUBSET Indexed, NEW s \in [D -> Scores],
         NEW from \in SUBSET D, NEW f \in Indexed, from \cap Retriever!Neighbours(f) # {}
  PROVE  /\ Retriever!Inherited(s, from, f) \in Int
         /\ \E g \in from \cap Retriever!Neighbours(f) : Retriever!Inherited(s, from, f) < s[g]
<1>. DEFINE seeds == from \cap Retriever!Neighbours(f)
            share(g) == (s[g] * Retriever!Share(g, f)) \div 10
            shares == {share(g) : g \in seeds}
            image == [g \in seeds |-> share(g)]
<1>1. \A g \in seeds : share(g) \in Int /\ share(g) < s[g]
  <2>. SUFFICES ASSUME NEW g \in seeds PROVE share(g) \in Int /\ share(g) < s[g]
    OBVIOUS
  <2>1. s[g] \in Nat /\ s[g] >= 1
    <3>1. s[g] \in Scores
      OBVIOUS
    <3>2. s[g] \in Nat \ {0}
      BY <3>1 DEF RetrieverBounds
    <3>. HIDE DEF share, seeds
    <3>. QED BY <3>2
  <2>2. CASE Retriever!Share(g, f) = 3
    BY <2>1, <2>2
  <2>3. CASE Retriever!Share(g, f) = 4
    BY <2>1, <2>3
  <2>. QED BY <2>2, <2>3 DEF Retriever!Share
<1>2. IsFiniteSet(seeds)
  BY RetrieverCounts, FS_Subset DEF RetrieverBounds
<1>. HIDE DEF share, seeds
<1>3. image \in Surjection(seeds, shares)
  BY DEF Surjection
<1>4. IsFiniteSet(shares) /\ shares \in SUBSET Int /\ shares # {}
  BY <1>1, <1>2, <1>3, RetrieverCounts, FS_Surjection DEF seeds
<1>5. Retriever!Max(shares) \in shares
  BY <1>4, BestOfSeeds
<1>6. Retriever!Inherited(s, from, f) = Retriever!Max(shares)
  BY DEF Retriever!Inherited, shares, share, seeds
<1>7. PICK g \in seeds : Retriever!Max(shares) = share(g)
  BY <1>5
<1>. QED BY <1>1, <1>6, <1>7 DEF seeds

\* Until the ranker's query matched, nothing is ranked; then it is.
Seeded ==
    /\ rPc[Ranker] \notin {"render", "done"} =>
          ranked = <<>> /\ cost = <<>> /\ sections = <<>> /\ left = Budget
    /\ rPc[Ranker] = "expand" => matched \in SUBSET Indexed /\ scores \in [matched -> Scores]
    /\ ranked \in Seq(Indexed)
    /\ \A i, j \in DOMAIN ranked : ranked[i] = ranked[j] => i = j
    /\ Retriever!NeighboursComeAfter

LEMMA ExpandRanks ==
  ASSUME RetrieverBounds, Seeded, rPc[Ranker] = "expand", Retriever!Expand(Ranker)
  PROVE  /\ ranked' \in Seq(Indexed)
         /\ \A i, j \in DOMAIN ranked' : ranked'[i] = ranked'[j] => i = j
         /\ Retriever!NeighboursComeAfter'
<1>. DEFINE q == Retriever!First(MaxFiles \div 2 + 1, Retriever!Sorted(scores))
            from == Retriever!Range(q)
            new == (UNION {Retriever!Neighbours(g) : g \in from}) \ DOMAIN scores
            all == [f \in DOMAIN scores \cup new |->
                       IF f \in new THEN Retriever!Inherited(scores, from, f) ELSE scores[f]]
            D == matched \cup new
            n == Retriever!Cardinality(D)
<1>1. matched \in SUBSET Indexed /\ scores \in [matched -> Scores] /\ DOMAIN scores = matched
  BY DEF Seeded
<1>2. ranked' = Retriever!First(MaxFiles, Retriever!Sorted(all)) /\ matched' = matched
  BY DEF Retriever!Expand
<1>3. from \in SUBSET matched
  <2>1. scores \in [matched -> Int]
    BY <1>1, ScoresAreNumbers
  <2>2. Retriever!Sorted(scores) \in Seq(matched)
    BY <1>1, <2>1, Best
  <2>3. MaxFiles \div 2 + 1 \in Nat
    BY DEF RetrieverBounds
  <2>4. q \in Seq(matched)
    BY <2>2, <2>3, FirstOf
  <2>. HIDE DEF q
  <2>. QED BY <2>4 DEF Retriever!Range
<1>. HIDE DEF q, from
<1>4. new \in SUBSET Indexed /\ \A f \in new : f \notin matched /\ \E g \in from :
        f \in Retriever!Neighbours(g)
  BY <1>1 DEF Retriever!Neighbours
<1>5. \A f \in Indexed : \A g \in Indexed : f \in Retriever!Neighbours(g) <=>
        g \in Retriever!Neighbours(f)
  BY DEF Retriever!Neighbours
<1>. HIDE DEF new
<1>6. ASSUME NEW f \in new
      PROVE  Retriever!Inherited(scores, from, f) \in Int
             /\ \E g \in from \cap Retriever!Neighbours(f) :
                  Retriever!Inherited(scores, from, f) < scores[g]
  <2>1. from \cap Retriever!Neighbours(f) # {} /\ f \in Indexed
    BY <1>1, <1>3, <1>4, <1>5
  <2>. QED BY <1>1, <1>3, <2>1, Less
<1>7. /\ all \in [D -> Int] /\ D \in SUBSET Indexed
      /\ \A f \in new : all[f] = Retriever!Inherited(scores, from, f)
      /\ \A f \in matched : all[f] = scores[f]
  <2>1. \A f \in matched : scores[f] \in Int
    BY <1>1, ScoresAreNumbers
  <2>2. \A f \in new : f \notin matched /\ Retriever!Inherited(scores, from, f) \in Int
    BY <1>4, <1>6
  <2>. QED BY <1>1, <1>4, <2>1, <2>2
<1>. HIDE DEF all, D
<1>8. ASSUME NEW f \in new
      PROVE  \E g \in matched \cap Retriever!Neighbours(f) : Retriever!Above(all, g, f)
  <2>1. PICK g \in from \cap Retriever!Neighbours(f) :
               Retriever!Inherited(scores, from, f) < scores[g]
    BY <1>6
  <2>2. g \in matched /\ all[g] \in Int /\ all[f] \in Int /\ all[f] < all[g]
    BY <1>3, <1>7, <2>1 DEF D
  <2>3. all[g] > all[f]
    BY <2>2
  <2>. QED BY <2>1, <2>2, <2>3 DEF Retriever!Above
<1>9. /\ n \in Nat /\ Retriever!Sorted(all) \in Seq(D) /\ Len(Retriever!Sorted(all)) = n
      /\ \A f \in D : \E k \in 1 .. n : Retriever!Sorted(all)[k] = f
      /\ \A k, l \in 1 .. n : Retriever!Sorted(all)[k] = Retriever!Sorted(all)[l] => k = l
      /\ \A k, l \in 1 .. n :
           Retriever!Above(all, Retriever!Sorted(all)[k], Retriever!Sorted(all)[l]) => k < l
  BY <1>7, Best
<1>10. MaxFiles \in Nat
  BY DEF RetrieverBounds
<1>. DEFINE top == Retriever!First(MaxFiles, Retriever!Sorted(all))
            e == Len(top)
<1>11. /\ top \in Seq(D) /\ e \in Nat /\ e <= n
       /\ \A k \in 1 .. e : top[k] = Retriever!Sorted(all)[k]
  BY <1>9, <1>10, FirstOf
<1>. HIDE DEF top, n
<1>12. DOMAIN top = 1 .. e /\ \A k \in 1 .. e : k \in 1 .. n /\ top[k] \in D
  BY <1>9, <1>11
<1>. HIDE DEF e
<1>13. \A i, j \in 1 .. e : top[i] = top[j] => i = j
  BY <1>9, <1>11, <1>12
<1>14. ASSUME NEW i \in 1 .. e, top[i] \notin matched
       PROVE  \E j \in 1 .. i - 1 : top[j] \in matched \cap Retriever!Neighbours(top[i])
  <2>1. top[i] \in new
    BY <1>12, <1>14 DEF D
  <2>2. PICK g \in matched \cap Retriever!Neighbours(top[i]) : Retriever!Above(all, g, top[i])
    BY <1>8, <2>1
  <2>3. PICK j \in 1 .. n : Retriever!Sorted(all)[j] = g
    BY <1>9 DEF D
  <2>4. j < i
    BY <1>9, <1>11, <1>12, <2>2, <2>3
  <2>5. j \in 1 .. i - 1 /\ j \in 1 .. e
    BY <1>9, <1>11, <2>4
  <2>. QED BY <1>11, <2>2, <2>3, <2>5
<1>15. ranked' = top
  BY <1>2 DEF top
<1>16. top \in Seq(Indexed)
  BY <1>7, <1>11
<1>. QED BY <1>2, <1>12, <1>13, <1>14, <1>15, <1>16 DEF Retriever!NeighboursComeAfter

\* What the renderer has shown, left out and spent.
Shown ==
    /\ IsFiniteSet(DOMAIN cost) /\ Retriever!Cardinality(DOMAIN cost) \in 0 .. Len(ranked)
    /\ DOMAIN cost = {ranked[k] : k \in 1 .. Retriever!Cardinality(DOMAIN cost)}
    /\ \A f \in DOMAIN cost : cost[f] \in Nat
    /\ sections \in Seq(DOMAIN cost) /\ left \in Nat
    /\ \E spent \in [0 .. Len(sections) -> 0 .. Budget] :
          /\ spent[0] = 0 /\ spent[Len(sections)] + left = Budget
          /\ \A i \in DOMAIN sections : spent[i] = spent[i - 1] + cost[sections[i]]
    /\ \A f \in DOMAIN cost : f \notin Retriever!Range(sections) => cost[f] > left

LEMMA RenderShows ==
  ASSUME RetrieverBounds, Seeded, Shown, NEW c \in Costs, Retriever!Render(Ranker, c)
  PROVE  Shown'
<1>. DEFINE m == Retriever!Cardinality(DOMAIN cost)
            f == ranked[m + 1]
            more == [g \in DOMAIN cost \cup {f} |-> IF g = f THEN c ELSE cost[g]]
<1>1. /\ Len(ranked) > m /\ ranked' = ranked /\ cost' = more
      /\ IF Retriever!Fits(c) THEN sections' = Append(sections, f) /\ left' = left - c
                    ELSE sections' = sections /\ left' = left
  BY DEF Retriever!Render, Retriever!Turn
<1>2. /\ IsFiniteSet(DOMAIN cost) /\ m \in Nat /\ m + 1 <= Len(ranked) /\ Len(ranked) \in Nat
      /\ ranked \in Seq(Indexed) /\ \A i, j \in DOMAIN ranked : ranked[i] = ranked[j] => i = j
      /\ DOMAIN cost = {ranked[k] : k \in 1 .. m}
      /\ \A g \in DOMAIN cost : cost[g] \in Nat
      /\ sections \in Seq(DOMAIN cost) /\ left \in Nat /\ c \in Nat /\ Budget \in Nat
      /\ \A g \in DOMAIN cost : g \notin Retriever!Range(sections) => cost[g] > left
  BY <1>1 DEF Seeded, Shown, RetrieverBounds
<1>3. PICK spent \in [0 .. Len(sections) -> 0 .. Budget] :
          /\ spent[0] = 0 /\ spent[Len(sections)] + left = Budget
          /\ \A i \in DOMAIN sections : spent[i] = spent[i - 1] + cost[sections[i]]
  BY DEF Shown
<1>. HIDE DEF m, f
<1>4. f \notin DOMAIN cost
  <2>. SUFFICES ASSUME NEW k \in 1 .. m, ranked[k] = f PROVE FALSE
    BY <1>2
  <2>1. k \in DOMAIN ranked /\ m + 1 \in DOMAIN ranked /\ k # m + 1
    BY <1>2
  <2>. QED BY <1>2, <2>1 DEF f
<1>5. /\ DOMAIN more = DOMAIN cost \cup {f} /\ more[f] = c
      /\ \A g \in DOMAIN cost : more[g] = cost[g]
  BY <1>4
<1>6. IsFiniteSet(DOMAIN more) /\ Retriever!Cardinality(DOMAIN more) = m + 1
  BY <1>2, <1>4, <1>5, RetrieverCounts, FS_AddElement DEF m
<1>. HIDE DEF more
<1>7. /\ IsFiniteSet(DOMAIN more) /\ Retriever!Cardinality(DOMAIN more) \in 0 .. Len(ranked)
      /\ DOMAIN more = {ranked[k] : k \in 1 .. Retriever!Cardinality(DOMAIN more)}
      /\ \A g \in DOMAIN more : more[g] \in Nat
  <2>1. 1 .. m + 1 = (1 .. m) \cup {m + 1}
    BY <1>2
  <2>2. {ranked[k] : k \in 1 .. m + 1} = {ranked[k] : k \in 1 .. m} \cup {ranked[m + 1]}
    BY <2>1
  <2>3. DOMAIN more = {ranked[k] : k \in 1 .. m + 1}
    BY <1>2, <1>5, <2>2 DEF f
  <2>4. m + 1 \in 0 .. Len(ranked)
    BY <1>2
  <2>5. \A g \in DOMAIN more : more[g] \in Nat
    BY <1>2, <1>5
  <2>. QED BY <1>6, <2>3, <2>4, <2>5
<1>8. CASE ~Retriever!Fits(c)
  <2>1. sections' = sections /\ left' = left /\ c > left
    BY <1>1, <1>2, <1>8 DEF Retriever!Fits
  <2>2. sections \in Seq(DOMAIN more)
    BY <1>2, <1>5
  <2>3. \A i \in DOMAIN sections : more[sections[i]] = cost[sections[i]]
    BY <1>2, <1>5
  <2>4. \A g \in DOMAIN more : g \notin Retriever!Range(sections) => more[g] > left
    BY <1>2, <1>5, <2>1
  <2>5. \A i \in DOMAIN sections : spent[i] = spent[i - 1] + more[sections[i]]
    BY <1>3, <2>3
  <2>. QED BY <1>1, <1>2, <1>3, <1>7, <2>1, <2>2, <2>4, <2>5 DEF Shown
<1>9. CASE Retriever!Fits(c)
  <2>. DEFINE added == Append(sections, f)
              l == Len(sections)
              on == [k \in 0 .. l + 1 |-> IF k = l + 1 THEN spent[l] + c ELSE spent[k]]
  <2>1. sections' = added /\ left' = left - c /\ c <= left /\ left - c \in Nat
    BY <1>1, <1>2, <1>9 DEF Retriever!Fits
  <2>2. /\ l \in Nat /\ added \in Seq(DOMAIN more) /\ Len(added) = l + 1
        /\ DOMAIN added = 1 .. l + 1 /\ DOMAIN sections = 1 .. l
        /\ \A i \in 1 .. l : added[i] = sections[i] /\ sections[i] \in DOMAIN cost
        /\ added[l + 1] = f
    <3>1. sections \in Seq(DOMAIN more) /\ f \in DOMAIN more
      BY <1>2, <1>5
    <3>2. l \in Nat /\ DOMAIN sections = 1 .. l /\ \A i \in 1 .. l : sections[i] \in DOMAIN cost
      BY <1>2
    <3>3. /\ added \in Seq(DOMAIN more) /\ Len(added) = l + 1
          /\ \A i \in 1 .. l : added[i] = sections[i]
          /\ added[l + 1] = f
      BY <3>1, <3>2
    <3>4. DOMAIN added = 1 .. l + 1
      BY <3>2, <3>3
    <3>. QED BY <3>2, <3>3, <3>4
  <2>. HIDE DEF added, l
  <2>3. /\ spent[l] \in Nat /\ spent[l] + left = Budget
        /\ \A k \in 0 .. l : spent[k] \in 0 .. Budget
    <3>1. spent \in [0 .. l -> 0 .. Budget] /\ spent[l] + left = Budget
      BY <1>3 DEF l
    <3>2. l \in 0 .. l
      BY <2>2
    <3>. QED BY <1>2, <3>1, <3>2
  <2>4. on \in [0 .. l + 1 -> 0 .. Budget]
    <3>1. spent[l] + c \in 0 .. Budget
      BY <1>2, <2>1, <2>3
    <3>2. \A k \in 0 .. l + 1 : k = l + 1 \/ k \in 0 .. l
      BY <2>2
    <3>. QED BY <2>3, <3>1, <3>2
  <2>5. /\ on[0] = 0 /\ on[l + 1] + (left - c) = Budget /\ on[l + 1] = on[l] + c
        /\ \A k \in 0 .. l : on[k] = spent[k]
    <3>1. 0 \in 0 .. l /\ l \in 0 .. l /\ l + 1 \in 0 .. l + 1 /\ l # l + 1
      BY <2>2
    <3>2. \A k \in 0 .. l : k \in 0 .. l + 1 /\ k # l + 1
      BY <2>2
    <3>3. on[l + 1] = spent[l] + c /\ \A k \in 0 .. l : on[k] = spent[k]
      BY <3>1, <3>2
    <3>4. spent[l] + c + (left - c) = Budget
      BY <1>2, <2>3
    <3>. HIDE DEF on
    <3>. QED BY <1>3, <3>1, <3>3, <3>4
  <2>. HIDE DEF on
  <2>6. \A i \in 1 .. l + 1 : on[i] = on[i - 1] + more[added[i]]
    <3>. SUFFICES ASSUME NEW i \in 1 .. l + 1 PROVE on[i] = on[i - 1] + more[added[i]]
      OBVIOUS
    <3>1. CASE i = l + 1
      <4>1. i - 1 = l
        BY <2>2, <3>1
      <4>. QED BY <1>5, <2>2, <2>5, <3>1, <4>1
    <3>2. CASE i # l + 1
      <4>1. i \in 1 .. l /\ i \in 0 .. l /\ i - 1 \in 0 .. l
        BY <2>2, <3>2
      <4>2. spent[i] = spent[i - 1] + cost[sections[i]]
        BY <1>3, <2>2, <4>1
      <4>3. more[added[i]] = cost[sections[i]]
        BY <1>5, <2>2, <4>1
      <4>. QED BY <2>5, <4>1, <4>2, <4>3
    <3>. QED BY <3>1, <3>2
  <2>7. \A g \in DOMAIN more : g \notin Retriever!Range(added) => more[g] > left - c
    <3>1. f \in Retriever!Range(added) /\ Retriever!Range(sections) \subseteq Retriever!Range(added)
      BY <2>2 DEF Retriever!Range
    <3>2. ASSUME NEW g \in DOMAIN more, g \notin Retriever!Range(added) PROVE more[g] > left - c
      <4>1. g \in DOMAIN cost /\ g \notin Retriever!Range(sections)
        BY <1>5, <3>1, <3>2
      <4>2. more[g] = cost[g] /\ cost[g] > left /\ cost[g] \in Nat
        BY <1>2, <1>5, <4>1
      <4>. QED BY <1>2, <4>2
    <3>. QED BY <3>2
  <2>8. \E s \in [0 .. Len(added) -> 0 .. Budget] :
            /\ s[0] = 0 /\ s[Len(added)] + (left - c) = Budget
            /\ \A i \in DOMAIN added : s[i] = s[i - 1] + more[added[i]]
    BY <2>2, <2>4, <2>5, <2>6
  <2>. QED BY <1>1, <1>7, <2>1, <2>2, <2>7, <2>8 DEF Shown
<1>. QED BY <1>8, <1>9

RetrieverInv == Served /\ Paired /\ Seeded /\ Shown

\* Where nothing is shown, all of the budget is left.
LEMMA NothingSpent ==
  ASSUME RetrieverBounds
  PROVE  \E spent \in [0 .. Len(<< >>) -> 0 .. Budget] :
            /\ spent[0] = 0 /\ spent[Len(<< >>)] + Budget = Budget
            /\ \A i \in DOMAIN << >> : spent[i] = spent[i - 1] + << >>[<< >>[i]]
<1>. DEFINE spent == [k \in 0 .. 0 |-> 0]
<1>1. spent \in [0 .. 0 -> 0 .. Budget] /\ spent[0] = 0 /\ spent[0] + Budget = Budget
  BY DEF RetrieverBounds
<1>2. Len(<< >>) = 0 /\ DOMAIN << >> = {}
  OBVIOUS
<1>. HIDE DEF spent
<1>. QED BY <1>1, <1>2

LEMMA NothingShown ==
  ASSUME RetrieverBounds, ranked \in Seq(Indexed), cost = << >>, sections = << >>, left = Budget
  PROVE  Shown
<1>1. DOMAIN cost = {} /\ IsFiniteSet({}) /\ Retriever!Cardinality({}) = 0
  BY RetrieverCounts, FS_EmptySet
<1>2. Len(ranked) \in Nat /\ 1 .. 0 = {} /\ sections \in Seq({})
  OBVIOUS
<1>. QED BY <1>1, <1>2, NothingSpent DEF Shown, RetrieverBounds

\* What is shown depends on what was ranked, rendered and spent only.
LEMMA StillShown ==
  ASSUME Shown, ranked' = ranked, cost' = cost, sections' = sections, left' = left
  PROVE  Shown'
BY DEF Shown

LEMMA RetrieverInit == ASSUME RetrieverBounds, Retriever!Init PROVE RetrieverInv
<1>1. Served
  BY DEF Retriever!Init, Served, Well, Labels, RetrieverBounds
<1>2. Seeded
  BY DEF Retriever!Init, Seeded, Retriever!NeighboursComeAfter, RetrieverBounds
<1>3. Shown
  BY <1>2, NothingShown DEF Retriever!Init, Seeded
<1>4. Paired
  BY DEF Retriever!Init, Retriever!InService, Paired, Single, Matched, RetrieverBounds
<1>. QED BY <1>1, <1>2, <1>3, <1>4 DEF RetrieverInv

LEMMA RetrieverInductive ==
  ASSUME RetrieverBounds, RetrieverInv, [Retriever!Next]_(Retriever!vars)
  PROVE  RetrieverInv'
<1>1. CASE UNCHANGED Retriever!vars
  <2>1. Served'
    BY <1>1 DEF RetrieverInv, Served, Well, Retriever!vars
  <2>2. Seeded'
    BY <1>1 DEF RetrieverInv, Seeded, Retriever!NeighboursComeAfter, Retriever!vars
  <2>3. Shown'
    BY <1>1, StillShown DEF RetrieverInv, Retriever!vars
  <2>4. Paired'
    BY <1>1 DEF RetrieverInv, Paired, Single, Matched, Retriever!InService, Retriever!vars
  <2>. QED BY <2>1, <2>2, <2>3, <2>4 DEF RetrieverInv
<1>2. CASE Retriever!Edit
  <2>1. Served'
    BY <1>2 DEF RetrieverInv, Retriever!Edit, Retriever!service, Served, Well
  <2>2. Seeded'
    BY <1>2 DEF RetrieverInv, Retriever!Edit, Retriever!ranking, Seeded,
    Retriever!NeighboursComeAfter
  <2>3. Shown'
    BY <1>2, StillShown DEF RetrieverInv, Retriever!Edit, Retriever!ranking
  <2>4. Paired'
    BY <1>2 DEF RetrieverInv, Retriever!Edit, Retriever!service, Paired, Single, Matched,
    Retriever!InService
  <2>. QED BY <2>1, <2>2, <2>3, <2>4 DEF RetrieverInv
<1>3. ASSUME NEW t \in Threads, Retriever!Retrieve(t) PROVE RetrieverInv'
  <2>. Served /\ Paired /\ Seeded /\ Shown /\ Ranker \in Threads /\ rPc \in [Threads -> Labels] /\ Well(t)
    BY DEF RetrieverInv, RetrieverBounds, Served
  <2>1. Served'
    BY <1>3, ServedHolds
  <2>6. Paired'
    BY <1>3, PairedHolds
  <2>. DEFINE Moves(t1) == Retriever!AskIndex(t1) \/ Retriever!Scan(t1) \/ Retriever!PublishIndex(t1) \/ Retriever!PublishGraph(t1)
                           \/ Retriever!BuildGraph(t1) \/ Retriever!TakeIndex(t1) \/ Retriever!TakeGraph(t1) \/
                                Retriever!Nothing(t1) \/ Retriever!Rendered(t1)
  <2>2. ASSUME Moves(t) PROVE Seeded' /\ Shown'
    <3>1. UNCHANGED Retriever!ranking
      BY <2>2 DEF Retriever!AskIndex, Retriever!Scan, Retriever!PublishIndex,
      Retriever!BuildGraph, Retriever!PublishGraph, Retriever!TakeIndex, Retriever!TakeGraph, Retriever!Nothing,
      Retriever!Rendered
    <3>2. \/ rPc'[Ranker] \in {"done", rPc[Ranker]}
          \/ rPc'[Ranker] \notin {"expand", "render", "done"} /\
               rPc[Ranker] \notin {"render", "done"}
      BY <2>2 DEF Retriever!AskIndex, Retriever!Scan, Retriever!PublishIndex,
      Retriever!BuildGraph, Retriever!PublishGraph, Retriever!TakeIndex, Retriever!TakeGraph, Retriever!Nothing,
      Retriever!Rendered,
                  Retriever!Goto, Labels
    <3>3. Seeded'
      BY <3>1, <3>2 DEF Retriever!ranking, Seeded, Retriever!NeighboursComeAfter
    <3>4. Shown'
      BY <3>1, StillShown DEF Retriever!ranking
    <3>. QED BY <3>3, <3>4
  <2>3. ASSUME NEW points \in Retriever!Points, Retriever!Score(t, points)
        PROVE  Seeded' /\ Shown'
    <3>1. /\ rPc[Ranker] = "ready" /\ rPc'[Ranker] = "expand"
          /\ scores' = points /\ matched' = DOMAIN points
          /\ ranked' = ranked /\ cost' = cost /\ sections' = sections /\ left' = left
      BY <2>3 DEF Retriever!Score, Retriever!Goto
    <3>2. ranked = <<>> /\ ranked \in Seq(Indexed)
      BY <3>1 DEF Seeded
    <3>3. DOMAIN points \in SUBSET Indexed /\ points \in [DOMAIN points -> Scores]
      BY DEF Retriever!Points
    <3>4. Retriever!NeighboursComeAfter'
      BY <3>1, <3>2 DEF Retriever!NeighboursComeAfter
    <3>5. Seeded'
      BY <3>1, <3>3, <3>4 DEF Seeded
    <3>. QED BY <3>1, <3>5, StillShown
  <2>4. ASSUME Retriever!Expand(t) PROVE Seeded' /\ Shown'
    <3>1. t = Ranker /\ rPc[Ranker] = "expand"
      BY <2>4 DEF Retriever!Expand, Well
    <3>2. /\ rPc'[Ranker] = "render" /\ matched' = matched /\ cost' = cost
          /\ sections' = sections /\ left' = left
      BY <2>4, <3>1 DEF Retriever!Expand, Retriever!Goto
    <3>3. cost = <<>> /\ sections = <<>> /\ left = Budget
      BY <3>1 DEF Seeded
    <3>4. /\ ranked' \in Seq(Indexed) /\ Retriever!NeighboursComeAfter'
          /\ \A i, j \in DOMAIN ranked' : ranked'[i] = ranked'[j] => i = j
      BY <2>4, <3>1, ExpandRanks
    <3>5. Seeded'
      BY <3>2, <3>4 DEF Seeded
    <3>6. Shown'
      <4>1. ranked' \in Seq(Indexed) /\ cost' = << >> /\ sections' = << >> /\ left' = Budget
        BY <3>2, <3>3, <3>4
      <4>2. DOMAIN cost' = {} /\ IsFiniteSet({}) /\ Retriever!Cardinality({}) = 0
        BY <4>1, RetrieverCounts, FS_EmptySet
      <4>3. Len(ranked') \in Nat /\ 1 .. 0 = {} /\ sections' \in Seq({})
        BY <4>1
      <4>. QED BY <4>1, <4>2, <4>3, NothingSpent DEF Shown, RetrieverBounds
    <3>. QED BY <3>5, <3>6
  <2>5. ASSUME NEW c \in Costs, Retriever!Render(t, c) PROVE Seeded' /\ Shown'
    <3>1. t = Ranker /\ rPc[Ranker] = "render" /\ rPc' = rPc /\ ranked' = ranked /\
            matched' = matched
      BY <2>5 DEF Retriever!Render, Retriever!Turn, Well
    <3>2. Shown'
      BY <2>5, <3>1, RenderShows
    <3>3. Seeded'
      BY <3>1 DEF Seeded, Retriever!NeighboursComeAfter
    <3>. QED BY <3>2, <3>3
  <2>. QED BY <1>3, <2>1, <2>2, <2>3, <2>4, <2>5, <2>6 DEF Retriever!Retrieve, RetrieverInv
<1>. QED BY <1>1, <1>2, <1>3 DEF Retriever!Next

LEMMA RightWhenServed == ASSUME RetrieverInv PROVE Retriever!RetrievalIsSound
<1>1. Retriever!OneScan
  BY DEF RetrieverInv, Served, Well, Paired, Matched, Retriever!OneScan
<1>2. Retriever!NeighboursComeAfter
  BY DEF RetrieverInv, Seeded
<1>3. Retriever!SectionsFit
  BY DEF RetrieverInv, Shown, Retriever!SectionsFit
<1>. QED BY <1>1, <1>2, <1>3 DEF Retriever!RetrievalIsSound

\* Without overlap a query works on an index and a graph of one scan; neighbours
\* are ranked after what speaks for them, the sections fit the budget, and what is
\* left out would not (RepositoryContext's RetrievalIsSound).
THEOREM RetrievalHolds ==
  ASSUME RetrieverBounds
  PROVE  Retriever!Spec => []Retriever!RetrievalIsSound
BY RetrieverInit, RetrieverInductive, RightWhenServed, PTL DEF Retriever!Spec

-----------------------------------------------------------------------------
(* The composition.                                                          *)

\* An accepted plan runs every step once and after all it depends on, and in that
\* order the tools the validator knows rewrite nothing before something has been
\* read and write no path twice (plan_validator, dependency_graph).
THEOREM SafeOrder == Spec => []PlansAreSound
<1>1. Init /\ part = "plan" => Planner!Init
  BY DEF Init
<1>2. [Next]_vars => [Planner!Next]_(Planner!vars)
  <2>1. UNCHANGED planning => UNCHANGED Planner!vars
    BY DEF planning, Planner!vars
  <2>. QED BY <2>1 DEF Next, vars
<1>3. [Next]_vars /\ ~(part = "plan") => (~(part = "plan"))'
  BY DEF Next, vars
<1>4. Planner!Spec => []Planner!PlansAreSound
  BY PlansSafe, Bounded
<1>5. ~(part = "plan") \/ Planner!PlansAreSound => PlansAreSound
  BY DEF PlansAreSound
<1>. QED BY <1>1, <1>2, <1>3, <1>4, <1>5, PTL DEF Spec, Planner!Spec

\* A lookup misses or repeats a definition only in a file that two refreshes
\* raced for or somebody else changed (symbol_tools, repo_tools).
THEOREM Lookups == Spec => []LookupsAreRight
<1>1. Init /\ part = "symbols" => Definitions!Init
  BY DEF Init
<1>2. [Next]_vars => [Definitions!Next]_(Definitions!vars)
  <2>1. UNCHANGED symbols => UNCHANGED Definitions!vars
    BY DEF symbols, Definitions!vars
  <2>. QED BY <2>1 DEF Next, vars
<1>3. [Next]_vars /\ ~(part = "symbols") => (~(part = "symbols"))'
  BY DEF Next, vars
<1>4. Definitions!Spec => []Definitions!LookupsAreRight
  BY LookupsHold, Bounded
<1>5. ~(part = "symbols") \/ Definitions!LookupsAreRight => LookupsAreRight
  BY DEF LookupsAreRight
<1>. QED BY <1>1, <1>2, <1>3, <1>4, <1>5, PTL DEF Spec, Definitions!Spec

\* A verdict claims no more than git and the tests have said; a session that
\* reported no counts says nothing of a failing test (verification).
THEOREM Earned == Spec => []VerdictIsEarned
<1>1. Init /\ part = "verify" => Verifier!Init
  BY DEF Init
<1>2. [Next]_vars => [Verifier!Next]_(Verifier!vars)
  <2>1. UNCHANGED proof => UNCHANGED Verifier!vars
    BY DEF proof, Verifier!vars
  <2>. QED BY <2>1 DEF Next, vars
<1>3. [Next]_vars /\ ~(part = "verify") => (~(part = "verify"))'
  BY DEF Next, vars
<1>4. Verifier!Spec => []Verifier!VerdictIsEarned
  BY VerdictsHold, Bounded
<1>5. ~(part = "verify") \/ Verifier!VerdictIsEarned => VerdictIsEarned
  BY DEF VerdictIsEarned
<1>. QED BY <1>1, <1>2, <1>3, <1>4, <1>5, PTL DEF Spec, Verifier!Spec

\* What is sent fits the context window (context_budget, engine).
THEOREM Fitting == Spec => []BudgetsFit
<1>1. Init /\ part = "budget" => Prompts!Init
  BY DEF Init
<1>2. [Next]_vars => [Prompts!Next]_(Prompts!vars)
  <2>1. UNCHANGED budget => UNCHANGED Prompts!vars
    BY DEF budget, Prompts!vars
  <2>. QED BY <2>1 DEF Next, vars
<1>3. [Next]_vars /\ ~(part = "budget") => (~(part = "budget"))'
  BY DEF Next, vars
<1>4. Prompts!Spec => []Prompts!BudgetsFit
  BY PromptsFit, Bounded
<1>5. ~(part = "budget") \/ Prompts!BudgetsFit => BudgetsFit
  BY DEF BudgetsFit
<1>. QED BY <1>1, <1>2, <1>3, <1>4, <1>5, PTL DEF Spec, Prompts!Spec

\* Without overlap in the service a query works on an index and a graph of one
\* scan; neighbours come after what speaks for them; the rendered sections,
\* without the header, fit the budget and what is left out would not (context,
\* service).
THEOREM Retrieval == Spec => []RetrievalIsSound
<1>1. Init /\ part = "retrieval" => Retriever!Init
  BY DEF Init
<1>2. [Next]_vars => [Retriever!Next]_(Retriever!vars)
  <2>1. UNCHANGED retrieval => UNCHANGED Retriever!vars
    BY DEF retrieval, Retriever!vars
  <2>. QED BY <2>1 DEF Next, vars
<1>3. [Next]_vars /\ ~(part = "retrieval") => (~(part = "retrieval"))'
  BY DEF Next, vars
<1>4. Retriever!Spec => []Retriever!RetrievalIsSound
  BY RetrievalHolds, Bounded
<1>5. ~(part = "retrieval") \/ Retriever!RetrievalIsSound => RetrievalIsSound
  BY DEF RetrievalIsSound
<1>. QED BY <1>1, <1>2, <1>3, <1>4, <1>5, PTL DEF Spec, Retriever!Spec
=============================================================================
