----------------------------- MODULE ExecutorProofs -----------------------------
(*****************************************************************************)
(* Theorems about Executor, for every set of callers and every budget.       *)
(*****************************************************************************)
EXTENDS Executor, TLAPS

Places == Driving \cup Waiting \cup {"out"}

\* Where a counter is about to grow.
Tight == {"tool", "replanning", "revising", "retesting"}

\* What the counters of an execution satisfy where its caller is: at a tool call
\* there is room in the budget and in the plan for what the call may add.
Counted(j, where) ==
    /\ j.replans <= MaxReplans
    /\ j.steps <= MaxIterations
    /\ j.steps <= j.iter
    /\ where = "tool" =>
         j.plan < MaxPlan /\ j.steps < j.iter /\ j.iter <= MaxIterations
    /\ where \in Tight \ {"tool"} => j.replans < MaxReplans

Counts ==
    /\ \A c \in Callers : Counted(job[c], pc[c])
    /\ paused # NoJob => Counted(paused, "out")

\* A run plans with nothing staged before it, but what a timed-out command left.
PlansClean == \A c \in Callers : At(c, "planning") => Staged = {} \/ timedOut

IInv ==
    /\ TypeOK
    /\ Counts
    /\ SingleDriver
    /\ BatchIsTheOnePaused
    /\ NothingStranded
    /\ PlansClean

-----------------------------------------------------------------------------
(* Jobs: what each update of an execution's locals does to its counters.     *)

\* The fields of a job.
LEMMA JobParts ==
    ASSUME NEW j \in Job
    PROVE  /\ j.plan \in 0..MaxPlan /\ j.tries \in 0..MaxRetries
           /\ j.iter \in Nat /\ j.replans \in Nat /\ j.steps \in Nat
           /\ j.failedOnce \in BOOLEAN /\ j.wrote \in BOOLEAN /\ j.stop \in StopReasons
           /\ j.shown \subseteq Items /\ j.todo \subseteq Items
BY DEF Job

\* Away from the tight places the counters need only be within the budgets.
LEMMA Relaxed ==
    ASSUME NEW j, NEW k, NEW v, NEW w, Counted(j, v), w \notin Tight,
           k.replans = j.replans, k.steps = j.steps, k.iter = j.iter
    PROVE  Counted(k, w)
BY DEF Counted, Tight

\* The locals before the first plan.
LEMMA FreshJob == Fresh \in Job /\ \A w \in Places \ Tight : Counted(Fresh, w)
<1>1. 0 \in 0..MaxPlan /\ 0 \in 0..MaxRetries
  BY ExecutorAssumption
<1>2. Fresh \in Job
  BY <1>1 DEF Fresh, Job, StopReasons
<1>3. 0 <= MaxReplans /\ 0 <= MaxIterations
  BY ExecutorAssumption
<1>. QED BY <1>2, <1>3 DEF Fresh, Counted, Tight

\* A plan of the planner replaces the one before, with or without a replan spent.
LEMMA Planned ==
    ASSUME NEW n \in Plans
    PROVE  /\ [Fresh EXCEPT !.plan = n] \in Job
           /\ Counted([Fresh EXCEPT !.plan = n], "loop")
<1>1. n \in 0..MaxPlan
  BY ExecutorAssumption DEF Plans
<1>2. [Fresh EXCEPT !.plan = n] \in Job
  BY <1>1, FreshJob DEF Job
<1>. QED BY <1>2, FreshJob, Relaxed DEF Fresh, Tight, Places, Driving

\* A replan costs one of the budget.
LEMMA Replanned ==
    ASSUME NEW j \in Job, NEW w \in Tight \ {"tool"}, Counted(j, w), NEW n \in Plans
    PROVE  LET k == [j EXCEPT !.plan = n, !.replans = @ + 1]
           IN  k \in Job /\ Counted(k, "loop")
<1>. DEFINE k == [j EXCEPT !.plan = n, !.replans = @ + 1]
<1>1. n \in 0..MaxPlan /\ j.replans + 1 \in Nat
  BY ExecutorAssumption, JobParts DEF Plans
<1>2. k \in Job
  BY <1>1 DEF Job
<1>3. k.replans = j.replans + 1 /\ k.steps = j.steps /\ k.iter = j.iter
  BY DEF Job
<1>4. j.replans + 1 <= MaxReplans
  BY ExecutorAssumption, JobParts DEF Counted
<1>. QED BY <1>2, <1>3, <1>4 DEF Counted, Tight

\* A revision starts a loop over, counting from the steps made.
LEMMA Revised ==
    ASSUME NEW j \in Job, Counted(j, "revising"), NEW n \in Plans
    PROVE  LET k == [j EXCEPT !.plan = n, !.replans = @ + 1, !.iter = j.steps,
                              !.tries = 0, !.failedOnce = FALSE, !.stop = "none"]
           IN  k \in Job /\ Counted(k, "loop")
<1>. DEFINE k == [j EXCEPT !.plan = n, !.replans = @ + 1, !.iter = j.steps,
                           !.tries = 0, !.failedOnce = FALSE, !.stop = "none"]
<1>1. n \in 0..MaxPlan /\ j.replans + 1 \in Nat /\ j.steps \in Nat /\ 0 \in 0..MaxRetries
  BY ExecutorAssumption, JobParts DEF Plans
<1>2. k \in Job
  BY <1>1 DEF Job, StopReasons
<1>3. k.replans = j.replans + 1 /\ k.steps = j.steps /\ k.iter = j.steps
  BY DEF Job
<1>4. j.replans + 1 <= MaxReplans
  BY ExecutorAssumption, JobParts DEF Counted, Tight
<1>. QED BY <1>1, <1>2, <1>3, <1>4 DEF Counted, Tight

\* The next call is taken off the plan.
LEMMA Popping ==
    ASSUME NEW c \in Callers, job[c] \in Job, Counted(job[c], "loop"),
           job[c].plan > 0, job[c].iter < MaxIterations
    PROVE  /\ Popped(c) \in Job
           /\ Counted(Popped(c), "tool")
           /\ [Popped(c) EXCEPT !.steps = @ + 1] \in Job
           /\ Counted([Popped(c) EXCEPT !.steps = @ + 1], "loop")
<1>. DEFINE j == job[c]
            k == Popped(c)
            s == [k EXCEPT !.steps = @ + 1]
<1>1. j.plan - 1 \in 0..MaxPlan /\ j.iter + 1 \in Nat
  BY ExecutorAssumption, JobParts
<1>2. k \in Job
  BY <1>1 DEF Job, Popped
<1>3. /\ k.plan = j.plan - 1 /\ k.iter = j.iter + 1
      /\ k.steps = j.steps /\ k.replans = j.replans
  BY DEF Job, Popped
<1>4. /\ j.plan - 1 < MaxPlan /\ j.steps < j.iter + 1 /\ j.iter + 1 <= MaxIterations
      /\ j.steps <= j.iter + 1 /\ j.steps + 1 <= MaxIterations /\ j.steps + 1 <= j.iter + 1
      /\ j.steps + 1 \in Nat
  BY ExecutorAssumption, JobParts DEF Counted
<1>5. Counted(k, "tool")
  BY <1>3, <1>4 DEF Counted, Tight
<1>6. s \in Job
  BY <1>2, <1>3, <1>4 DEF Job
<1>7. s.iter = j.iter + 1 /\ s.steps = j.steps + 1 /\ s.replans = j.replans
  BY <1>2, <1>3 DEF Job
<1>8. Counted(s, "loop")
  BY <1>4, <1>7 DEF Counted, Tight
<1>. QED BY <1>2, <1>5, <1>6, <1>8

\* The call has been made: a step more, and the retries start over.
LEMMA Stepped ==
    ASSUME NEW j \in Job, Counted(j, "tool")
    PROVE  LET k == [j EXCEPT !.steps = @ + 1, !.tries = 0]
           IN  k \in Job /\ Counted(k, "loop") /\ Counted(k, "failed")
<1>. DEFINE k == [j EXCEPT !.steps = @ + 1, !.tries = 0]
<1>1. j.steps + 1 \in Nat /\ 0 \in 0..MaxRetries
  BY ExecutorAssumption, JobParts
<1>2. k \in Job
  BY <1>1 DEF Job
<1>3. k.steps = j.steps + 1 /\ k.iter = j.iter /\ k.replans = j.replans
  BY DEF Job
<1>4. j.steps + 1 <= j.iter /\ j.steps + 1 <= MaxIterations
  BY ExecutorAssumption, JobParts DEF Counted
<1>. QED BY <1>2, <1>3, <1>4 DEF Counted, Tight

\* The call goes back to the front of the plan.
LEMMA Retried ==
    ASSUME NEW j \in Job, Counted(j, "tool"), j.tries < MaxRetries
    PROVE  LET k == [j EXCEPT !.plan = @ + 1, !.iter = @ - 1, !.tries = @ + 1]
           IN  k \in Job /\ Counted(k, "loop")
<1>. DEFINE k == [j EXCEPT !.plan = @ + 1, !.iter = @ - 1, !.tries = @ + 1]
<1>1. j.plan + 1 \in 0..MaxPlan /\ j.iter - 1 \in Nat /\ j.tries + 1 \in 0..MaxRetries
  BY ExecutorAssumption, JobParts DEF Counted
<1>2. k \in Job
  BY <1>1 DEF Job
<1>3. k.steps = j.steps /\ k.iter = j.iter - 1 /\ k.replans = j.replans
  BY DEF Job
<1>4. j.steps <= j.iter - 1
  BY JobParts DEF Counted
<1>. QED BY <1>2, <1>3, <1>4 DEF Counted, Tight

\* A field that is no counter changes.
LEMMA Stopped ==
    ASSUME NEW j \in Job, NEW v, Counted(j, v), NEW s \in StopReasons
    PROVE  LET k == [j EXCEPT !.stop = s]
           IN  k \in Job /\ Counted(k, "finish")
<1>1. [j EXCEPT !.stop = s] \in Job
  BY DEF Job
<1>2. /\ [j EXCEPT !.stop = s].replans = j.replans
      /\ [j EXCEPT !.stop = s].steps = j.steps
      /\ [j EXCEPT !.stop = s].iter = j.iter
  BY DEF Job
<1>. QED BY <1>1, <1>2 DEF Counted, Tight

\* The budget is used up.
LEMMA Exhausted ==
    ASSUME NEW j \in Job, NEW v, Counted(j, v)
    PROVE  LET k == [j EXCEPT !.iter = MaxIterations + 1]
           IN  k \in Job /\ Counted(k, "loop")
<1>. DEFINE k == [j EXCEPT !.iter = MaxIterations + 1]
<1>1. MaxIterations + 1 \in Nat
  BY ExecutorAssumption
<1>2. k \in Job
  BY <1>1 DEF Job
<1>3. k.steps = j.steps /\ k.iter = MaxIterations + 1 /\ k.replans = j.replans
  BY DEF Job
<1>4. j.steps <= MaxIterations + 1
  BY ExecutorAssumption, JobParts DEF Counted
<1>. QED BY <1>2, <1>3, <1>4 DEF Counted, Tight

\* The locals as the pause keeps them.
LEMMA Kept ==
    ASSUME NEW j \in Job, NEW v, Counted(j, v), NEW S \in SUBSET Items
    PROVE  LET k == [j EXCEPT !.shown = S, !.tries = 0, !.failedOnce = FALSE,
                              !.wrote = FALSE]
           IN  k \in Job /\ Counted(k, "out") /\ k.shown = S
<1>. DEFINE k == [j EXCEPT !.shown = S, !.tries = 0, !.failedOnce = FALSE,
                           !.wrote = FALSE]
<1>1. 0 \in 0..MaxRetries
  BY ExecutorAssumption
<1>2. k \in Job
  BY <1>1 DEF Job
<1>3. k.steps = j.steps /\ k.iter = j.iter /\ k.replans = j.replans /\ k.shown = S
  BY DEF Job
<1>. HIDE DEF k
<1>4. Counted(k, "out")
  BY <1>2, <1>3, Relaxed DEF Tight
<1>. QED BY <1>2, <1>3, <1>4 DEF k

\* The counters do not depend on the failure flag or on the approval's own locals.
LEMMA Noted ==
    ASSUME NEW j \in Job, NEW v, Counted(j, v), NEW b \in BOOLEAN, NEW S \in SUBSET Items
    PROVE  /\ [j EXCEPT !.failedOnce = b] \in Job
           /\ j.replans < MaxReplans => Counted([j EXCEPT !.failedOnce = b], "replanning")
           /\ [j EXCEPT !.wrote = b, !.todo = S] \in Job
           /\ Counted([j EXCEPT !.wrote = b, !.todo = S], "commands")
           /\ [j EXCEPT !.wrote = b, !.todo = S].shown = j.shown
           /\ [j EXCEPT !.todo = S] \in Job
           /\ Counted([j EXCEPT !.todo = S], "commands")
           /\ Counted([j EXCEPT !.todo = S], "verify")
           /\ [j EXCEPT !.todo = S].shown = j.shown
<1>1. /\ [j EXCEPT !.failedOnce = b] \in Job
      /\ [j EXCEPT !.wrote = b, !.todo = S] \in Job
      /\ [j EXCEPT !.todo = S] \in Job
  BY DEF Job
<1>2. LET k == [j EXCEPT !.failedOnce = b]
      IN  k.steps = j.steps /\ k.iter = j.iter /\ k.replans = j.replans
  BY DEF Job
<1>3. LET k == [j EXCEPT !.wrote = b, !.todo = S]
      IN  /\ k.steps = j.steps /\ k.iter = j.iter /\ k.replans = j.replans
          /\ k.shown = j.shown
  BY DEF Job
<1>4. LET k == [j EXCEPT !.todo = S]
      IN  /\ k.steps = j.steps /\ k.iter = j.iter /\ k.replans = j.replans
          /\ k.shown = j.shown
  BY DEF Job
<1>5. Counted([j EXCEPT !.wrote = b, !.todo = S], "commands")
  BY <1>3 DEF Counted, Tight
<1>6. /\ Counted([j EXCEPT !.todo = S], "commands")
      /\ Counted([j EXCEPT !.todo = S], "verify")
  BY <1>4 DEF Counted, Tight
<1>7. j.replans < MaxReplans => Counted([j EXCEPT !.failedOnce = b], "replanning")
  BY <1>2 DEF Counted, Tight
<1>. QED BY <1>1, <1>3, <1>4, <1>5, <1>6, <1>7

-----------------------------------------------------------------------------
(* The kinds of steps.  Who owns the execution, and what is staged, changes  *)
(* in seven ways only.                                                       *)

\* One caller moves, with a well-counted job; so is the pause it leaves.
Moves(c) ==
    /\ \E j \in Job, where \in Places :
          /\ Counted(j, where)
          /\ pc' = [pc EXCEPT ![c] = where]
          /\ job' = [job EXCEPT ![c] = j]
    /\ paused' \in Job \cup {NoJob}
    /\ paused' # NoJob => Counted(paused', "out")

Begins(c) ==
    /\ pc[c] = "out" /\ pc'[c] \in {"planning", "out"}
    /\ Drivers = {} /\ paused = NoJob
    /\ UNCHANGED <<paused, gates, timedOut>>

DrivesOn(c) ==
    /\ pc[c] \in Driving /\ pc'[c] \in Driving \ {"planning", "apply", "commands"}
    /\ UNCHANGED paused

Commands(c) ==
    /\ pc[c] \in {"apply", "commands"} /\ pc'[c] = "commands"
    /\ Staged' \subseteq Staged
    /\ job'[c].shown = job[c].shown
    /\ UNCHANGED paused

Pauses(c) ==
    /\ pc[c] \in Driving /\ pc'[c] = "out"
    /\ paused' \in Job /\ ListedIn(paused')
    /\ Staged # {}
    /\ UNCHANGED gates

Ends(c) ==
    /\ pc[c] \in Driving /\ pc'[c] = "out"
    /\ Staged' = {} \/ timedOut'
    /\ UNCHANGED paused

Waits(c) ==
    /\ pc[c] \notin Driving /\ pc'[c] \in Waiting \cup {"out"}
    /\ UNCHANGED <<paused, gates, timedOut>>

Takes(c) ==
    /\ pc[c] \notin Driving /\ pc'[c] \in {"apply", "discard"}
    /\ paused # NoJob /\ paused' = NoJob
    /\ job'[c] = paused
    /\ UNCHANGED gates

Kind(c) ==
    \/ Begins(c) \/ DrivesOn(c) \/ Commands(c) \/ Pauses(c) \/ Ends(c)
    \/ Waits(c) \/ Takes(c)

\* What the kinds preserve.
LEMMA KindsPreserve ==
    ASSUME IInv, NEW c \in Callers, Moves(c), Kind(c), joined' = joined
    PROVE  SingleDriver' /\ BatchIsTheOnePaused' /\ NothingStranded' /\ PlansClean'
<1>1. \A d \in Callers \ {c} : pc'[d] = pc[d] /\ job'[d] = job[d]
  BY DEF Moves, IInv, TypeOK
<1>2. \A d \in Drivers' : d # c => d \in Drivers
  BY <1>1 DEF Drivers
<1>3. \A d \in Drivers : d # c => d \in Drivers'
  BY <1>1 DEF Drivers
<1>. USE DEF IInv
<1>4. CASE Begins(c)
  <2>1. SingleDriver'
    BY <1>2, <1>4 DEF Begins, SingleDriver
  <2>2. BatchIsTheOnePaused'
    BY <1>1, <1>4 DEF Begins, BatchIsTheOnePaused, ListedIn, gates, Staged, At
  <2>3. Staged = {} \/ timedOut
    BY <1>4 DEF Begins, NothingStranded
  <2>4. NothingStranded' /\ PlansClean'
    BY <2>3, <1>4 DEF Begins, NothingStranded, PlansClean, Staged, gates
  <2>. QED BY <2>1, <2>2, <2>4
<1>5. CASE DrivesOn(c)
  <2>1. c \in Drivers /\ paused = NoJob /\ \A d \in Drivers : d = c
    BY <1>5 DEF DrivesOn, SingleDriver, Drivers
  <2>2. c \in Drivers' /\ \A d \in Drivers' : d = c
    BY <1>2, <1>5, <2>1 DEF DrivesOn, Drivers
  <2>3. SingleDriver' /\ NothingStranded'
    BY <1>5, <2>1, <2>2 DEF SingleDriver, NothingStranded, DrivesOn
  <2>4. BatchIsTheOnePaused' /\ PlansClean'
    BY <1>5, <2>1, <2>2 DEF BatchIsTheOnePaused, PlansClean, DrivesOn, At, Drivers, Driving
  <2>. QED BY <2>3, <2>4
<1>6. CASE Commands(c)
  <2>1. c \in Drivers /\ paused = NoJob /\ \A d \in Drivers : d = c
    BY <1>6 DEF Commands, SingleDriver, Drivers, Driving
  <2>2. c \in Drivers' /\ \A d \in Drivers' : d = c
    BY <1>2, <1>6, <2>1 DEF Commands, Drivers, Driving
  <2>3. SingleDriver' /\ NothingStranded'
    BY <1>6, <2>1, <2>2 DEF SingleDriver, NothingStranded, Commands
  <2>4. Staged' \subseteq job'[c].shown \cup joined'
    BY <1>6 DEF Commands, BatchIsTheOnePaused, ListedIn, At
  <2>5. BatchIsTheOnePaused' /\ PlansClean'
    BY <1>6, <2>1, <2>2, <2>4
    DEF BatchIsTheOnePaused, PlansClean, Commands, At, Drivers, Driving
  <2>. QED BY <2>3, <2>5
<1>7. CASE Pauses(c) \/ Ends(c)
  <2>1. c \in Drivers /\ paused = NoJob /\ \A d \in Drivers : d = c
    BY <1>7 DEF Pauses, Ends, SingleDriver, Drivers
  <2>2. Drivers' = {}
    BY <1>2, <1>7, <2>1 DEF Pauses, Ends, Drivers, Driving
  <2>3. SingleDriver'
    BY <2>2 DEF SingleDriver
  <2>4. /\ paused' # NoJob => ListedIn(paused)' /\ Staged' # {}
        /\ Staged' # {} => paused' # NoJob \/ timedOut'
    BY <1>7, <2>1, NoJobAssumption DEF Pauses, Ends, ListedIn, gates, Staged
  <2>5. \A d \in Callers : pc'[d] \notin Driving
    BY <2>2 DEF Drivers
  <2>. QED BY <2>3, <2>4, <2>5
       DEF NothingStranded, BatchIsTheOnePaused, PlansClean, At, Driving
<1>8. CASE Waits(c)
  <2>1. Drivers' = Drivers
    BY <1>2, <1>3, <1>8 DEF Waits, Drivers, Driving, Waiting
  <2>2. SingleDriver' /\ NothingStranded'
    BY <1>8, <2>1 DEF Waits, SingleDriver, NothingStranded, Staged, gates
  <2>3. BatchIsTheOnePaused' /\ PlansClean'
    BY <1>1, <1>8 DEF Waits, BatchIsTheOnePaused, ListedIn, PlansClean, At, Waiting,
                      gates, Staged
  <2>. QED BY <2>2, <2>3
<1>9. CASE Takes(c)
  <2>1. Drivers = {} /\ ListedIn(paused)
    BY <1>9 DEF Takes, SingleDriver, BatchIsTheOnePaused
  <2>2. c \in Drivers' /\ \A d \in Drivers' : d = c
    BY <1>2, <1>9, <2>1 DEF Takes, Drivers, Driving
  <2>3. SingleDriver' /\ NothingStranded'
    BY <1>9, <2>2 DEF Takes, SingleDriver, NothingStranded
  <2>4. ListedIn(job[c])'
    BY <1>9, <2>1 DEF Takes, ListedIn, Staged, gates
  <2>5. BatchIsTheOnePaused' /\ PlansClean'
    BY <1>9, <2>2, <2>4 DEF Takes, BatchIsTheOnePaused, PlansClean, At, Drivers, Driving
  <2>. QED BY <2>3, <2>5
<1>. QED BY <1>4, <1>5, <1>6, <1>7, <1>8, <1>9 DEF Kind

-----------------------------------------------------------------------------
(* Each action is of one of the kinds.                                       *)

\* The caller moves and the pause stays.
LEMMA Moving ==
    ASSUME TypeOK, Counts, NEW c \in Callers, NEW j \in Job, NEW where \in Places,
           Counted(j, where), pc' = [pc EXCEPT ![c] = where],
           job' = [job EXCEPT ![c] = j], paused' = paused
    PROVE  Moves(c) /\ pc'[c] = where /\ job'[c] = j
BY DEF TypeOK, Counts, Moves

\* The same, with the locals as they are.
LEMMA MovingOn ==
    ASSUME TypeOK, Counts, NEW c \in Callers, NEW where \in Places,
           Counted(job[c], where), pc' = [pc EXCEPT ![c] = where],
           job' = job, paused' = paused
    PROVE  Moves(c) /\ pc'[c] = where /\ job'[c] = job[c]
<1>1. job[c] \in Job /\ job = [job EXCEPT ![c] = job[c]]
  BY DEF TypeOK
<1>. QED BY <1>1, Moving

\* Returning from a call.
LEMMA Returning ==
    ASSUME TypeOK, Counts, NEW c \in Callers, Return(c), paused' = paused
    PROVE  Moves(c) /\ pc'[c] = "out"
<1>1. Counted(Fresh, "out")
  BY FreshJob DEF Places, Tight
<1>. QED BY <1>1, FreshJob, Moving DEF Return, GoTo, Places

\* Pausing or going on to the end.
LEMMA PausingOrFinishing ==
    ASSUME TypeOK, Counts, NEW c \in Callers, pc[c] \in Driving,
           NEW j \in Job, NEW v, Counted(j, v), NEW stop \in StopReasons,
           PauseOrFinish(c, j, stop), UNCHANGED gates
    PROVE  Moves(c) /\ Kind(c)
<1>1. Staged \in SUBSET Items
  BY DEF TypeOK, Staged
<1>. DEFINE k == [j EXCEPT !.shown = Staged, !.tries = 0, !.failedOnce = FALSE,
                           !.wrote = FALSE]
<1>2. k \in Job /\ Counted(k, "out") /\ k.shown = Staged
  BY <1>1, Kept
<1>. HIDE DEF k
<1>3. Fresh \in Job /\ Counted(Fresh, "out")
  BY FreshJob DEF Places, Tight
<1>4. CASE Staged # {}
  <2>1. paused' = k /\ pc' = [pc EXCEPT ![c] = "out"] /\ job' = [job EXCEPT ![c] = Fresh]
    BY <1>4 DEF PauseOrFinish, GoTo, k
  <2>0. ListedIn(k)
    BY <1>2 DEF ListedIn
  <2>2. Moves(c)
    BY <1>2, <1>3, <2>1 DEF Moves, Places
  <2>3. Pauses(c)
    BY <1>2, <1>4, <2>0, <2>1 DEF Pauses, TypeOK
  <2>. QED BY <2>2, <2>3 DEF Kind
<1>5. CASE Staged = {}
  <2>1. [j EXCEPT !.stop = stop] \in Job /\ Counted([j EXCEPT !.stop = stop], "finish")
    BY Stopped
  <2>2. /\ paused' = paused /\ pc' = [pc EXCEPT ![c] = "finish"]
        /\ job' = [job EXCEPT ![c] = [j EXCEPT !.stop = stop]]
    BY <1>5 DEF PauseOrFinish, GoTo
  <2>3. Moves(c) /\ pc'[c] = "finish"
    BY <2>1, <2>2, Moving DEF Places, Driving
  <2>4. DrivesOn(c)
    BY <2>2, <2>3 DEF DrivesOn, Driving
  <2>. QED BY <2>3, <2>4 DEF Kind
<1>. QED BY <1>4, <1>5

\* The loop of _execute.
LEMMA LoopingKind ==
    ASSUME TypeOK, Counts, NEW c \in Callers, Looping(c)
    PROVE  Moves(c) /\ Kind(c)
<1>. DEFINE j == job[c]
<1>1. j \in Job /\ Counted(j, pc[c])
  BY DEF TypeOK, Counts
<1>2. HasStep(c) => /\ Popped(c) \in Job
                    /\ Counted(Popped(c), "tool")
                    /\ [Popped(c) EXCEPT !.steps = @ + 1] \in Job
                    /\ Counted([Popped(c) EXCEPT !.steps = @ + 1], "loop")
  BY <1>1, Popping DEF HasStep, At
<1>3. CASE IterationsExhausted(c)
  <2>. DEFINE k == [j EXCEPT !.iter = MaxIterations + 1]
  <2>1. k \in Job /\ Counted(k, "loop")
    BY <1>1, Exhausted
  <2>2. PauseOrFinish(c, k, "max_iterations") /\ UNCHANGED gates /\ pc[c] \in Driving
    BY <1>3 DEF IterationsExhausted, At, Driving
  <2>. HIDE DEF k
  <2>. QED BY <2>1, <2>2, PausingOrFinishing DEF StopReasons
<1>4. CASE NoToolNeeded(c)
  <2>. DEFINE k == [Popped(c) EXCEPT !.steps = @ + 1]
  <2>1. k \in Job /\ Counted(k, "loop")
    BY <1>2, <1>4 DEF NoToolNeeded
  <2>2. PauseOrFinish(c, k, "completed") /\ UNCHANGED gates /\ pc[c] \in Driving
    BY <1>4 DEF NoToolNeeded, HasStep, At, Driving
  <2>. HIDE DEF k
  <2>. QED BY <2>1, <2>2, PausingOrFinishing DEF StopReasons
<1>5. CASE StepCancelled(c)
  <2>. DEFINE k == [Popped(c) EXCEPT !.stop = "cancelled"]
  <2>1. k \in Job /\ Counted(k, "finish")
    BY <1>2, <1>5, Stopped DEF StepCancelled, StopReasons
  <2>2. /\ pc' = [pc EXCEPT ![c] = "finish"] /\ job' = [job EXCEPT ![c] = k]
        /\ paused' = paused /\ pc[c] \in Driving
    BY <1>5 DEF StepCancelled, HasStep, GoTo, At, Driving
  <2>. HIDE DEF k
  <2>3. Moves(c) /\ pc'[c] = "finish"
    BY <2>1, <2>2, Moving DEF Places, Driving
  <2>. QED BY <2>2, <2>3 DEF Kind, DrivesOn, Driving
<1>6. CASE CallTool(c)
  <2>1. /\ pc' = [pc EXCEPT ![c] = "tool"] /\ job' = [job EXCEPT ![c] = Popped(c)]
        /\ paused' = paused /\ pc[c] \in Driving
    BY <1>6 DEF CallTool, HasStep, GoTo, At, Driving
  <2>2. Moves(c) /\ pc'[c] = "tool"
    BY <1>2, <1>6, <2>1, Moving DEF CallTool, Places, Driving
  <2>. QED BY <2>1, <2>2 DEF Kind, DrivesOn, Driving
<1>7. ASSUME NEW files, NEW cmds, ToolSucceeds(c, files, cmds) \/ ToolFails(c, files)
      PROVE  Moves(c) /\ Kind(c)
  <2>. DEFINE k == [j EXCEPT !.steps = @ + 1, !.tries = 0]
  <2>1. k \in Job /\ Counted(k, "loop") /\ Counted(k, "failed")
    BY <1>1, <1>7, Stepped DEF ToolSucceeds, ToolFails, At
  <2>2. job' = [job EXCEPT ![c] = k]
    BY <1>7 DEF ToolSucceeds, ToolFails, TypeOK
  <2>. HIDE DEF k
  <2>3. PICK w \in {"loop", "failed"} : pc' = [pc EXCEPT ![c] = w]
    BY <1>7 DEF ToolSucceeds, ToolFails, GoTo
  <2>4. pc[c] \in Driving /\ paused' = paused
    BY <1>7 DEF ToolSucceeds, ToolFails, At, Driving
  <2>5. Moves(c) /\ pc'[c] = w
    BY <2>1, <2>2, <2>3, <2>4, Moving DEF Places, Driving
  <2>. QED BY <2>4, <2>5 DEF Kind, DrivesOn, Driving
<1>8. ASSUME NEW files, ToolRetried(c, files)
      PROVE  Moves(c) /\ Kind(c)
  <2>. DEFINE k == [j EXCEPT !.plan = @ + 1, !.iter = @ - 1, !.tries = @ + 1]
  <2>1. k \in Job /\ Counted(k, "loop")
    BY <1>1, <1>8, Retried DEF ToolRetried, At
  <2>2. job' = [job EXCEPT ![c] = k]
    BY <1>8 DEF ToolRetried, TypeOK
  <2>. HIDE DEF k
  <2>3. /\ pc[c] \in Driving /\ paused' = paused
        /\ pc' = [pc EXCEPT ![c] = "loop"]
    BY <1>8 DEF ToolRetried, At, Driving, GoTo
  <2>4. Moves(c) /\ pc'[c] = "loop"
    BY <2>1, <2>2, <2>3, Moving DEF Places, Driving
  <2>. QED BY <2>3, <2>4 DEF Kind, DrivesOn, Driving
<1>9. CASE GiveUp(c) \/ ReplanFails(c) \/ PlanDone(c)
  <2>1. PICK stop \in StopReasons : PauseOrFinish(c, j, stop)
    BY <1>9 DEF GiveUp, ReplanFails, PlanDone, StopReasons
  <2>2. UNCHANGED gates /\ pc[c] \in Driving
    BY <1>9 DEF GiveUp, ReplanFails, PlanDone, At, Driving
  <2>. HIDE DEF j
  <2>. QED BY <1>1, <2>1, <2>2, PausingOrFinishing
<1>10. CASE StopBeforeReplan(c) \/ ReplanCancelled(c)
  <2>. DEFINE k == [j EXCEPT !.stop = "cancelled"]
  <2>1. k \in Job /\ Counted(k, "finish")
    BY <1>1, Stopped DEF StopReasons
  <2>2. job' = [job EXCEPT ![c] = k]
    BY <1>10 DEF StopBeforeReplan, ReplanCancelled, TypeOK
  <2>. HIDE DEF k
  <2>3. /\ pc' = [pc EXCEPT ![c] = "finish"]
        /\ paused' = paused /\ pc[c] \in Driving
    BY <1>10 DEF StopBeforeReplan, ReplanCancelled, GoTo, At, Driving
  <2>4. Moves(c) /\ pc'[c] = "finish"
    BY <2>1, <2>2, <2>3, Moving DEF Places, Driving
  <2>. QED BY <2>3, <2>4 DEF Kind, DrivesOn, Driving
<1>11. CASE AskReplan(c)
  <2>. DEFINE k == [j EXCEPT !.failedOnce = TRUE]
  <2>1. k \in Job /\ Counted(k, "replanning")
    BY <1>1, <1>11, Noted DEF AskReplan
  <2>2. job' = [job EXCEPT ![c] = k]
    BY <1>11 DEF AskReplan, TypeOK
  <2>. HIDE DEF k
  <2>3. /\ pc' = [pc EXCEPT ![c] = "replanning"]
        /\ paused' = paused /\ pc[c] \in Driving
    BY <1>11 DEF AskReplan, GoTo, At, Driving
  <2>4. Moves(c) /\ pc'[c] = "replanning"
    BY <2>1, <2>2, <2>3, Moving DEF Places, Driving
  <2>. QED BY <2>3, <2>4 DEF Kind, DrivesOn, Driving
<1>12. ASSUME NEW n \in Plans, ReplanReturns(c, n)
       PROVE  Moves(c) /\ Kind(c)
  <2>. DEFINE k == [j EXCEPT !.plan = n, !.replans = @ + 1]
  <2>1. k \in Job /\ Counted(k, "loop")
    BY <1>1, <1>12, Replanned DEF ReplanReturns, At, Tight
  <2>2. job' = [job EXCEPT ![c] = k]
    BY <1>12 DEF ReplanReturns, TypeOK
  <2>. HIDE DEF k
  <2>3. /\ pc' = [pc EXCEPT ![c] = "loop"]
        /\ paused' = paused /\ pc[c] \in Driving
    BY <1>12 DEF ReplanReturns, GoTo, At, Driving
  <2>4. Moves(c) /\ pc'[c] = "loop"
    BY <2>1, <2>2, <2>3, Moving DEF Places, Driving
  <2>. QED BY <2>3, <2>4 DEF Kind, DrivesOn, Driving
<1>. QED BY <1>3, <1>4, <1>5, <1>6, <1>7, <1>8, <1>9, <1>10, <1>11, <1>12 DEF Looping

\* The end of a run: reflection, a revision, or the teardown.
LEMMA FinishingKind ==
    ASSUME TypeOK, Counts, NEW c \in Callers, Finishing(c)
    PROVE  Moves(c) /\ Kind(c)
<1>. DEFINE j == job[c]
<1>1. j \in Job /\ Counted(j, pc[c])
  BY DEF TypeOK, Counts
<1>2. Counted(j, "verdict") /\ Counted(j, "teardown")
      /\ (j.replans < MaxReplans => Counted(j, "revising"))
  BY <1>1 DEF Counted, Tight
<1>3. CASE SkipReflection(c) \/ Reflect(c) \/ FollowVerdict(c) \/ RevisionFails(c)
  <2>1. PICK w \in {"verdict", "teardown", "revising"} :
           pc' = [pc EXCEPT ![c] = w] /\ Counted(j, w)
    BY <1>2, <1>3
    DEF SkipReflection, Reflect, FollowVerdict, RevisionFails, GoTo
  <2>2. pc[c] \in Driving /\ paused' = paused /\ job' = job
    BY <1>3 DEF SkipReflection, Reflect, FollowVerdict, RevisionFails, At, Driving
  <2>3. Moves(c) /\ pc'[c] = w
    BY <2>1, <2>2, MovingOn DEF Places, Driving
  <2>. QED BY <2>2, <2>3 DEF Kind, DrivesOn, Driving
<1>4. ASSUME NEW n \in Plans, RevisionReturns(c, n)
      PROVE  Moves(c) /\ Kind(c)
  <2>. DEFINE k == [j EXCEPT !.plan = n, !.replans = @ + 1, !.iter = j.steps,
                             !.tries = 0, !.failedOnce = FALSE, !.stop = "none"]
  <2>1. k \in Job /\ Counted(k, "loop")
    BY <1>1, <1>4, Revised DEF RevisionReturns, At
  <2>2. job' = [job EXCEPT ![c] = k]
    BY <1>4 DEF RevisionReturns, TypeOK
  <2>. HIDE DEF k
  <2>3. /\ pc' = [pc EXCEPT ![c] = "loop"]
        /\ paused' = paused /\ pc[c] \in Driving
    BY <1>4 DEF RevisionReturns, GoTo, At, Driving
  <2>4. Moves(c) /\ pc'[c] = "loop"
    BY <2>1, <2>2, <2>3, Moving DEF Places, Driving
  <2>. QED BY <2>3, <2>4 DEF Kind, DrivesOn, Driving
<1>5. CASE Teardown(c)
  <2>1. Moves(c) /\ pc'[c] = "out"
    BY <1>5, Returning DEF Teardown
  <2>2. Ends(c)
    BY <1>5, <2>1 DEF Teardown, Ends, Discard, Staged, At, Driving
  <2>. QED BY <2>1, <2>2 DEF Kind
<1>. QED BY <1>3, <1>4, <1>5 DEF Finishing

\* The approval: its gate, the application, the commands and the verification.
LEMMA ApprovingKind ==
    ASSUME TypeOK, Counts, SingleDriver, BatchIsTheOnePaused, NEW c \in Callers,
           Approving(c)
    PROVE  Moves(c) /\ Kind(c)
<1>. DEFINE j == job[c]
<1>1. j \in Job /\ Counted(j, pc[c])
  BY DEF TypeOK, Counts
<1>2. CASE GateRefuses(c) \/ NothingToTake(c)
  <2>1. Moves(c) /\ pc'[c] = "out"
    BY <1>2, Returning DEF GateRefuses, NothingToTake
  <2>2. Waits(c)
    BY <1>2, <2>1 DEF GateRefuses, NothingToTake, Waits, At, Driving, gates
  <2>. QED BY <2>1, <2>2 DEF Kind
<1>3. CASE GatePasses(c)
  <2>1. Counted(j, "take")
    BY <1>1 DEF Counted, Tight
  <2>2. Moves(c) /\ pc'[c] = "take"
    BY <1>3, <2>1, MovingOn DEF GatePasses, GoTo, Places, Waiting
  <2>3. Waits(c)
    BY <1>3, <2>2 DEF GatePasses, Waits, At, Driving, Waiting, gates, ghosts
  <2>. QED BY <2>2, <2>3 DEF Kind
<1>4. CASE TakePaused(c)
  <2>1. paused # NoJob /\ paused \in Job /\ Counted(paused, "out")
    BY <1>4 DEF TakePaused, TypeOK, Counts
  <2>2. Counted(paused, "apply") /\ Counted(paused, "discard")
    BY <2>1 DEF Counted, Tight
  <2>3. PICK w \in {"apply", "discard"} : pc' = [pc EXCEPT ![c] = w]
    BY <1>4 DEF TakePaused, GoTo
  <2>4. job' = [job EXCEPT ![c] = paused] /\ paused' = NoJob
    BY <1>4 DEF TakePaused
  <2>5. Moves(c)
    BY <2>1, <2>2, <2>3, <2>4 DEF Moves, Places, Driving
  <2>6. Takes(c)
    BY <1>4, <2>1, <2>3, <2>4 DEF Takes, TakePaused, At, Driving, TypeOK, gates
  <2>. QED BY <2>5, <2>6 DEF Kind
<1>5. CASE Apply(c)
  <2>. DEFINE b == edits # {}
              k == [j EXCEPT !.wrote = b, !.todo = commands]
  <2>0. b \in BOOLEAN /\ commands \in SUBSET Items
    BY DEF TypeOK
  <2>2. job' = [job EXCEPT ![c] = k]
    BY <1>5 DEF Apply, TypeOK
  <2>. HIDE DEF b
  <2>1. k \in Job /\ Counted(k, "commands") /\ k.shown = j.shown
    <3>1. j \in Job /\ Counted(j, pc[c])
      BY <1>1
    <3>. HIDE DEF j
    <3>. QED BY <2>0, <3>1, Noted
  <2>. HIDE DEF k
  <2>3. pc' = [pc EXCEPT ![c] = "commands"] /\ paused' = paused
    BY <1>5 DEF Apply, GoTo
  <2>4. Moves(c) /\ pc'[c] = "commands" /\ job'[c] = k
    BY <2>1, <2>2, <2>3, Moving DEF Places, Driving
  <2>5. Commands(c)
    BY <1>5, <2>1, <2>3, <2>4 DEF Apply, Commands, Staged, At
  <2>. QED BY <2>4, <2>5 DEF Kind
<1>6. CASE ApplyFails(c)
  <2>1. paused' = j /\ Counted(j, "out") /\ j # NoJob
    BY <1>1, <1>6, NoJobAssumption DEF ApplyFails, Counted, Tight
  <2>2. Counted(Fresh, "out") /\ Fresh \in Job
    BY FreshJob DEF Places, Tight
  <2>3. pc' = [pc EXCEPT ![c] = "out"] /\ job' = [job EXCEPT ![c] = Fresh]
    BY <1>6 DEF ApplyFails, Return, GoTo
  <2>4. Moves(c) /\ pc'[c] = "out"
    BY <1>1, <2>1, <2>2, <2>3 DEF Moves, Places, TypeOK
  <2>5. Staged # {} /\ ListedIn(j)
    BY <1>6 DEF ApplyFails, Staged, BatchIsTheOnePaused
  <2>6. Pauses(c)
    BY <1>1, <1>6, <2>1, <2>4, <2>5 DEF ApplyFails, Pauses, At, Driving
  <2>. QED BY <2>4, <2>6 DEF Kind
<1>7. CASE RunCommand(c)
  <2>. DEFINE k == [j EXCEPT !.todo = @ \ {Min(@)}]
  <2>1. j.todo \ {Min(j.todo)} \in SUBSET Items
    BY <1>1, JobParts
  <2>2. k \in Job /\ Counted(k, "commands") /\ k.shown = j.shown
    BY <1>1, <2>1, Noted
  <2>3. job' = [job EXCEPT ![c] = k]
    BY <1>7 DEF RunCommand, TypeOK
  <2>. HIDE DEF k
  <2>4. pc[c] = "commands" /\ pc' = [pc EXCEPT ![c] = "commands"] /\ paused' = paused
    BY <1>7 DEF RunCommand, At, TypeOK
  <2>5. Moves(c) /\ pc'[c] = "commands" /\ job'[c] = k
    BY <2>2, <2>3, <2>4, Moving DEF Places, Driving
  <2>6. Commands(c)
    BY <1>7, <2>2, <2>4, <2>5 DEF RunCommand, Commands, Staged, gates
  <2>. QED BY <2>5, <2>6 DEF Kind
<1>8. CASE CommandFails(c)
  <2>. DEFINE k == [j EXCEPT !.todo = {}]
  <2>1. k \in Job /\ Counted(k, "verify")
    BY <1>1, Noted
  <2>2. job' = [job EXCEPT ![c] = k]
    BY <1>8 DEF CommandFails, TypeOK
  <2>. HIDE DEF k
  <2>3. /\ pc' = [pc EXCEPT ![c] = "verify"]
        /\ paused' = paused /\ pc[c] \in Driving
    BY <1>8 DEF CommandFails, GoTo, At, Driving
  <2>4. Moves(c) /\ pc'[c] = "verify"
    BY <2>1, <2>2, <2>3, Moving DEF Places, Driving
  <2>. QED BY <2>3, <2>4 DEF Kind, DrivesOn, Driving
<1>9. CASE CommandTimesOut(c)
  <2>1. Moves(c) /\ pc'[c] = "out"
    BY <1>9, Returning DEF CommandTimesOut
  <2>2. Ends(c)
    BY <1>9, <2>1 DEF CommandTimesOut, Ends, At, Driving
  <2>. QED BY <2>1, <2>2 DEF Kind
<1>10. CASE CommandsDone(c) \/ TestsFail(c) \/ Resume(c) \/ RetestPlanFails(c)
  <2>1. /\ Counted(j, "verify") /\ Counted(j, "loop")
        /\ j.replans < MaxReplans => Counted(j, "retesting")
    BY <1>1 DEF Counted, Tight
  <2>2. PICK w \in {"verify", "loop", "retesting"} :
           pc' = [pc EXCEPT ![c] = w] /\ Counted(j, w)
    BY <1>10, <2>1 DEF CommandsDone, TestsFail, Resume, RetestPlanFails, GoTo
  <2>3. pc[c] \in Driving /\ paused' = paused /\ job' = job
    BY <1>10 DEF CommandsDone, TestsFail, Resume, RetestPlanFails, At, Driving
  <2>4. Moves(c) /\ pc'[c] = w
    BY <2>2, <2>3, MovingOn DEF Places, Driving
  <2>. QED BY <2>3, <2>4 DEF Kind, DrivesOn, Driving
<1>11. ASSUME NEW n \in Plans, RetestPlanReturns(c, n)
       PROVE  Moves(c) /\ Kind(c)
  <2>. DEFINE k == [j EXCEPT !.plan = n, !.replans = @ + 1]
  <2>1. k \in Job /\ Counted(k, "loop")
    BY <1>1, <1>11, Replanned DEF RetestPlanReturns, At, Tight
  <2>2. job' = [job EXCEPT ![c] = k]
    BY <1>11 DEF RetestPlanReturns, TypeOK
  <2>. HIDE DEF k
  <2>3. /\ pc' = [pc EXCEPT ![c] = "loop"]
        /\ paused' = paused /\ pc[c] \in Driving
    BY <1>11 DEF RetestPlanReturns, GoTo, At, Driving
  <2>4. Moves(c) /\ pc'[c] = "loop"
    BY <2>1, <2>2, <2>3, Moving DEF Places, Driving
  <2>. QED BY <2>3, <2>4 DEF Kind, DrivesOn, Driving
<1>. QED BY <1>2, <1>3, <1>4, <1>5, <1>6, <1>7, <1>8, <1>9, <1>10, <1>11 DEF Approving

\* Every other call of a caller.
LEMMA CallingKind ==
    ASSUME IInv, NEW c \in Callers,
           \/ BeginRun(c) \/ ApproveCalled(c) \/ RejectCalled(c)
           \/ \E n \in Plans : PlanReturns(c, n)
           \/ PlanFails(c) \/ DiscardBatch(c)
    PROVE  Moves(c) /\ Kind(c)
<1>. USE DEF IInv
<1>. DEFINE j == job[c]
<1>1. j \in Job /\ Counted(j, pc[c])
  BY DEF TypeOK, Counts
<1>2. CASE BeginRun(c)
  <2>1. Counted(j, "planning") /\ Counted(j, "out")
    BY <1>1 DEF Counted, Tight
  <2>2. PICK w \in {"planning", "out"} : pc' = [pc EXCEPT ![c] = w]
    BY <1>2 DEF BeginRun, GoTo, At, TypeOK
  <2>3. job' = job /\ paused' = paused
    BY <1>2 DEF BeginRun
  <2>4. Moves(c) /\ pc'[c] = w
    BY <2>1, <2>2, <2>3, MovingOn DEF Places, Driving
  <2>5. Begins(c)
    BY <1>2, <2>4 DEF BeginRun, Begins, At, gates, ghosts
  <2>. QED BY <2>4, <2>5 DEF Kind
<1>3. CASE ApproveCalled(c)
  <2>1. Counted(j, "gate")
    BY <1>1 DEF Counted, Tight
  <2>2. Moves(c) /\ pc'[c] = "gate"
    BY <1>3, <2>1, MovingOn DEF ApproveCalled, GoTo, Places, Waiting
  <2>3. Waits(c)
    BY <1>3, <2>2 DEF ApproveCalled, Waits, At, Driving, Waiting, gates, ghosts
  <2>. QED BY <2>2, <2>3 DEF Kind
<1>4. CASE RejectCalled(c)
  <2>1. paused # NoJob /\ paused \in Job /\ Counted(paused, "out")
    BY <1>4 DEF RejectCalled, TypeOK, Counts
  <2>2. Counted(paused, "discard")
    BY <2>1 DEF Counted, Tight
  <2>3. /\ pc' = [pc EXCEPT ![c] = "discard"] /\ job' = [job EXCEPT ![c] = paused]
        /\ paused' = NoJob
    BY <1>4 DEF RejectCalled, GoTo
  <2>4. Moves(c)
    BY <2>1, <2>2, <2>3 DEF Moves, Places, Driving
  <2>5. Takes(c)
    BY <1>4, <2>1, <2>3 DEF Takes, RejectCalled, At, Driving, TypeOK, gates
  <2>. QED BY <2>4, <2>5 DEF Kind
<1>5. ASSUME NEW n \in Plans, PlanReturns(c, n)
      PROVE  Moves(c) /\ Kind(c)
  <2>. DEFINE k == [Fresh EXCEPT !.plan = n]
  <2>1. k \in Job /\ Counted(k, "loop")
    BY Planned
  <2>2. job' = [job EXCEPT ![c] = k]
    BY <1>5 DEF PlanReturns
  <2>. HIDE DEF k
  <2>3. /\ pc' = [pc EXCEPT ![c] = "loop"]
        /\ paused' = paused /\ pc[c] \in Driving
    BY <1>5 DEF PlanReturns, GoTo, At, Driving
  <2>4. Moves(c) /\ pc'[c] = "loop"
    BY <2>1, <2>2, <2>3, Moving DEF Places, Driving
  <2>. QED BY <2>3, <2>4 DEF Kind, DrivesOn, Driving
<1>6. CASE PlanFails(c)
  <2>1. Moves(c) /\ pc'[c] = "out"
    BY <1>6, Returning DEF PlanFails
  <2>2. Staged = {} \/ timedOut
    BY <1>6 DEF PlanFails, PlansClean
  <2>3. Ends(c)
    BY <1>6, <2>1, <2>2 DEF PlanFails, Ends, Staged, At, Driving, gates
  <2>. QED BY <2>1, <2>3 DEF Kind
<1>7. CASE DiscardBatch(c)
  <2>1. Moves(c) /\ pc'[c] = "out"
    BY <1>7, Returning DEF DiscardBatch
  <2>2. Ends(c)
    BY <1>7, <2>1 DEF DiscardBatch, Ends, Discard, Staged, At, Driving
  <2>. QED BY <2>1, <2>2 DEF Kind
<1>. QED BY <1>2, <1>3, <1>4, <1>5, <1>6, <1>7

-----------------------------------------------------------------------------
(* The other variables.                                                      *)

\* No call of the executor stages anything from outside it.
LEMMA OutsideStays ==
    ASSUME NEW c \in Callers, BeginRun(c) \/ ApproveCalled(c) \/ RejectCalled(c) \/ Step(c)
    PROVE  joined' = joined
<1>. USE DEF engine
<1>1. CASE \/ BeginRun(c) \/ ApproveCalled(c) \/ RejectCalled(c) \/ PlanFails(c)
           \/ DiscardBatch(c) \/ \E n \in Plans : PlanReturns(c, n)
  BY <1>1 DEF BeginRun, ApproveCalled, RejectCalled, PlanFails, DiscardBatch, PlanReturns
<1>2. CASE Looping(c)
  BY <1>2 DEF Looping, IterationsExhausted, NoToolNeeded, StepCancelled, CallTool,
              ToolSucceeds, ToolRetried, ToolFails, GiveUp, StopBeforeReplan, AskReplan,
              ReplanReturns, ReplanFails, ReplanCancelled, PlanDone
<1>3. CASE Finishing(c)
  BY <1>3 DEF Finishing, SkipReflection, Reflect, FollowVerdict, RevisionReturns,
              RevisionFails, Teardown
<1>4. CASE Approving(c)
  BY <1>4 DEF Approving, GateRefuses, GatePasses, TakePaused, NothingToTake, Apply,
              ApplyFails, RunCommand, CommandsDone, CommandFails, CommandTimesOut,
              TestsFail, Resume, RetestPlanReturns, RetestPlanFails
<1>. QED BY <1>1, <1>2, <1>3, <1>4 DEF Step

\* The items staged next are items.
LEMMA NewItems ==
    ASSUME used \in 0..MaxItems, NEW n \in Nat, used + n <= MaxItems
    PROVE  New(n) \subseteq Items /\ used + n \in 0..MaxItems
BY ExecutorAssumption DEF New, Items

\* The types of what is neither pc, job nor the pause.
GatesOK ==
    /\ edits \subseteq Items
    /\ commands \subseteq Items
    /\ cancelled \in BOOLEAN
    /\ reflections \in Nat
    /\ runs \in 0..MaxRuns
    /\ used \in 0..MaxItems
    /\ ran \in [Items -> 0..2]
    /\ timedOut \in BOOLEAN
    /\ joined \subseteq Items

\* Items may have taken effect: the count stays between 0 and 2.
LEMMA EffectType ==
    ASSUME GatesOK, NEW S, TakeEffect(S)
    PROVE  ran' \in [Items -> 0..2]
BY DEF GatesOK, TakeEffect

\* Every step keeps these types.
LEMMA GatesStep == ASSUME TypeOK, [Next]_vars PROVE GatesOK'
<1>1. GatesOK
  BY DEF TypeOK, GatesOK
<1>. USE DEF gates, engine, ghosts
<1>2. CASE UNCHANGED vars
  BY <1>1, <1>2 DEF GatesOK, vars
<1>3. CASE Cancel
  BY <1>1, <1>3 DEF GatesOK, Cancel
<1>9. ASSUME NEW files \in 0..1, NEW cmds \in 0..1, CallFromOutside(files, cmds)
      PROVE  GatesOK'
  <2>1. /\ files + cmds \in Nat
        /\ used + (files + cmds) <= MaxItems
        /\ used + files + cmds = used + (files + cmds)
        /\ used + files <= MaxItems
    BY <1>1, <1>9, ExecutorAssumption DEF CallFromOutside, GatesOK
  <2>2. /\ New(files) \subseteq Items /\ New(files + cmds) \subseteq Items
        /\ used + files + cmds \in 0..MaxItems
    BY <1>1, <2>1, NewItems DEF GatesOK
  <2>. QED BY <1>1, <1>9, <2>2 DEF GatesOK, CallFromOutside
<1>4. ASSUME NEW c \in Callers, BeginRun(c)
      PROVE  GatesOK'
  <2>1. runs' \in 0..MaxRuns
    BY <1>1, <1>4, ExecutorAssumption DEF GatesOK, BeginRun
  <2>. QED BY <1>1, <1>4, <2>1 DEF GatesOK, BeginRun
<1>5. ASSUME NEW c \in Callers,
             \/ ApproveCalled(c) \/ RejectCalled(c) \/ PlanFails(c) \/ DiscardBatch(c)
             \/ \E n \in Plans : PlanReturns(c, n)
      PROVE  GatesOK'
  BY <1>1, <1>5
  DEF GatesOK, ApproveCalled, RejectCalled, PlanFails, DiscardBatch, PlanReturns,
      Return, Discard
<1>6. ASSUME NEW c \in Callers, Looping(c)
      PROVE  GatesOK'
  <2>1. CASE \/ IterationsExhausted(c) \/ NoToolNeeded(c) \/ GiveUp(c)
             \/ ReplanFails(c) \/ PlanDone(c)
    BY <1>1, <2>1
    DEF GatesOK, IterationsExhausted, NoToolNeeded, GiveUp, ReplanFails, PlanDone
  <2>2. CASE \/ StepCancelled(c) \/ CallTool(c) \/ StopBeforeReplan(c)
             \/ AskReplan(c) \/ ReplanCancelled(c)
             \/ \E n \in Plans : ReplanReturns(c, n)
    BY <1>1, <2>2
    DEF GatesOK, StepCancelled, CallTool, StopBeforeReplan, AskReplan,
        ReplanCancelled, ReplanReturns
  <2>3. ASSUME NEW files \in 0..2, NEW cmds \in 0..1, ToolSucceeds(c, files, cmds)
        PROVE  GatesOK'
    <3>1. /\ files + cmds \in Nat
          /\ used + (files + cmds) <= MaxItems
          /\ used + files + cmds = used + (files + cmds)
          /\ used + files <= MaxItems
      BY <1>1, <2>3, ExecutorAssumption DEF ToolSucceeds, GatesOK
    <3>2. /\ New(files) \subseteq Items /\ New(files + cmds) \subseteq Items
          /\ used + files + cmds \in 0..MaxItems
      BY <1>1, <3>1, NewItems DEF GatesOK
    <3>. QED BY <1>1, <2>3, <3>2 DEF GatesOK, ToolSucceeds
  <2>4. ASSUME NEW files \in 0..1, ToolRetried(c, files) \/ ToolFails(c, files)
        PROVE  GatesOK'
    <3>1. used + files <= MaxItems
      BY <2>4 DEF ToolRetried, ToolFails
    <3>2. New(files) \subseteq Items /\ used + files \in 0..MaxItems
      BY <1>1, <3>1, NewItems DEF GatesOK
    <3>. QED BY <1>1, <2>4, <3>2 DEF GatesOK, ToolRetried, ToolFails
  <2>. QED BY <1>6, <2>1, <2>2, <2>3, <2>4 DEF Looping
<1>7. ASSUME NEW c \in Callers, Finishing(c)
      PROVE  GatesOK'
  <2>1. CASE Reflect(c)
    <3>1. reflections' \in Nat
      BY <1>1, <2>1 DEF GatesOK, Reflect
    <3>. QED BY <1>1, <2>1, <3>1 DEF GatesOK, Reflect
  <2>2. CASE \/ SkipReflection(c) \/ FollowVerdict(c) \/ RevisionFails(c)
             \/ \E n \in Plans : RevisionReturns(c, n)
    BY <1>1, <2>2 DEF GatesOK, SkipReflection, FollowVerdict, RevisionFails, RevisionReturns
  <2>3. CASE Teardown(c)
    BY <1>1, <2>3 DEF GatesOK, Teardown, Return, Discard
  <2>. QED BY <1>7, <2>1, <2>2, <2>3 DEF Finishing
<1>8. ASSUME NEW c \in Callers, Approving(c)
      PROVE  GatesOK'
  <2>1. CASE Apply(c) \/ RunCommand(c)
    <3>1. ran' \in [Items -> 0..2]
      BY <1>1, <2>1, EffectType DEF Apply, RunCommand
    <3>. QED BY <1>1, <2>1, <3>1 DEF GatesOK, Apply, RunCommand
  <2>2. CASE \/ GateRefuses(c) \/ GatePasses(c) \/ TakePaused(c) \/ NothingToTake(c)
             \/ ApplyFails(c) \/ CommandsDone(c) \/ CommandFails(c)
             \/ CommandTimesOut(c)
    BY <1>1, <2>2
    DEF GatesOK, GateRefuses, GatePasses, TakePaused, NothingToTake, ApplyFails,
        CommandsDone, CommandFails, CommandTimesOut, Return
  <2>3. CASE \/ TestsFail(c) \/ Resume(c) \/ RetestPlanFails(c)
             \/ \E n \in Plans : RetestPlanReturns(c, n)
    BY <1>1, <2>3
    DEF GatesOK, TestsFail, Resume, RetestPlanFails, RetestPlanReturns
  <2>. QED BY <1>8, <2>1, <2>2, <2>3 DEF Approving
<1>. QED BY <1>2, <1>3, <1>4, <1>5, <1>6, <1>7, <1>8, <1>9 DEF Next, Step

-----------------------------------------------------------------------------
(* The theorems.                                                             *)

\* Initially nothing has been called and nothing is staged.
LEMMA InitHolds == Init => IInv
<1>. SUFFICES ASSUME Init PROVE IInv
  OBVIOUS
<1>. USE DEF Init
<1>1. Fresh \in Job /\ Counted(Fresh, "out")
  BY FreshJob DEF Places, Tight
<1>2. /\ pc \in [Callers -> Driving \cup Waiting \cup {"out"}]
      /\ job \in [Callers -> Job]
      /\ paused \in Job \cup {NoJob}
  BY <1>1
<1>3. runs \in 0..MaxRuns /\ used \in 0..MaxItems
  BY ExecutorAssumption
<1>4. ran \in [Items -> 0..2]
  OBVIOUS
<1>5. TypeOK
  BY <1>2, <1>3, <1>4 DEF TypeOK
<1>6. Counts
  BY <1>1 DEF Counts
<1>7. SingleDriver /\ BatchIsTheOnePaused /\ NothingStranded /\ PlansClean
  BY DEF SingleDriver, BatchIsTheOnePaused, NothingStranded, PlansClean, Drivers,
         Driving, At, Staged
<1>. QED BY <1>5, <1>6, <1>7 DEF IInv

\* The invariant is inductive.
THEOREM Inductive == IInv /\ [Next]_vars => IInv'
<1>. SUFFICES ASSUME IInv, [Next]_vars PROVE IInv'
  OBVIOUS
<1>1. GatesOK'
  BY GatesStep DEF IInv
<1>2. ASSUME NEW c \in Callers, Moves(c), Kind(c), joined' = joined
      PROVE  IInv'
  <2>1. TypeOK
    BY DEF IInv
  <2>2. PICK j \in Job, where \in Places :
           /\ Counted(j, where)
           /\ pc' = [pc EXCEPT ![c] = where] /\ job' = [job EXCEPT ![c] = j]
    BY <1>2 DEF Moves
  <2>3. /\ pc' \in [Callers -> Places] /\ job' \in [Callers -> Job]
        /\ paused' \in Job \cup {NoJob}
    BY <1>2, <2>1, <2>2 DEF TypeOK, Places, Moves
  <2>4. TypeOK'
    BY <1>1, <2>3 DEF TypeOK, GatesOK, Places
  <2>5. \A d \in Callers : Counted(job'[d], pc'[d])
    BY <2>1, <2>2 DEF IInv, Counts, TypeOK
  <2>6. Counts'
    BY <1>2, <2>5 DEF Counts, Moves
  <2>. QED BY <1>2, <2>4, <2>6, KindsPreserve DEF IInv
<1>3. CASE UNCHANGED vars
  BY <1>3
  DEF IInv, vars, gates, engine, ghosts, TypeOK, Counts, SingleDriver, BatchIsTheOnePaused,
      NothingStranded, PlansClean, Drivers, Staged, At, ListedIn
<1>4. CASE Cancel
  <2>1. UNCHANGED <<pc, job, paused, edits, commands, timedOut, joined>>
    BY <1>4 DEF Cancel, gates, ghosts
  <2>2. TypeOK'
    BY <1>1, <2>1 DEF IInv, TypeOK, GatesOK
  <2>. QED BY <2>1, <2>2
       DEF IInv, Counts, SingleDriver, BatchIsTheOnePaused, NothingStranded, PlansClean,
           Drivers, Staged, At, ListedIn
<1>5. ASSUME NEW c \in Callers, BeginRun(c) \/ ApproveCalled(c) \/ RejectCalled(c) \/ Step(c)
      PROVE  IInv'
  <2>1. Moves(c) /\ Kind(c)
    BY <1>5, CallingKind, LoopingKind, FinishingKind, ApprovingKind DEF IInv, Step
  <2>2. joined' = joined
    BY <1>5, OutsideStays
  <2>. QED BY <1>2, <2>1, <2>2
<1>6. ASSUME NEW files \in 0..1, NEW cmds \in 0..1, CallFromOutside(files, cmds)
      PROVE  IInv'
  <2>1. /\ UNCHANGED <<pc, job, paused, timedOut>>
        /\ \A c \in Callers : pc[c] = "out"
        /\ paused # NoJob \/ timedOut
        /\ Staged \subseteq Staged' /\ Staged' \subseteq Staged \cup New(files + cmds)
        /\ joined' = joined \cup New(files + cmds)
    <3>1. New(files) \subseteq New(files + cmds)
      BY <1>6 DEF New, IInv, TypeOK
    <3>. QED BY <1>6, <3>1 DEF CallFromOutside, At, Staged
  <2>2. TypeOK'
    BY <1>1, <2>1 DEF IInv, TypeOK, GatesOK
  <2>3. Counts' /\ SingleDriver' /\ PlansClean'
    BY <2>1 DEF IInv, Counts, SingleDriver, PlansClean, Drivers, Driving, At
  <2>4. BatchIsTheOnePaused'
    BY <2>1 DEF IInv, BatchIsTheOnePaused, ListedIn, At
  <2>5. NothingStranded'
    BY <2>1 DEF NothingStranded
  <2>. QED BY <2>2, <2>3, <2>4, <2>5 DEF IInv
<1>. QED BY <1>3, <1>4, <1>5, <1>6 DEF Next

\* The invariant holds of every behaviour.
THEOREM Invariant == Spec => []IInv
<1>. QED BY InitHolds, Inductive, PTL DEF Spec

\* run(), approve(), reject() and cancel() keep the executor's state well-formed.
THEOREM TypeCorrect == Spec => []TypeOK
<1>1. IInv => TypeOK
  BY DEF IInv
<1>. QED BY <1>1, Invariant, PTL

\* However calls race, one of them at most drives the execution, and none does
\* while it is paused.
THEOREM OneDriver == Spec => []SingleDriver
<1>1. IInv => SingleDriver
  BY DEF IInv
<1>. QED BY <1>1, Invariant, PTL

\* An approval carries out the batch that the report of the pause it takes listed,
\* with what calls from outside the run added to it.
THEOREM ApprovedAsPaused == Spec => []BatchIsTheOnePaused
<1>1. IInv => BatchIsTheOnePaused
  BY DEF IInv
<1>. QED BY <1>1, Invariant, PTL

\* The budgets bound a task across all its pauses, reflections and revisions.
THEOREM BudgetsBound == Spec => []BudgetsHold
<1>1. IInv => BudgetsHold
  BY DEF IInv, Counts, Counted, BudgetsHold
<1>. QED BY <1>1, Invariant, PTL

\* Staged work is never out of reach, but for a batch whose command timed out.
THEOREM NeverStranded == Spec => []NothingStranded
<1>1. IInv => NothingStranded
  BY DEF IInv
<1>. QED BY <1>1, Invariant, PTL

\* After a cancellation has been requested, and with no approval being carried
\* out, nothing takes effect for the rest of the executor's life.
THEOREM CancellationIsFinal == Spec => CancelIsFinal
<1>1. IInv /\ [Next]_vars => [Barred => Barred' /\ ran' = ran]_vars
  <2>. SUFFICES ASSUME IInv, [Next]_vars, Barred
                PROVE  Barred' /\ ran' = ran
    OBVIOUS
  <2>. USE DEF Barred
  <2>1. CASE UNCHANGED vars
    BY <2>1 DEF vars, ghosts, engine
  <2>2. CASE Cancel
    BY <2>2 DEF Cancel
  <2>4. CASE CallFromOutside(1, 0) \/ CallFromOutside(0, 1)
    BY <2>4 DEF CallFromOutside
  <2>3. ASSUME NEW c \in Callers,
               BeginRun(c) \/ ApproveCalled(c) \/ RejectCalled(c) \/ Step(c)
        PROVE  Barred' /\ ran' = ran
    <3>1. Moves(c)
      BY <2>3, CallingKind, LoopingKind, FinishingKind, ApprovingKind DEF IInv, Step
    <3>2. \A d \in Callers \ {c} : pc'[d] = pc[d]
      BY <3>1 DEF Moves, IInv, TypeOK
    <3>3. pc'[c] \notin {"apply", "commands"} /\ UNCHANGED <<cancelled, ran>>
      <4>1. /\ pc \in [Callers -> Places] /\ cancelled
            /\ pc[c] \notin {"apply", "commands"}
        BY DEF IInv, TypeOK, Places
      <4>. USE <4>1 DEF At, GoTo, Return, engine, ghosts
      <4>2. CASE BeginRun(c) \/ ApproveCalled(c) \/ RejectCalled(c)
        BY <4>2 DEF BeginRun, ApproveCalled, RejectCalled
      <4>3. CASE \/ PlanFails(c) \/ DiscardBatch(c)
                 \/ \E n \in Plans : PlanReturns(c, n)
        BY <4>3 DEF PlanFails, DiscardBatch, PlanReturns
      <4>4. CASE \/ StepCancelled(c) \/ CallTool(c) \/ StopBeforeReplan(c)
                 \/ AskReplan(c) \/ ReplanCancelled(c)
                 \/ \E n \in Plans : ReplanReturns(c, n)
        BY <4>4 DEF StepCancelled, CallTool, HasStep, StopBeforeReplan, AskReplan,
                    ReplanCancelled, ReplanReturns
      <4>5. ASSUME NEW files, NEW cmds,
                   \/ ToolSucceeds(c, files, cmds) \/ ToolRetried(c, files)
                   \/ ToolFails(c, files)
            PROVE  pc'[c] \notin {"apply", "commands"} /\ UNCHANGED <<cancelled, ran>>
        BY <4>5 DEF ToolSucceeds, ToolRetried, ToolFails
      <4>6. ASSUME NEW j, NEW stop, PauseOrFinish(c, j, stop)
            PROVE  pc'[c] \notin {"apply", "commands"}
        BY <4>6 DEF PauseOrFinish
      <4>7. CASE \/ IterationsExhausted(c) \/ NoToolNeeded(c) \/ GiveUp(c)
                 \/ ReplanFails(c) \/ PlanDone(c)
        <5>1. pc'[c] \notin {"apply", "commands"}
          BY <4>6, <4>7
          DEF IterationsExhausted, NoToolNeeded, GiveUp, ReplanFails, PlanDone
        <5>2. UNCHANGED <<cancelled, ran>>
          BY <4>7
          DEF IterationsExhausted, NoToolNeeded, GiveUp, ReplanFails, PlanDone
        <5>. QED BY <5>1, <5>2
      <4>8. CASE Finishing(c)
        BY <4>8 DEF Finishing, SkipReflection, Reflect, FollowVerdict, RevisionReturns,
                    RevisionFails, Teardown
      <4>9. CASE \/ GateRefuses(c) \/ GatePasses(c) \/ TakePaused(c)
                 \/ NothingToTake(c) \/ TestsFail(c) \/ Resume(c) \/ RetestPlanFails(c)
                 \/ \E n \in Plans : RetestPlanReturns(c, n)
        BY <4>9 DEF GateRefuses, GatePasses, TakePaused, NothingToTake, TestsFail,
                    Resume, RetestPlanReturns, RetestPlanFails
      <4>10. ~(\/ Apply(c) \/ ApplyFails(c) \/ RunCommand(c) \/ CommandsDone(c)
               \/ CommandFails(c) \/ CommandTimesOut(c))
        BY DEF Apply, ApplyFails, RunCommand, CommandsDone, CommandFails, CommandTimesOut
      <4>. QED BY <2>3, <4>2, <4>3, <4>4, <4>5, <4>7, <4>8, <4>9, <4>10
           DEF Step, Looping, Approving
    <3>. QED BY <3>2, <3>3
  <2>. QED BY <2>1, <2>2, <2>3, <2>4 DEF Next
<1>. QED BY <1>1, Invariant, PTL DEF Spec, CancelIsFinal
=============================================================================
