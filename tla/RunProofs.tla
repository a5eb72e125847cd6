----------------------------- MODULE RunProofs -------------------------------
(*****************************************************************************)
(* Theorems about what a run works through, for any workspaces, threads,      *)
(* commands, edits and bounds:                                               *)
(*   the context     what a tool finds around it belongs to the execution     *)
(*                   that calls it (ToolContext);                            *)
(*   the MCP server  nothing is written that the user did not decide, and no  *)
(*                   staged batch is left where no decision reaches it;       *)
(*   the commands    the output of a staged command reaches the step that     *)
(*                   staged it, and no other;                                *)
(*   the stream      what is emitted reaches the browser, in order, before    *)
(*                   its end;                                                *)
(*   the client      a prompt is repeated only after failures that pass, at   *)
(*                   most one request follows a cancel, and the object of an  *)
(*                   answer is found (LlmClient).                             *)
(* They share no variable; the theorems of each are about its own            *)
(* specification.                                                            *)
(*****************************************************************************)
EXTENDS ToolContext, FiniteSetTheorems, SequenceTheorems, NaturalsInduction,
        WellFoundedInduction, TLAPS

-----------------------------------------------------------------------------
(* THE CONTEXT                                                               *)

Labels == {"idle", "spawned", "entered", "begin", "running", "approving", "applying", "rejecting"}
Driving == {"begin", "running", "approving", "applying", "rejecting"}

Typed ==
    /\ roots \in Seq(Roots) /\ Len(roots) \in 1 .. MaxSessions
    /\ executors \in Seq([session : 1 .. Len(roots), state : {"running", "paused", "over"}])
    /\ Len(executors) <= MaxExecutors
    /\ serving \in Seq({None} \cup 1 .. Len(executors)) /\ Len(serving) = Len(roots)
    /\ thread \in [Threads -> [at : Labels, session : 0 .. Len(roots),
                               executor : {None} \cup 1 .. Len(executors)]]
    /\ root \in [Threads -> Roots \cup {None}]
    /\ gate \in [Threads -> {None} \cup 1 .. Len(executors)]

\* The executor a session serves was made in that session.
Served == \A n \in 1 .. Len(roots) : serving[n] # None => executors[serving[n]].session = n

\* A thread drives an executor of the session it runs for; a thread of a run has
\* that session's root, a thread of the pool none; and while tools are called the
\* gate in the thread's context is the executor's.
Sound(t) ==
    /\ ~At(t, "idle") => Session(t) \in 1 .. Len(roots)
    /\ thread[t].at \in Driving =>
         Driven(t) \in 1 .. Len(executors) /\ executors[Driven(t)].session = Session(t)
    /\ t \in Pool => root[t] = None /\ thread[t].at \notin {"spawned", "entered", "begin"}
    /\ t \notin Pool =>
         /\ thread[t].at \notin {"approving", "applying", "rejecting"}
         /\ thread[t].at \in {"entered", "begin", "running"} => root[t] = roots[Session(t)]
    /\ At(t, "running") => gate[t] = Driven(t)

Called ==
    call # NoCall =>
        /\ call.executor \in 1 .. Len(executors)
        /\ call.gate = call.executor
        /\ call.root = IF call.by \in Pool THEN Cwd ELSE Home(call.executor)

IInv == Typed /\ Served /\ (\A t \in Threads : Sound(t)) /\ Called

-----------------------------------------------------------------------------
(* The data: an executor changes its state, a session lets go of its own, a   *)
(* new executor is made and served.                                           *)

States == {"running", "paused", "over"}
Jobs == [session : 1 .. Len(roots), state : States]

LEMMA Became ==
    ASSUME Typed, NEW e \in 1 .. Len(executors), NEW state \in States, Become(e, state)
    PROVE  /\ executors' \in Seq(Jobs) /\ Len(executors') = Len(executors)
           /\ \A k \in 1 .. Len(executors) : executors'[k].session = executors[k].session
<1>1. executors \in Seq(Jobs) /\ executors[e] \in Jobs
  BY ElementOfSeq DEF Typed, Jobs, States
<1>. DEFINE x == [executors[e] EXCEPT !.state = state]
<1>2. x \in Jobs /\ x.session = executors[e].session
  BY <1>1 DEF Jobs
<1>3. executors' = [executors EXCEPT ![e] = x]
  BY DEF Become
<1>. HIDE DEF x
<1>. QED BY <1>1, <1>2, <1>3, ExceptSeq

LEMMA LetGo ==
    ASSUME Typed, NEW n \in 1 .. Len(roots), serving' = [serving EXCEPT ![n] = None]
    PROVE  /\ serving' \in Seq({None} \cup 1 .. Len(executors)) /\ Len(serving') = Len(roots)
           /\ \A m \in 1 .. Len(roots) : serving'[m] \in {None, serving[m]}
<1>1. /\ serving \in Seq({None} \cup 1 .. Len(executors)) /\ Len(serving) = Len(roots)
      /\ None \in {None} \cup 1 .. Len(executors)
  BY DEF Typed
<1>. QED BY <1>1, ExceptSeq

\* What one thread may do to the rest: executors are added and change state, but
\* never session; the other threads keep what is theirs.
LEMMA Acting ==
    ASSUME IInv, NEW t \in Threads, Typed', Served', Sound(t)', UNCHANGED <<roots, call>>,
           Len(executors) <= Len(executors'),
           \A e \in 1 .. Len(executors) : executors'[e].session = executors[e].session,
           \A u \in Threads \ {t} :
             thread'[u] = thread[u] /\ root'[u] = root[u] /\ gate'[u] = gate[u]
    PROVE  IInv'
<1>1. Len(executors) \in Nat /\ Len(executors') \in Nat
  BY LenProperties DEF IInv, Typed
<1>2. \A e \in 1 .. Len(executors) : e \in 1 .. Len(executors') /\ Home(e)' = Home(e)
  BY <1>1 DEF Home
<1>3. ASSUME NEW u \in Threads \ {t} PROVE Sound(u)'
  <2>1. Sound(u)
    BY DEF IInv
  <2>. QED BY <1>2, <1>3, <2>1 DEF Sound, At, Session, Driven, Driving
<1>4. Called'
  BY <1>2 DEF IInv, Called
<1>. QED BY <1>3, <1>4 DEF IInv

\* What a step of thread t makes of it (j), of its root (r) and of its gate (g).
Change(t, j, r, g) ==
    /\ executors' \in Seq(Jobs)
    /\ Len(executors) <= Len(executors') /\ Len(executors') <= MaxExecutors
    /\ \A e \in 1 .. Len(executors) : executors'[e].session = executors[e].session
    /\ serving' \in Seq({None} \cup 1 .. Len(executors')) /\ Len(serving') = Len(roots)
    /\ j \in [at : Labels, session : 0 .. Len(roots), executor : {None} \cup 1 .. Len(executors')]
    /\ thread' = [thread EXCEPT ![t] = j]
    /\ r \in Roots \cup {None} /\ root' = [root EXCEPT ![t] = r]
    /\ g \in {None} \cup 1 .. Len(executors') /\ gate' = [gate EXCEPT ![t] = g]

\* What the thread may be in afterwards.
Fits(t, j, r, g) ==
    /\ j.at # "idle" => j.session \in 1 .. Len(roots)
    /\ j.at \in Driving =>
         j.executor \in 1 .. Len(executors') /\ executors'[j.executor].session = j.session
    /\ t \in Pool => r = None /\ j.at \notin {"spawned", "entered", "begin"}
    /\ t \notin Pool =>
         /\ j.at \notin {"approving", "applying", "rejecting"}
         /\ j.at \in {"entered", "begin", "running"} => r = roots[j.session]
    /\ j.at = "running" => g = j.executor

LEMMA Stepping ==
    ASSUME IInv, NEW t \in Threads, UNCHANGED <<roots, call>>, Served',
           NEW j, NEW r, NEW g, Change(t, j, r, g), Fits(t, j, r, g)
    PROVE  IInv'
<1>1. /\ Len(executors) \in Nat /\ Len(executors') \in Nat
      /\ Len(executors) <= Len(executors')
  BY LenProperties DEF IInv, Typed, Change
<1>2. 1 .. Len(executors) \subseteq 1 .. Len(executors')
  BY <1>1
<1>. DEFINE A == [at : Labels, session : 0 .. Len(roots), executor : {None} \cup 1 .. Len(executors)]
            B == [at : Labels, session : 0 .. Len(roots), executor : {None} \cup 1 .. Len(executors')]
<1>3. A \subseteq B /\ {None} \cup 1 .. Len(executors) \subseteq {None} \cup 1 .. Len(executors')
  BY <1>2
<1>4. /\ thread \in [Threads -> A] /\ root \in [Threads -> Roots \cup {None}]
      /\ gate \in [Threads -> {None} \cup 1 .. Len(executors)] /\ j \in B
  BY DEF IInv, Typed, Change
<1>. HIDE DEF A, B
<1>5. thread' \in [Threads -> B] /\ thread'[t] = j
  BY <1>3, <1>4 DEF Change
<1>6. root' \in [Threads -> Roots \cup {None}] /\ root'[t] = r
  BY <1>4 DEF Change
<1>7. gate' \in [Threads -> {None} \cup 1 .. Len(executors')] /\ gate'[t] = g
  BY <1>3, <1>4 DEF Change
<1>8. Typed'
  BY <1>5, <1>6, <1>7 DEF IInv, Typed, B, Jobs, States, Change
<1>9. Sound(t)'
  BY <1>5, <1>6, <1>7 DEF Sound, At, Session, Driven, Fits
<1>10. \A u \in Threads \ {t} :
         thread'[u] = thread[u] /\ root'[u] = root[u] /\ gate'[u] = gate[u]
  BY <1>4 DEF Change
<1>. QED BY <1>8, <1>9, <1>10, Acting DEF Change

-----------------------------------------------------------------------------
(* The invariant holds, action by action.                                    *)

\* What an action finds of the thread that takes it.
LEMMA Finding ==
    ASSUME IInv, NEW t \in Threads
    PROVE  /\ thread[t] \in [at : Labels, session : 0 .. Len(roots),
                             executor : {None} \cup 1 .. Len(executors)]
           /\ root[t] \in Roots \cup {None} /\ root = [root EXCEPT ![t] = root[t]]
           /\ gate[t] \in {None} \cup 1 .. Len(executors) /\ gate = [gate EXCEPT ![t] = gate[t]]
           /\ Sound(t)
           /\ executors \in Seq(Jobs) /\ Len(executors) \in Nat /\ Len(executors) <= MaxExecutors
           /\ serving \in Seq({None} \cup 1 .. Len(executors)) /\ Len(serving) = Len(roots)
           /\ Len(roots) \in Nat \ {0}
<1>1. /\ thread \in [Threads -> [at : Labels, session : 0 .. Len(roots),
                                 executor : {None} \cup 1 .. Len(executors)]]
      /\ root \in [Threads -> Roots \cup {None}]
      /\ gate \in [Threads -> {None} \cup 1 .. Len(executors)]
  BY DEF IInv, Typed
<1>2. Len(executors) \in Nat /\ Len(roots) \in Nat \ {0}
  BY LenProperties DEF IInv, Typed
<1>3. /\ thread[t] \in [at : Labels, session : 0 .. Len(roots),
                        executor : {None} \cup 1 .. Len(executors)]
      /\ root[t] \in Roots \cup {None} /\ root = [root EXCEPT ![t] = root[t]]
      /\ gate[t] \in {None} \cup 1 .. Len(executors) /\ gate = [gate EXCEPT ![t] = gate[t]]
  BY <1>1
<1>. QED BY <1>2, <1>3 DEF IInv, Typed, Jobs, States

LEMMA SpawnStep ==
    ASSUME IInv, Pool \cap 1 .. MaxRuns = {}, RunAutonomous
    PROVE  IInv'
<1>1. PICK t \in 1 .. MaxRuns :
        thread' = [thread EXCEPT ![t] = [at |-> "spawned", session |-> Current, executor |-> None]]
  BY DEF RunAutonomous
<1>. DEFINE j == [at |-> "spawned", session |-> Current, executor |-> None]
<1>2. t \in Threads /\ t \notin Pool
  BY DEF Threads
<1>3. UNCHANGED <<roots, serving, executors, root, gate, call>>
  BY DEF RunAutonomous
<1>4. /\ j \in [at : Labels, session : 0 .. Len(roots), executor : {None} \cup 1 .. Len(executors)]
      /\ j.at = "spawned" /\ j.session \in 1 .. Len(roots)
  BY <1>2, Finding DEF Labels, Current
<1>5. Served'
  BY <1>3 DEF IInv, Served
<1>6. thread' = [thread EXCEPT ![t] = j]
  BY <1>1
<1>. HIDE DEF j
<1>7. Change(t, j, root[t], gate[t])
  BY <1>2, <1>3, <1>4, <1>6, Finding DEF Change
<1>8. Fits(t, j, root[t], gate[t])
  BY <1>2, <1>4 DEF Fits, Driving
<1>. QED BY <1>2, <1>3, <1>5, <1>7, <1>8, Stepping

LEMMA EnterStep ==
    ASSUME IInv, NEW t \in Threads, SetWorkspaceRoot(t)
    PROVE  IInv'
<1>. DEFINE j == [thread[t] EXCEPT !.at = "entered"]
            r == roots[Session(t)]
<1>1. /\ thread' = [thread EXCEPT ![t] = j] /\ root' = [root EXCEPT ![t] = r]
      /\ At(t, "spawned") /\ UNCHANGED <<roots, serving, executors, gate, call>>
  BY DEF SetWorkspaceRoot, GoTo
<1>2. /\ j \in [at : Labels, session : 0 .. Len(roots), executor : {None} \cup 1 .. Len(executors)]
      /\ j.at = "entered" /\ j.session = Session(t)
  BY Finding DEF Labels, Session
<1>3. Session(t) \in 1 .. Len(roots) /\ t \notin Pool
  BY <1>1, Finding DEF Sound, At
<1>4. r \in Roots
  BY <1>3, ElementOfSeq DEF IInv, Typed
<1>5. Served'
  BY <1>1 DEF IInv, Served
<1>. HIDE DEF j
<1>6. Change(t, j, r, gate[t])
  BY <1>1, <1>2, <1>4, Finding DEF Change
<1>7. Fits(t, j, r, gate[t])
  BY <1>2, <1>3 DEF Fits, Driving
<1>. QED BY <1>1, <1>5, <1>6, <1>7, Stepping

LEMMA NewExecutorStep ==
    ASSUME IInv, NEW t \in Threads, Install(t) \/ ContextTooLong(t)
    PROVE  IInv'
<1>. DEFINE e == Len(executors) + 1
            j == [thread[t] EXCEPT !.at = "begin", !.executor = e]
            x == [session |-> Session(t), state |-> "running"]
<1>1. /\ e <= MaxExecutors
      /\ executors' = Append(executors, x)
      /\ serving' = [serving EXCEPT ![Session(t)] = e]
      /\ thread' = [thread EXCEPT ![t].at = "begin", ![t].executor = e]
      /\ UNCHANGED <<roots, root, gate, call>>
  BY DEF Install, ContextTooLong, NewExecutor
<1>2. /\ Session(t) \in 1 .. Len(roots) /\ t \notin Pool
      /\ root[t] = roots[Session(t)]
  BY Finding DEF Install, ContextTooLong, Sound, At
<1>3. x \in Jobs /\ x.session = Session(t)
  BY <1>2 DEF Jobs, States
<1>4. /\ executors \in Seq(Jobs) /\ Len(executors) \in Nat
      /\ serving \in Seq({None} \cup 1 .. Len(executors)) /\ Len(serving) = Len(roots)
  BY Finding
<1>. HIDE DEF x
<1>5. /\ executors' \in Seq(Jobs) /\ Len(executors') = e
      /\ \A k \in 1 .. Len(executors) : executors'[k] = executors[k]
      /\ executors'[e] = x
  BY <1>1, <1>3, <1>4, AppendProperties
<1>. DEFINE S == {None} \cup 1 .. e
<1>6. serving \in Seq(S) /\ e \in S
  BY <1>4
<1>. HIDE DEF S
<1>7. /\ serving' \in Seq(S) /\ Len(serving') = Len(roots)
      /\ \A n \in 1 .. Len(roots) : serving'[n] = IF n = Session(t) THEN e ELSE serving[n]
  BY <1>1, <1>2, <1>4, <1>6, ExceptSeq
<1>8. Served'
  <2>1. SUFFICES ASSUME NEW n \in 1 .. Len(roots), serving'[n] # None
                 PROVE  executors'[serving'[n]].session = n
    BY <1>1 DEF Served
  <2>2. CASE n = Session(t)
    BY <1>3, <1>5, <1>7, <2>2
  <2>3. CASE n # Session(t)
    <3>1. serving'[n] = serving[n] /\ serving[n] \in {None} \cup 1 .. Len(executors)
      BY <1>4, <1>7, <2>3, ElementOfSeq
    <3>. QED BY <1>5, <2>1, <3>1 DEF IInv, Served
  <2>. QED BY <2>2, <2>3
<1>9. thread' = [thread EXCEPT ![t] = j]
  BY <1>1
<1>10. /\ j \in [at : Labels, session : 0 .. Len(roots), executor : {None} \cup 1 .. e]
       /\ j.at = "begin" /\ j.session = Session(t) /\ j.executor = e
  <2>1. thread[t] \in [at : Labels, session : 0 .. Len(roots),
                       executor : {None} \cup 1 .. Len(executors)]
    BY Finding
  <2>2. e \in 1 .. e /\ 1 .. Len(executors) \subseteq 1 .. e
    BY <1>4
  <2>. HIDE DEF e
  <2>. QED BY <2>1, <2>2 DEF Labels, Session
<1>11. e \in 1 .. Len(executors') /\ Len(executors) <= Len(executors')
  BY <1>4, <1>5
<1>12. root' = [root EXCEPT ![t] = root[t]] /\ root[t] \in Roots \cup {None}
  BY <1>1, Finding
<1>13. gate' = [gate EXCEPT ![t] = gate[t]] /\ gate[t] \in {None} \cup 1 .. Len(executors')
  BY <1>1, <1>4, <1>5, Finding
<1>14. executors'[e].session = j.session
  BY <1>3, <1>5, <1>10
<1>. HIDE DEF j, e
<1>15. Change(t, j, root[t], gate[t])
  BY <1>1, <1>5, <1>7, <1>9, <1>10, <1>11, <1>12, <1>13 DEF Change, S
<1>16. Fits(t, j, root[t], gate[t])
  BY <1>2, <1>10, <1>11, <1>14 DEF Fits, Driving
<1>. QED BY <1>1, <1>8, <1>15, <1>16, Stepping

\* A step that changes neither the executors nor whom a session serves.
LEMMA MovingStep ==
    ASSUME IInv, NEW t \in Threads, UNCHANGED <<roots, serving, executors, root, call>>,
           NEW j \in [at : Labels, session : 0 .. Len(roots),
                      executor : {None} \cup 1 .. Len(executors)],
           thread' = [thread EXCEPT ![t] = j],
           NEW g \in {None} \cup 1 .. Len(executors), gate' = [gate EXCEPT ![t] = g],
           \/ j.at = "idle"
           \/ /\ j.at \in Driving
              /\ j.session \in 1 .. Len(roots) /\ j.executor \in 1 .. Len(executors)
              /\ executors[j.executor].session = j.session
              /\ t \in Pool => j.at # "begin"
              /\ t \notin Pool => j.at = "running" /\ root[t] = roots[j.session]
              /\ j.at = "running" => g = j.executor
    PROVE  IInv'
<1>1. Served'
  BY DEF IInv, Served
<1>2. t \in Pool => root[t] = None
  BY Finding DEF Sound
<1>3. root' = [root EXCEPT ![t] = root[t]] /\ root[t] \in Roots \cup {None}
  BY Finding
<1>4. /\ executors \in Seq(Jobs) /\ Len(executors) \in Nat /\ Len(executors) <= MaxExecutors
      /\ serving \in Seq({None} \cup 1 .. Len(executors)) /\ Len(serving) = Len(roots)
      /\ executors' = executors /\ serving' = serving
  BY Finding
<1>5. Change(t, j, root[t], g)
  <2>1. /\ executors' \in Seq(Jobs)
        /\ Len(executors) <= Len(executors') /\ Len(executors') <= MaxExecutors
        /\ \A e \in 1 .. Len(executors) : executors'[e].session = executors[e].session
    BY <1>4
  <2>2. serving' \in Seq({None} \cup 1 .. Len(executors')) /\ Len(serving') = Len(roots)
    BY <1>4
  <2>3. /\ j \in [at : Labels, session : 0 .. Len(roots),
                  executor : {None} \cup 1 .. Len(executors')]
        /\ g \in {None} \cup 1 .. Len(executors')
    BY <1>4
  <2>. QED BY <1>3, <2>1, <2>2, <2>3 DEF Change
<1>6. Fits(t, j, root[t], g)
  BY <1>2, <1>4 DEF Fits, Driving
<1>. QED BY <1>1, <1>5, <1>6, Stepping

\* The job ends or begins to call tools; an executor is decided about.
LEMMA GoingStep ==
    ASSUME IInv, NEW t \in Threads, Run(t) \/ Resume(t) \/ Raises(t) \/ Refused(t)
    PROVE  IInv'
<1>1. UNCHANGED <<roots, serving, executors, root, call>>
  BY DEF Run, Resume, Raises, Refused
<1>2. CASE Run(t) \/ Resume(t)
  <2>. DEFINE j == [thread[t] EXCEPT !.at = "running"]
  <2>1. /\ thread' = [thread EXCEPT ![t] = j] /\ gate' = [gate EXCEPT ![t] = Driven(t)]
        /\ thread[t].at \in {"begin", "applying"}
    BY <1>2 DEF Run, Resume, GoTo, At
  <2>2. /\ Session(t) \in 1 .. Len(roots) /\ Driven(t) \in 1 .. Len(executors)
        /\ executors[Driven(t)].session = Session(t)
        /\ t \notin Pool => root[t] = roots[Session(t)]
    BY <2>1, Finding DEF Sound, At, Driving
  <2>3. /\ j \in [at : Labels, session : 0 .. Len(roots), executor : {None} \cup 1 .. Len(executors)]
        /\ j.at = "running" /\ j.session = Session(t) /\ j.executor = Driven(t)
    BY Finding DEF Labels, Session, Driven
  <2>. HIDE DEF j
  <2>. QED BY <1>1, <2>1, <2>2, <2>3, MovingStep DEF Driving
<1>3. CASE Raises(t) \/ Refused(t)
  <2>1. thread' = [thread EXCEPT ![t] = Idle] /\ gate' = [gate EXCEPT ![t] = None]
    BY <1>3 DEF Raises, Refused, Leave
  <2>2. /\ Idle \in [at : Labels, session : 0 .. Len(roots), executor : {None} \cup 1 .. Len(executors)]
        /\ Idle.at = "idle"
    BY Finding DEF Idle, Labels
  <2>. QED BY <1>1, <2>1, <2>2, MovingStep
<1>. QED BY <1>2, <1>3

LEMMA DecideStep ==
    ASSUME IInv, NEW t \in Threads, NEW label \in {"approving", "rejecting"}, Decide(t, label)
    PROVE  IInv'
<1>. DEFINE e == serving[Current]
            j == [at |-> label, session |-> Current, executor |-> e]
<1>1. /\ t \in Pool /\ e # None /\ thread' = [thread EXCEPT ![t] = j]
      /\ UNCHANGED <<roots, serving, executors, root, gate, call>>
  BY DEF Decide, IsAwaiting
<1>2. Current \in 1 .. Len(roots) /\ Len(serving) = Len(roots)
  BY Finding DEF Current
<1>3. e \in 1 .. Len(executors) /\ executors[e].session = Current
  <2>1. e \in {None} \cup 1 .. Len(executors)
    BY <1>2, ElementOfSeq, Finding
  <2>. QED BY <1>1, <1>2, <2>1 DEF IInv, Served
<1>4. /\ j \in [at : Labels, session : 0 .. Len(roots), executor : {None} \cup 1 .. Len(executors)]
      /\ j.at = label /\ j.session = Current /\ j.executor = e
  BY <1>2, <1>3 DEF Labels
<1>5. gate' = [gate EXCEPT ![t] = gate[t]] /\ gate[t] \in {None} \cup 1 .. Len(executors)
  BY <1>1, Finding
<1>. HIDE DEF j, e
<1>. QED BY <1>1, <1>2, <1>3, <1>4, <1>5, MovingStep DEF Driving

LEMMA BecomingStep ==
    ASSUME IInv, NEW t \in Threads, Pause(t) \/ Finish(t) \/ Approve(t) \/ Reject(t)
    PROVE  IInv'
<1>1. PICK state \in States : Become(Driven(t), state)
  BY DEF Pause, Finish, Approve, Reject, States
<1>2. UNCHANGED <<roots, root, call>> /\ thread[t].at \in {"running", "approving", "rejecting"}
  BY DEF Pause, Finish, Approve, Reject, At
<1>3. /\ Session(t) \in 1 .. Len(roots) /\ Driven(t) \in 1 .. Len(executors)
      /\ executors[Driven(t)].session = Session(t)
      /\ t \in Pool => root[t] = None
  BY <1>2, Finding DEF Sound, At, Driving
<1>4. /\ executors' \in Seq(Jobs) /\ Len(executors') = Len(executors)
      /\ \A k \in 1 .. Len(executors) : executors'[k].session = executors[k].session
  BY <1>1, <1>3, Became DEF IInv
<1>5. /\ serving' \in Seq({None} \cup 1 .. Len(executors)) /\ Len(serving') = Len(roots)
      /\ \A m \in 1 .. Len(roots) : serving'[m] \in {None, serving[m]}
  <2>1. CASE serving' = serving
    BY <2>1, Finding
  <2>2. CASE serving' = [serving EXCEPT ![Session(t)] = None]
    BY <1>3, <2>2, LetGo DEF IInv
  <2>. QED BY <2>1, <2>2 DEF Pause, Finish, Approve, Reject
<1>6. Served'
  <2>1. SUFFICES ASSUME NEW n \in 1 .. Len(roots), serving'[n] # None
                 PROVE  executors'[serving'[n]].session = n
    BY <1>2 DEF Served
  <2>2. serving'[n] = serving[n] /\ serving[n] \in {None} \cup 1 .. Len(executors)
    BY <1>5, <2>1, Finding, ElementOfSeq
  <2>. QED BY <1>4, <2>1, <2>2 DEF IInv, Served
<1>7. ASSUME NEW j \in [at : Labels, session : 0 .. Len(roots),
                       executor : {None} \cup 1 .. Len(executors)],
             NEW g \in {None} \cup 1 .. Len(executors),
             thread' = [thread EXCEPT ![t] = j], gate' = [gate EXCEPT ![t] = g],
             Fits(t, j, root[t], g)
      PROVE  IInv'
  <2>1. Len(executors) \in Nat /\ Len(executors) <= MaxExecutors
        /\ root' = [root EXCEPT ![t] = root[t]] /\ root[t] \in Roots \cup {None}
    BY <1>2, Finding
  <2>2. /\ j \in [at : Labels, session : 0 .. Len(roots),
                  executor : {None} \cup 1 .. Len(executors')]
        /\ g \in {None} \cup 1 .. Len(executors')
        /\ serving' \in Seq({None} \cup 1 .. Len(executors'))
    BY <1>4, <1>5, <1>7
  <2>3. Change(t, j, root[t], g)
    BY <1>4, <1>5, <1>7, <2>1, <2>2 DEF Change
  <2>. QED BY <1>2, <1>6, <1>7, <2>3, Stepping
<1>8. CASE Leave(t)
  <2>1. /\ Idle \in [at : Labels, session : 0 .. Len(roots), executor : {None} \cup 1 .. Len(executors)]
        /\ Idle.at = "idle"
    BY Finding DEF Idle, Labels
  <2>2. Fits(t, Idle, root[t], None)
    BY <1>3, <2>1 DEF Fits, Driving
  <2>. QED BY <1>7, <1>8, <2>1, <2>2 DEF Leave
<1>9. CASE Approve(t)
  <2>. DEFINE j == [thread[t] EXCEPT !.at = "applying"]
  <2>1. thread' = [thread EXCEPT ![t] = j] /\ gate' = [gate EXCEPT ![t] = gate[t]]
        /\ At(t, "approving") /\ gate[t] \in {None} \cup 1 .. Len(executors)
    BY <1>9, Finding DEF Approve, GoTo
  <2>2. /\ j \in [at : Labels, session : 0 .. Len(roots), executor : {None} \cup 1 .. Len(executors)]
        /\ j.at = "applying" /\ j.session = Session(t) /\ j.executor = Driven(t)
    BY Finding DEF Labels, Session, Driven
  <2>3. t \in Pool
    BY <2>1, Finding DEF Sound, At
  <2>. HIDE DEF j
  <2>4. executors'[j.executor].session = j.session /\ j.executor \in 1 .. Len(executors')
    BY <1>3, <1>4, <2>2
  <2>5. Fits(t, j, root[t], gate[t])
    BY <1>3, <2>2, <2>3, <2>4 DEF Fits
  <2>. QED BY <1>7, <2>1, <2>2, <2>5
<1>. QED BY <1>8, <1>9 DEF Pause, Finish, Reject

LEMMA CallStep ==
    ASSUME IInv, None \notin Roots, NEW t \in Threads, CallTool(t)
    PROVE  IInv'
<1>1. /\ At(t, "running") /\ UNCHANGED <<roots, serving, executors, thread, root, gate>>
      /\ call' = [by |-> t, executor |-> Driven(t), root |-> GetWorkspaceRoot(t), gate |-> gate[t]]
  BY DEF CallTool
<1>2. /\ Driven(t) \in 1 .. Len(executors) /\ gate[t] = Driven(t)
      /\ executors[Driven(t)].session = Session(t) /\ Session(t) \in 1 .. Len(roots)
      /\ t \in Pool => root[t] = None
      /\ t \notin Pool => root[t] = roots[Session(t)]
  BY <1>1, Finding DEF Sound, At, Driving
<1>3. Home(Driven(t)) = roots[Session(t)] /\ roots[Session(t)] \in Roots
  BY <1>2, ElementOfSeq DEF Home, IInv, Typed
<1>4. GetWorkspaceRoot(t) = IF t \in Pool THEN Cwd ELSE Home(Driven(t))
  BY <1>2, <1>3 DEF GetWorkspaceRoot
<1>5. Called'
  BY <1>1, <1>2, <1>4 DEF Called, Home
<1>6. Typed' /\ Served'
  BY <1>1 DEF IInv, Typed, Served
<1>7. \A u \in Threads : Sound(u)'
  BY <1>1 DEF IInv, Sound, At, Session, Driven
<1>. QED BY <1>5, <1>6, <1>7 DEF IInv

\* A session is added, and those there were keep their number, workspace and executor.
LEMMA SessionStep ==
    ASSUME IInv, MaxSessions \in Nat, NEW w \in Roots, NewSession(w)
    PROVE  IInv'
<1>. DEFINE n == Len(roots)
<1>1. /\ n < MaxSessions
      /\ roots' = Append(roots, w) /\ serving' = Append(serving, None)
      /\ UNCHANGED <<executors, thread, root, gate, call>>
  BY DEF NewSession
<1>2. /\ roots \in Seq(Roots) /\ n \in Nat \ {0}
      /\ executors \in Seq(Jobs) /\ Len(executors) \in Nat
      /\ serving \in Seq({None} \cup 1 .. Len(executors)) /\ Len(serving) = n
  BY LenProperties DEF IInv, Typed, Jobs, States
<1>3. /\ roots' \in Seq(Roots) /\ Len(roots') = n + 1
      /\ \A k \in 1 .. n : roots'[k] = roots[k]
  BY <1>1, <1>2, AppendProperties
<1>4. /\ serving' \in Seq({None} \cup 1 .. Len(executors)) /\ Len(serving') = n + 1
      /\ \A k \in 1 .. n : serving'[k] = serving[k]
      /\ serving'[n + 1] = None
  BY <1>1, <1>2, AppendProperties
<1>5. n + 1 \in 1 .. MaxSessions /\ 1 .. n \subseteq 1 .. (n + 1) /\ 0 .. n \subseteq 0 .. (n + 1)
  BY <1>1, <1>2
<1>. HIDE DEF n
<1>6. Typed'
  <2>. DEFINE J == [session : 1 .. n + 1, state : {"running", "paused", "over"}]
              A == [at : Labels, session : 0 .. n, executor : {None} \cup 1 .. Len(executors)]
              B == [at : Labels, session : 0 .. n + 1, executor : {None} \cup 1 .. Len(executors)]
  <2>1. Jobs \subseteq J /\ A \subseteq B
    BY <1>5 DEF Jobs, States, n
  <2>2. thread \in [Threads -> A]
    BY DEF IInv, Typed, n
  <2>. HIDE DEF J, A, B
  <2>3. executors \in Seq(J) /\ thread \in [Threads -> B]
    BY <1>2, <2>1, <2>2
  <2>. QED BY <1>1, <1>3, <1>4, <1>5, <2>3 DEF IInv, Typed, J, B
<1>7. Served'
  <2>1. SUFFICES ASSUME NEW m \in 1 .. n + 1, serving'[m] # None
                 PROVE  executors[serving'[m]].session = m
    BY <1>1, <1>3 DEF Served
  <2>2. m \in 1 .. n
    BY <1>2, <1>4, <2>1
  <2>. QED BY <1>4, <2>1, <2>2 DEF IInv, Served, n
<1>8. ASSUME NEW e \in 1 .. Len(executors) PROVE Home(e)' = Home(e)
  <2>1. executors[e].session \in 1 .. n
    <3>1. executors[e] \in Jobs
      BY <1>2, ElementOfSeq
    <3>. QED BY <3>1 DEF Jobs, n
  <2>. QED BY <1>1, <1>3, <2>1 DEF Home
<1>9. ASSUME NEW t \in Threads PROVE Sound(t)'
  <2>1. Sound(t) /\ (~At(t, "idle") => roots'[Session(t)] = roots[Session(t)])
    BY <1>3 DEF IInv, Sound, n
  <2>. QED BY <1>1, <1>3, <1>5, <2>1 DEF Sound, At, Session, Driven, Driving, n
<1>10. Called'
  BY <1>1, <1>8 DEF IInv, Called
<1>. QED BY <1>6, <1>7, <1>9, <1>10 DEF IInv

LEMMA InitHolds ==
    ASSUME MaxSessions \in Nat \ {0}, MaxExecutors \in Nat, Init
    PROVE  IInv
<1>1. PICK w \in Roots : roots = <<w>>
  BY DEF Init
<1>2. roots \in Seq(Roots) /\ Len(roots) = 1
  BY <1>1
<1>3. /\ executors = <<>> /\ Len(executors) = 0 /\ serving = <<None>> /\ Len(serving) = 1
      /\ serving[1] = None
  BY DEF Init
<1>4. /\ executors \in Seq([session : 1 .. Len(roots), state : {"running", "paused", "over"}])
      /\ serving \in Seq({None} \cup 1 .. Len(executors))
  BY <1>3, EmptySeq
<1>5. /\ thread \in [Threads -> [at : Labels, session : 0 .. Len(roots),
                                 executor : {None} \cup 1 .. Len(executors)]]
      /\ root \in [Threads -> Roots \cup {None}]
      /\ gate \in [Threads -> {None} \cup 1 .. Len(executors)]
  BY <1>2 DEF Init, Idle, Labels
<1>6. Typed
  BY <1>2, <1>3, <1>4, <1>5 DEF Typed
<1>7. Served /\ Called
  BY <1>2, <1>3 DEF Init, Served, Called
<1>8. \A t \in Threads : Sound(t)
  BY DEF Init, Sound, At, Idle, Driving
<1>. QED BY <1>6, <1>7, <1>8 DEF IInv

-----------------------------------------------------------------------------
(* The results.  They need a root to be told from no root, threads of runs    *)
(* that are not threads of the pool, and room for one session.                *)

\* The invariant that carries the others: whose executor a session and a thread
\* hold, and whose root and gate a thread has.
THEOREM Inductive ==
    ASSUME None \notin Roots, Pool \cap 1 .. MaxRuns = {},
           MaxSessions \in Nat \ {0}, MaxExecutors \in Nat
    PROVE  Spec => []IInv
<1>1. ASSUME IInv, [Next]_vars PROVE IInv'
  <2>1. CASE UNCHANGED vars
    BY <1>1, <2>1 DEF vars, IInv, Typed, Served, Sound, Called, At, Session, Driven, Home
  <2>2. CASE RunAutonomous
    BY <1>1, <2>2, SpawnStep
  <2>3. CASE SetWorkspace
    BY <1>1, <2>3, SessionStep DEF SetWorkspace
  <2>4. CASE SetProvider
    <3>1. roots[Current] \in Roots
      BY <1>1, ElementOfSeq DEF IInv, Typed, Current
    <3>. QED BY <1>1, <2>4, <3>1, SessionStep DEF SetProvider
  <2>5. ASSUME NEW t \in Threads, Execution(t) PROVE IInv'
    BY <1>1, <2>5, EnterStep, NewExecutorStep, GoingStep, BecomingStep, CallStep DEF Execution
  <2>6. ASSUME NEW t \in Threads, Decision(t) PROVE IInv'
    BY <1>1, <2>6, GoingStep, BecomingStep, DecideStep DEF Decision
  <2>. QED BY <1>1, <2>1, <2>2, <2>3, <2>4, <2>5, <2>6 DEF Next
<1>. QED BY <1>1, InitHolds, PTL DEF Spec

\* A tool call stages in the gate of its own executor.  On the thread that started
\* the run it resolves paths in the workspace of its session, on a thread of the
\* pool in the directory of the process, and nowhere in the workspace of another
\* session (ToolContext's CallsAreBound).
THEOREM CallsBound ==
    ASSUME None \notin Roots, Pool \cap 1 .. MaxRuns = {},
           MaxSessions \in Nat \ {0}, MaxExecutors \in Nat
    PROVE  Spec => []CallsAreBound
<1>1. IInv => CallsAreBound
  BY DEF IInv, Called, CallsAreBound
<1>. QED BY <1>1, Inductive, PTL

\* Sessions, executors and threads name one another.
THEOREM TypeCorrect ==
    ASSUME None \notin Roots, Pool \cap 1 .. MaxRuns = {},
           MaxSessions \in Nat \ {0}, MaxExecutors \in Nat
    PROVE  Spec => []TypeOK
<1>1. ASSUME IInv PROVE TypeOK
  <2>1. /\ DOMAIN roots = 1 .. Len(roots) /\ DOMAIN serving = DOMAIN roots
        /\ DOMAIN executors = 1 .. Len(executors) /\ Len(roots) \in 1 .. MaxSessions
    BY <1>1, LenProperties DEF IInv, Typed
  <2>2. \A n \in DOMAIN roots : roots[n] \in Roots /\ serving[n] \in {None} \cup DOMAIN executors
    BY <1>1, <2>1, ElementOfSeq DEF IInv, Typed
  <2>3. \A e \in DOMAIN executors :
          executors[e].session \in DOMAIN roots /\
            executors[e].state \in {"running", "paused", "over"}
    <3>1. \A e \in DOMAIN executors : executors[e] \in Jobs
      BY <1>1, <2>1, ElementOfSeq DEF IInv, Typed, Jobs, States
    <3>. QED BY <2>1, <3>1 DEF Jobs, States
  <2>4. ASSUME NEW t \in Threads
        PROVE  /\ thread[t].at \in Labels
               /\ root[t] \in Roots \cup {None} /\ gate[t] \in Executors \cup {None}
    BY <1>1, LenProperties DEF IInv, Typed, Executors
  <2>. QED BY <2>1, <2>2, <2>3, <2>4 DEF TypeOK, Labels
<1>. QED BY <1>1, Inductive, PTL

-----------------------------------------------------------------------------
(* THE MCP SERVER                                                            *)

CONSTANTS Edits, MaxRequests, MaxRestarts
VARIABLES inbox, sent, pending, ui, shown, executor, staged, byCall, stale, disk, restarts, decided

Server == INSTANCE McpServer

(* The requests that start a run or decide about one.                      *)
Decisive == {"run", "approve", "reject"}
Lines == [id : Nat, method : Server!Methods, edit : SUBSET Edits]

(* A line is older than the next id; a promise is one of those ids.        *)
Posted ==
  /\ inbox \in Seq(Lines)
  /\ sent \in Nat /\ restarts \in Nat
  /\ pending \subseteq 1 .. sent
  /\ ui \in [st : {"idle", "running", "deciding", "sent"}, id : 0 .. sent]
  /\ \A i \in 1 .. Len(inbox) : inbox[i].id <= sent

(* What the server holds of a run, it holds for a decision to come.        *)
HeldForDecision ==
  /\ executor \in {"none", "awaiting", "ended"}
  /\ staged \subseteq Edits /\ byCall \subseteq staged
  /\ disk \subseteq Edits /\ stale \in BOOLEAN
  /\ staged # {} => executor = "awaiting"

(* The request the flow of the run waits for is the last decisive one: what *)
(* the flow sees next is what the server holds next.                       *)
LastAsked ==
  \A i, j \in 1 .. Len(inbox) :
    inbox[i].id = ui.id /\ ui.id # 0 /\ i < j => inbox[j].method \notin Decisive

(* A tool call on its way was asked for.                                   *)
CallsDecided ==
  \A i \in 1 .. Len(inbox) : inbox[i].method = "call" => inbox[i].edit \subseteq decided

(* While the user looks at a batch, no request on its way may replace it,  *)
(* and the batch has nothing in it but what is shown or was called for.    *)
ShownIsStaged ==
  ui.st = "deciding" =>
    /\ \A i \in 1 .. Len(inbox) : inbox[i].method \notin Decisive
    /\ staged \subseteq shown \union decided

(* An approval on its way meets the batch it was given for.                *)
ApprovalMeetsBatch ==
  \A j \in 1 .. Len(inbox) : inbox[j].method = "approve" =>
    /\ \A i \in 1 .. j - 1 : inbox[i].method \notin Decisive
    /\ staged \subseteq decided

ServerInv == /\ Posted /\ HeldForDecision /\ LastAsked /\ CallsDecided /\ ShownIsStaged
        /\ ApprovalMeetsBatch /\ Server!WrittenWasDecided

-----------------------------------------------------------------------------
(* The queue: a line written to it, a line taken from it.                   *)

LEMMA Written ==
  ASSUME NEW l \in Lines, inbox \in Seq(Lines), inbox' = Append(inbox, l)
  PROVE  /\ inbox' \in Seq(Lines)
         /\ Len(inbox) \in Nat
         /\ Len(inbox') = Len(inbox) + 1
         /\ \A i \in 1 .. Len(inbox) : inbox'[i] = inbox[i]
         /\ inbox'[Len(inbox) + 1] = l
  BY AppendProperties, LenProperties

LEMMA Taken ==
  ASSUME inbox \in Seq(Lines), inbox # <<>>, Server!Take
  PROVE  /\ inbox' \in Seq(Lines)
         /\ Len(inbox) \in Nat \ {0}
         /\ Len(inbox') = Len(inbox) - 1
         /\ \A i \in 1 .. Len(inbox') : inbox'[i] = inbox[i + 1]
         /\ Head(inbox) = inbox[1]
         /\ Head(inbox) \in Lines
  BY HeadTailProperties, LenProperties, EmptySeq, ElementOfSeq DEF Server!Take

(* What a request on its way may change: it is a new id, and a decisive one *)
(* is waited for by a flow that shows nothing meanwhile.                   *)
LEMMA Sending ==
  ASSUME ServerInv, NEW l \in Lines, inbox' = Append(inbox, l),
         sent' \in {sent, sent + 1}, l.id <= sent', pending' \subseteq 1 .. sent',
         UNCHANGED <<Server!server, shown>>, decided \subseteq decided',
         l.method = "call" => l.edit \subseteq decided',
         \/ l.method \notin Decisive /\ ui' = ui
         \/ /\ sent' = sent + 1
            /\ ui' \in [st : {"running", "sent"}, id : {sent + 1}]
            /\ l.method = "approve" => ui.st = "deciding" /\ decided' = decided \union shown
  PROVE  ServerInv'
<1> DEFINE n == Len(inbox)
<1>1. /\ inbox' \in Seq(Lines) /\ n \in Nat /\ Len(inbox') = n + 1
      /\ \A i \in 1 .. n : inbox'[i] = inbox[i]
      /\ inbox'[n + 1] = l
  BY Written DEF ServerInv, Posted
<1>2. \A i \in 1 .. n : inbox[i] \in Lines /\ inbox[i].id \in Nat /\ inbox[i].id <= sent
  <2>1. \A i \in 1 .. n : inbox[i] \in Lines
    BY <1>1, ElementOfSeq DEF ServerInv, Posted
  <2> QED
    BY <2>1 DEF ServerInv, Posted, Lines
<1>3. sent \in Nat /\ sent' \in Nat /\ sent <= sent'
  BY DEF ServerInv, Posted
<1> HIDE DEF n
<1>4. \A i \in 1 .. n + 1 : i \in 1 .. n \/ i = n + 1
  BY <1>1
<1>5. Posted'
  <2>1. \A i \in 1 .. Len(inbox') : inbox'[i].id <= sent'
    BY <1>1, <1>2, <1>3, <1>4
  <2>2. ui' \in [st : {"idle", "running", "deciding", "sent"}, id : 0 .. sent']
    BY <1>3 DEF ServerInv, Posted
  <2> QED
    BY <1>1, <1>3, <2>1, <2>2 DEF ServerInv, Posted, Server!server
<1>6. HeldForDecision'
  BY DEF ServerInv, HeldForDecision, Server!server
<1>7. LastAsked'
  <2> SUFFICES ASSUME NEW i \in 1 .. n + 1, NEW j \in 1 .. n + 1,
                      inbox'[i].id = ui'.id, ui'.id # 0, i < j
               PROVE  inbox'[j].method \notin Decisive
    BY <1>1 DEF LastAsked
  <2>1. i \in 1 .. n /\ inbox'[i] = inbox[i]
    BY <1>1
  <2>2. ui' = ui /\ l.method \notin Decisive
    BY <1>2, <1>3, <2>1
  <2>3. CASE j \in 1 .. n
    BY <1>1, <2>1, <2>2, <2>3 DEF ServerInv, LastAsked, n
  <2>4. CASE j = n + 1
    BY <1>1, <2>2, <2>4
  <2> QED
    BY <1>4, <2>3, <2>4
<1>8. CallsDecided'
  <2> SUFFICES ASSUME NEW i \in 1 .. n + 1, inbox'[i].method = "call"
               PROVE  inbox'[i].edit \subseteq decided'
    BY <1>1 DEF CallsDecided
  <2> QED
    BY <1>1, <1>4 DEF ServerInv, CallsDecided, n
<1>9. ShownIsStaged'
  <2> SUFFICES ASSUME ui'.st = "deciding"
               PROVE  /\ \A i \in 1 .. n + 1 : inbox'[i].method \notin Decisive
                      /\ staged' \subseteq shown' \union decided'
    BY <1>1 DEF ShownIsStaged
  <2>1. ui' = ui /\ l.method \notin Decisive
    OBVIOUS
  <2> QED
    BY <1>1, <1>4, <2>1 DEF ServerInv, ShownIsStaged, n, Server!server
<1>10. ApprovalMeetsBatch'
  <2> SUFFICES ASSUME NEW j \in 1 .. n + 1, inbox'[j].method = "approve"
               PROVE  /\ \A i \in 1 .. j - 1 : inbox'[i].method \notin Decisive
                      /\ staged' \subseteq decided'
    BY <1>1 DEF ApprovalMeetsBatch
  <2>1. \A i \in 1 .. j - 1 : i \in 1 .. n
    BY <1>1
  <2>2. CASE j \in 1 .. n
    BY <1>1, <2>1, <2>2 DEF ServerInv, ApprovalMeetsBatch, n, Server!server
  <2>3. CASE j = n + 1
    <3>1. ui.st = "deciding" /\ decided' = decided \union shown
      BY <1>1, <2>3 DEF Decisive
    <3>2. /\ \A i \in 1 .. n : inbox[i].method \notin Decisive
          /\ staged \subseteq shown \union decided
      BY <3>1 DEF ServerInv, ShownIsStaged, n
    <3> QED
      BY <1>1, <2>1, <3>1, <3>2 DEF Server!server
  <2> QED
    BY <1>4, <2>2, <2>3
<1> QED
  BY <1>5, <1>6, <1>7, <1>8, <1>9, <1>10 DEF ServerInv, Server!WrittenWasDecided, Server!server

(* What an answer may change on the screen: nothing, or it ends the flow,   *)
(* or it shows the batch it reports to the flow that waited for it.        *)
LEMMA Answering ==
  ASSUME NEW id, NEW report, NEW batch, Server!Respond(id, report, batch)
  PROVE  /\ pending' \subseteq pending
         /\ \/ ui' = ui /\ shown' = shown
            \/ ui' = Server!Idle
            \/ /\ report = "awaiting" /\ id \in pending /\ ui.id = id
               /\ ui' = [st |-> "deciding", id |-> 0]
               /\ shown' = batch
  BY DEF Server!Respond

(* What handling a line may change: it may add to the batch what was called *)
(* for, and only a decisive request may do more to it.                     *)
LEMMA Handled ==
  ASSUME ServerInv, inbox # <<>>, Server!Take, UNCHANGED <<sent, restarts, decided>>,
         pending' \subseteq pending, HeldForDecision', disk' \subseteq decided,
         staged' \subseteq staged \union decided \/ Head(inbox).method \in Decisive,
         \/ ui' = ui /\ shown' = shown
         \/ ui' = Server!Idle
         \/ /\ Server!Caller \in pending /\ ui.id = Server!Caller
            /\ ui' = [st |-> "deciding", id |-> 0]
            /\ staged' \subseteq shown'
  PROVE  ServerInv'
<1> DEFINE n == Len(inbox)
<1>1. /\ inbox' \in Seq(Lines) /\ n \in Nat \ {0} /\ Len(inbox') = n - 1
      /\ \A i \in 1 .. Len(inbox') : inbox'[i] = inbox[i + 1]
      /\ Head(inbox) = inbox[1] /\ Head(inbox) \in Lines
  BY Taken DEF ServerInv, Posted
<1> HIDE DEF n
<1>2. /\ \A i \in 1 .. n - 1 : i + 1 \in 1 .. n /\ inbox'[i] = inbox[i + 1]
      /\ 1 \in 1 .. n
  BY <1>1
<1>3. Posted'
  <2>1. ui' \in [st : {"idle", "running", "deciding", "sent"}, id : 0 .. sent]
    BY DEF ServerInv, Posted, Server!Idle
  <2>2. \A i \in 1 .. n - 1 : inbox'[i].id <= sent
    BY <1>2 DEF ServerInv, Posted, n
  <2> QED
    BY <1>1, <2>1, <2>2 DEF ServerInv, Posted
<1>4. LastAsked'
  <2> SUFFICES ASSUME NEW i \in 1 .. n - 1, NEW j \in 1 .. n - 1,
                      inbox'[i].id = ui'.id, ui'.id # 0, i < j
               PROVE  inbox'[j].method \notin Decisive
    BY <1>1 DEF LastAsked
  <2>1. ui' = ui
    BY DEF Server!Idle
  <2> QED
    BY <1>1, <1>2, <2>1 DEF ServerInv, LastAsked, n
<1>5. CallsDecided'
  BY <1>1, <1>2 DEF ServerInv, CallsDecided, n
<1>6. ShownIsStaged'
  <2> SUFFICES ASSUME ui'.st = "deciding"
               PROVE  /\ \A i \in 1 .. n - 1 : inbox'[i].method \notin Decisive
                      /\ staged' \subseteq shown' \union decided
    BY <1>1 DEF ShownIsStaged
  <2>1. CASE ui' = ui /\ shown' = shown
    <3>1. /\ \A i \in 1 .. n : inbox[i].method \notin Decisive
          /\ staged \subseteq shown \union decided
      BY <2>1 DEF ServerInv, ShownIsStaged, n
    <3> QED
      BY <1>1, <1>2, <2>1, <3>1
  <2>2. CASE Server!Caller \in pending /\ ui.id = Server!Caller /\ staged' \subseteq shown'
    <3>1. inbox[1].id = ui.id /\ ui.id # 0
      BY <1>1, <2>2 DEF ServerInv, Posted, Server!Caller
    <3>2. \A i \in 1 .. n - 1 : inbox[i + 1].method \notin Decisive
      <4> SUFFICES ASSUME NEW i \in 1 .. n - 1
                   PROVE  inbox[i + 1].method \notin Decisive
        OBVIOUS
      <4>1. i + 1 \in 1 .. n /\ 1 < i + 1
        BY <1>1
      <4> QED
        BY <1>2, <3>1, <4>1 DEF ServerInv, LastAsked, n
    <3> QED
      BY <1>2, <2>2, <3>2
  <2> QED
    BY <2>1, <2>2 DEF Server!Idle
<1>7. ApprovalMeetsBatch'
  <2> SUFFICES ASSUME NEW j \in 1 .. n - 1, inbox'[j].method = "approve"
               PROVE  /\ \A i \in 1 .. j - 1 : inbox'[i].method \notin Decisive
                      /\ staged' \subseteq decided
    BY <1>1 DEF ApprovalMeetsBatch
  <2>1. j + 1 \in 1 .. n /\ inbox[j + 1].method = "approve"
    BY <1>2
  <2>2. /\ \A i \in 1 .. (j + 1) - 1 : inbox[i].method \notin Decisive
        /\ staged \subseteq decided
    BY <2>1 DEF ServerInv, ApprovalMeetsBatch, n
  <2>3. \A i \in 1 .. j - 1 : i \in 1 .. n - 1 /\ i + 1 \in 1 .. (j + 1) - 1
    BY <1>1
  <2>4. 1 \in 1 .. (j + 1) - 1
    BY <1>1
  <2> QED
    BY <1>1, <1>2, <2>2, <2>3, <2>4
<1> QED
  BY <1>3, <1>4, <1>5, <1>6, <1>7 DEF ServerInv, Server!WrittenWasDecided

-----------------------------------------------------------------------------
(* The invariant holds, request by request.                                 *)

LEMMA ServerInit == Server!Init => ServerInv
<1> SUFFICES ASSUME Server!Init PROVE ServerInv
  OBVIOUS
<1>1. inbox \in Seq(Lines) /\ Len(inbox) = 0
  BY EmptySeq DEF Server!Init
<1>2. Posted
  <2>1. pending \subseteq 1 .. sent
    BY DEF Server!Init
  <2> QED
    BY <1>1, <2>1 DEF Server!Init, Server!Idle, Posted
<1>3. HeldForDecision /\ Server!WrittenWasDecided
  BY DEF Server!Init, HeldForDecision, Server!WrittenWasDecided
<1>4. LastAsked /\ CallsDecided /\ ShownIsStaged /\ ApprovalMeetsBatch
  BY <1>1
     DEF Server!Init, Server!Idle, LastAsked, CallsDecided, ShownIsStaged, ApprovalMeetsBatch
<1> QED
  BY <1>2, <1>3, <1>4 DEF ServerInv

(* A request that is refused changes nothing but what its caller sees.      *)
LEMMA Refusing ==
  ASSUME ServerInv, inbox # <<>>, Server!Take, Server!Refuse
  PROVE  ServerInv'
<1>1. UNCHANGED <<Server!server, sent, decided>> /\ pending' \subseteq pending
  BY Answering DEF Server!Refuse
<1>2. (ui' = ui /\ shown' = shown) \/ ui' = Server!Idle
  BY Answering, "error" # "awaiting" DEF Server!Refuse
<1>3. HeldForDecision' /\ staged' \subseteq staged \union decided /\ disk' \subseteq decided
  BY <1>1 DEF ServerInv, HeldForDecision, Server!WrittenWasDecided, Server!server
<1>4. UNCHANGED <<sent, restarts, decided>>
  BY <1>1 DEF Server!server
<1> QED
  BY <1>1, <1>2, <1>3, <1>4, Handled

(* A run, started or resumed, answers with all that it staged.              *)
LEMMA Running ==
  ASSUME ServerInv, Head(inbox).method \in Decisive, inbox # <<>>, Server!Take, Server!Runs,
         byCall' = {}, stale' = FALSE, UNCHANGED <<sent, restarts, decided>>,
         disk' \subseteq disk \union staged, disk' \subseteq decided
  PROVE  ServerInv'
<1>1. CASE \E batch \in SUBSET (Edits \ (disk \union decided)) \ {{}} :
             /\ executor' = "awaiting"
             /\ staged' = batch
             /\ Server!Respond(Server!Caller, "awaiting", batch)
  <2>1. PICK batch \in SUBSET (Edits \ (disk \union decided)) \ {{}} :
               /\ executor' = "awaiting"
               /\ staged' = batch
               /\ Server!Respond(Server!Caller, "awaiting", batch)
    BY <1>1
  <2>2. HeldForDecision'
    BY <2>1 DEF ServerInv, HeldForDecision
  <2>3. /\ pending' \subseteq pending
        /\ \/ ui' = ui /\ shown' = shown
           \/ ui' = Server!Idle
           \/ /\ Server!Caller \in pending /\ ui.id = Server!Caller
              /\ ui' = [st |-> "deciding", id |-> 0]
              /\ staged' \subseteq shown'
    BY <2>1, Answering
  <2> QED
    BY <2>2, <2>3, Handled
<1>2. CASE executor' = "ended" /\ staged' = {} /\ Server!Respond(Server!Caller, "done", {})
  <2>1. HeldForDecision'
    BY <1>2 DEF ServerInv, HeldForDecision
  <2>2. pending' \subseteq pending /\ ((ui' = ui /\ shown' = shown) \/ ui' = Server!Idle)
    BY <1>2, Answering, "done" # "awaiting"
  <2> QED
    BY <2>1, <2>2, Handled
<1> QED
  BY <1>1, <1>2 DEF Server!Runs

LEMMA RunStep == ServerInv /\ Server!RunAutonomous => ServerInv'
<1> SUFFICES ASSUME ServerInv, Server!RunAutonomous PROVE ServerInv'
  OBVIOUS
<1>1. inbox # <<>> /\ Server!Take /\ Head(inbox).method \in Decisive
  BY DEF Server!RunAutonomous, Server!Handling, Decisive
<1>2. CASE executor = "awaiting"
  BY <1>1, <1>2, Refusing DEF Server!RunAutonomous
<1>3. CASE executor # "awaiting"
  <2>1. Server!Runs /\ byCall' = {} /\ stale' = FALSE /\ UNCHANGED <<sent, disk, restarts, decided>>
    BY <1>3 DEF Server!RunAutonomous
  <2>2. disk' \subseteq decided
    BY <2>1 DEF ServerInv, Server!WrittenWasDecided
  <2> QED
    BY <1>1, <2>1, <2>2, Running
<1> QED
  BY <1>2, <1>3

LEMMA ApproveStep == ServerInv /\ (Server!ApprovePatches \/ Server!ApplyFails) => ServerInv'
<1> SUFFICES ASSUME ServerInv, Server!ApprovePatches \/ Server!ApplyFails PROVE ServerInv'
  OBVIOUS
<1>1. inbox # <<>> /\ Server!Take /\ Head(inbox).method = "approve"
  BY DEF Server!ApprovePatches, Server!ApplyFails, Server!Handling
<1>2. CASE Server!Refuse
  BY <1>1, <1>2, Refusing
<1>3. CASE /\ disk' = disk \union staged
           /\ Server!Runs
           /\ byCall' = {} /\ stale' = FALSE
           /\ UNCHANGED <<sent, restarts, decided>>
  <2>1. 1 \in 1 .. Len(inbox) /\ inbox[1] = Head(inbox)
    BY <1>1, Taken DEF ServerInv, Posted
  <2>2. staged \subseteq decided
    BY <1>1, <2>1 DEF ServerInv, ApprovalMeetsBatch
  <2>3. disk' \subseteq decided
    BY <1>3, <2>2 DEF ServerInv, Server!WrittenWasDecided
  <2>4. Head(inbox).method \in Decisive
    BY <1>1 DEF Decisive
  <2> QED
    BY <1>1, <1>3, <2>3, <2>4, Running
<1> QED
  BY <1>2, <1>3 DEF Server!ApprovePatches, Server!ApplyFails

LEMMA RejectStep == ServerInv /\ Server!RejectPatches => ServerInv'
<1> SUFFICES ASSUME ServerInv, Server!RejectPatches PROVE ServerInv'
  OBVIOUS
<1>1. inbox # <<>> /\ Server!Take
  BY DEF Server!RejectPatches, Server!Handling
<1>2. CASE executor # "awaiting"
  BY <1>1, <1>2, Refusing DEF Server!RejectPatches
<1>3. CASE executor = "awaiting"
  <2>1. /\ executor' = "ended" /\ staged' = {} /\ byCall' = {} /\ stale' = FALSE
        /\ Server!Respond(Server!Caller, "done", {})
        /\ UNCHANGED <<sent, disk, restarts, decided>>
    BY <1>3 DEF Server!RejectPatches
  <2>2. HeldForDecision' /\ disk' \subseteq decided
    BY <2>1 DEF ServerInv, HeldForDecision, Server!WrittenWasDecided
  <2>3. pending' \subseteq pending /\ ((ui' = ui /\ shown' = shown) \/ ui' = Server!Idle)
    BY <2>1, Answering, "done" # "awaiting"
  <2> QED
    BY <1>1, <2>1, <2>2, <2>3, Handled
<1> QED
  BY <1>2, <1>3

LEMMA ServerCallStep == ServerInv /\ (Server!ToolsCall \/ Server!ToolFails) => ServerInv'
<1> SUFFICES ASSUME ServerInv, Server!ToolsCall \/ Server!ToolFails PROVE ServerInv'
  OBVIOUS
<1>1. inbox # <<>> /\ Server!Take /\ Head(inbox).method = "call"
  BY DEF Server!ToolsCall, Server!ToolFails, Server!Handling
<1>2. CASE Server!ToolFails
  BY <1>1, <1>2, Refusing DEF Server!ToolFails
<1>3. CASE Server!ToolsCall
  <2> DEFINE e == Head(inbox).edit
  <2>1. 1 \in 1 .. Len(inbox) /\ inbox[1] = Head(inbox) /\ Head(inbox) \in Lines
    BY <1>1, Taken DEF ServerInv, Posted
  <2>2. e \subseteq decided /\ e \subseteq Edits
    BY <1>1, <2>1 DEF ServerInv, CallsDecided, Lines
  <2>3. IF executor = "awaiting"
        THEN staged' = staged \union e /\ byCall' = byCall \union e /\ disk' = disk
        ELSE disk' = disk \union e /\ UNCHANGED <<staged, byCall>>
    BY <1>3 DEF Server!ToolsCall
  <2>4. /\ UNCHANGED <<sent, executor, stale, restarts, decided>>
        /\ Server!Respond(Server!Caller, "done", {})
    BY <1>3 DEF Server!ToolsCall
  <2> HIDE DEF e
  <2>5. HeldForDecision'
    BY <2>2, <2>3, <2>4 DEF ServerInv, HeldForDecision
  <2>6. disk' \subseteq decided /\ staged' \subseteq staged \union decided
    BY <2>2, <2>3 DEF ServerInv, Server!WrittenWasDecided
  <2>7. pending' \subseteq pending /\ ((ui' = ui /\ shown' = shown) \/ ui' = Server!Idle)
    BY <2>4, Answering, "done" # "awaiting"
  <2> QED
    BY <1>1, <2>4, <2>5, <2>6, <2>7, Handled
<1> QED
  BY <1>2, <1>3

LEMMA OtherStep ==
  ServerInv /\ (\/ Server!CheckpointRestore \/ Server!Reads \/ Server!UnknownMethod
                \/ Server!Malformed \/ Server!Notified) => ServerInv'
<1> SUFFICES ASSUME ServerInv,
                    \/ Server!CheckpointRestore \/ Server!Reads \/ Server!UnknownMethod
                    \/ Server!Malformed \/ Server!Notified
             PROVE  ServerInv'
  OBVIOUS
<1>1. inbox # <<>> /\ Server!Take
  BY DEF Server!CheckpointRestore, Server!Reads, Server!UnknownMethod, Server!Malformed,
         Server!Notified, Server!Handling
<1>2. CASE Server!Reads \/ Server!UnknownMethod
  BY <1>1, <1>2, Refusing DEF Server!Reads, Server!UnknownMethod
<1>3. CASE Server!CheckpointRestore
  <2>1. /\ disk' \subseteq disk
        /\ stale' = (executor = "awaiting")
        /\ Server!Respond(Server!Caller, "done", {})
        /\ UNCHANGED <<sent, executor, staged, byCall, restarts, decided>>
    BY <1>3 DEF Server!CheckpointRestore
  <2>2. HeldForDecision' /\ disk' \subseteq decided
    BY <2>1 DEF ServerInv, HeldForDecision, Server!WrittenWasDecided
  <2>3. pending' \subseteq pending /\ ((ui' = ui /\ shown' = shown) \/ ui' = Server!Idle)
    BY <2>1, Answering, "done" # "awaiting"
  <2> QED
    BY <1>1, <2>1, <2>2, <2>3, Handled
<1>4. CASE Server!Malformed \/ Server!Notified
  <2>1. UNCHANGED <<sent, pending, ui, shown, Server!server, decided>>
    BY <1>4 DEF Server!Malformed, Server!Notified
  <2>2. HeldForDecision' /\ disk' \subseteq decided
    BY <2>1 DEF ServerInv, HeldForDecision, Server!WrittenWasDecided, Server!server
  <2> QED
    BY <1>1, <2>1, <2>2, Handled DEF Server!server
<1> QED
  BY <1>2, <1>3, <1>4

LEMMA AskStep == ServerInv /\ (Server!StartRun \/ Server!Decide \/ Server!Ask \/ Server!Notify) =>
                   ServerInv'
<1> SUFFICES ASSUME ServerInv, Server!StartRun \/ Server!Decide \/ Server!Ask \/ Server!Notify PROVE ServerInv'
  OBVIOUS
<1> USE DEF Server!Line, Lines, Server!Methods
<1>1. sent \in Nat /\ pending \subseteq 1 .. sent
  BY DEF ServerInv, Posted
<1>2. /\ pending \subseteq 1 .. sent + 1
      /\ pending \union {sent + 1} \subseteq 1 .. sent + 1
  BY <1>1
<1>3. CASE Server!StartRun
  <2> DEFINE l == Server!Line(sent + 1, "run", {})
  <2>1. /\ l \in Lines /\ l.id = sent + 1 /\ l.method = "run"
    BY <1>1
  <2>2. /\ inbox' = Append(inbox, l) /\ sent' = sent + 1
        /\ pending' = pending \union {sent + 1}
        /\ ui' = [st |-> "running", id |-> sent + 1]
        /\ UNCHANGED <<shown, Server!server, decided>>
    BY <1>3 DEF Server!StartRun, Server!Send
  <2> HIDE DEF l
  <2> QED
    BY <1>1, <1>2, <2>1, <2>2, Sending
<1>4. CASE Server!Decide
  <2>1. PICK method \in {"approve", "reject"} :
          /\ Server!Send(method, {})
          /\ decided' = IF method = "approve" THEN decided \union shown ELSE decided
    BY <1>4 DEF Server!Decide
  <2> DEFINE l == Server!Line(sent + 1, method, {})
  <2>2. /\ l \in Lines /\ l.id = sent + 1 /\ l.method = method
    BY <1>1
  <2>3. /\ inbox' = Append(inbox, l) /\ sent' = sent + 1
        /\ pending' = pending \union {sent + 1}
        /\ ui.st = "deciding"
        /\ ui' = [st |-> "sent", id |-> sent + 1]
        /\ UNCHANGED <<shown, Server!server>>
    BY <1>4, <2>1 DEF Server!Decide, Server!Send
  <2> HIDE DEF l
  <2>4. ui' \in [st : {"running", "sent"}, id : {sent + 1}]
    BY <2>3
  <2>5. l.method # "call" /\ decided \subseteq decided'
    BY <2>1, <2>2
  <2>6. l.method = "approve" => ui.st = "deciding" /\ decided' = decided \union shown
    BY <2>1, <2>2, <2>3
  <2>7. sent' \in {sent, sent + 1} /\ l.id <= sent' /\ pending' \subseteq 1 .. sent'
    BY <1>1, <1>2, <2>2, <2>3
  <2> QED
    BY <2>2, <2>3, <2>4, <2>5, <2>6, <2>7, Sending
<1>5. CASE Server!Ask
  <2>1. PICK method \in {"call", "restore", "read", "unknown", "malformed"},
             edit \in SUBSET Edits :
          Server!Send(method, edit) /\ decided \subseteq decided'
            /\ (method = "call" => edit \subseteq decided')
    <3>1. CASE \E e \in Edits : Server!Send("call", {e}) /\ decided' = decided \union {e}
      BY <3>1
    <3>2. CASE \E method \in {"restore", "read", "unknown", "malformed"} :
                 Server!Send(method, {}) /\ decided' = decided
      BY <3>2
    <3> QED
      BY <1>5, <3>1, <3>2 DEF Server!Ask
  <2> DEFINE l == Server!Line(sent + 1, method, edit)
  <2>2. /\ l \in Lines /\ l.id = sent + 1 /\ l.method = method /\ l.edit = edit
    BY <1>1
  <2>3. /\ inbox' = Append(inbox, l) /\ sent' = sent + 1
        /\ pending' = pending \union {sent + 1}
        /\ UNCHANGED <<ui, shown, Server!server>>
    BY <1>5, <2>1 DEF Server!Ask, Server!Send
  <2> HIDE DEF l
  <2>4. sent' \in {sent, sent + 1} /\ l.id <= sent' /\ pending' \subseteq 1 .. sent'
    BY <1>1, <1>2, <2>2, <2>3
  <2>5. l.method \notin Decisive
    BY <2>2 DEF Decisive
  <2> QED
    BY <2>1, <2>2, <2>3, <2>4, <2>5, Sending
<1>6. CASE Server!Notify
  <2>1. PICK method \in {"notification", "exit"} :
               inbox' = Append(inbox, Server!Line(0, method, {}))
    BY <1>6 DEF Server!Notify
  <2> DEFINE l == Server!Line(0, method, {})
  <2>2. /\ l \in Lines /\ l.id = 0 /\ l.method = method /\ l.method \notin Decisive
    BY DEF Decisive
  <2>3. UNCHANGED <<sent, pending, ui, shown, Server!server, decided>> /\ inbox' = Append(inbox, l)
    BY <1>6, <2>1 DEF Server!Notify
  <2> HIDE DEF l
  <2>4. sent' \in {sent, sent + 1} /\ l.id <= sent' /\ pending' \subseteq 1 .. sent'
    BY <1>1, <2>2, <2>3
  <2>5. l.method # "call" /\ decided \subseteq decided'
    BY <2>2, <2>3
  <2> QED
    BY <2>2, <2>3, <2>4, <2>5, Sending
<1> QED
  BY <1>3, <1>4, <1>5, <1>6

LEMMA LossStep == ServerInv /\ (Server!Timeout \/ Server!Restart \/ Server!UserEdits) => ServerInv'
<1> SUFFICES ASSUME ServerInv, Server!Timeout \/ Server!Restart \/ Server!UserEdits PROVE ServerInv'
  OBVIOUS
<1>1. CASE Server!Timeout
  <2>1. /\ pending' \subseteq pending
        /\ (ui' = ui /\ shown' = shown) \/ ui' = Server!Idle
        /\ UNCHANGED <<inbox, sent, Server!server, decided>>
    BY <1>1 DEF Server!Timeout
  <2>2. Posted'
    BY <2>1 DEF ServerInv, Posted, Server!Idle, Server!server
  <2>3. LastAsked' /\ ShownIsStaged'
    BY <2>1 DEF ServerInv, LastAsked, ShownIsStaged, Server!Idle, Server!server
  <2>4. (HeldForDecision /\ CallsDecided /\ ApprovalMeetsBatch /\ Server!WrittenWasDecided)'
    BY <2>1
       DEF ServerInv, HeldForDecision, CallsDecided, ApprovalMeetsBatch,
           Server!WrittenWasDecided, Server!server
  <2> QED
    BY <2>2, <2>3, <2>4 DEF ServerInv
<1>2. CASE Server!Restart
  <2>1. inbox' \in Seq(Lines) /\ Len(inbox') = 0
    BY <1>2, EmptySeq DEF Server!Restart
  <2>2. Posted'
    BY <1>2, <2>1 DEF Server!Restart, ServerInv, Posted, Server!Idle
  <2>3. HeldForDecision' /\ Server!WrittenWasDecided'
    BY <1>2 DEF Server!Restart, ServerInv, HeldForDecision, Server!WrittenWasDecided
  <2>4. (LastAsked /\ CallsDecided /\ ShownIsStaged /\ ApprovalMeetsBatch)'
    BY <1>2, <2>1 DEF Server!Restart, LastAsked, CallsDecided, ShownIsStaged, ApprovalMeetsBatch
  <2> QED
    BY <2>2, <2>3, <2>4 DEF ServerInv
<1>3. CASE Server!UserEdits
  <2>1. HeldForDecision'
    BY <1>3 DEF Server!UserEdits, ServerInv, HeldForDecision
  <2>2. (Posted /\ LastAsked /\ CallsDecided /\ ShownIsStaged /\ ApprovalMeetsBatch
           /\ Server!WrittenWasDecided)'
    BY <1>3 DEF Server!UserEdits, ServerInv, Posted, LastAsked, CallsDecided, ShownIsStaged,
                ApprovalMeetsBatch, Server!WrittenWasDecided
  <2> QED
    BY <2>1, <2>2 DEF ServerInv
<1> QED
  BY <1>1, <1>2, <1>3

-----------------------------------------------------------------------------
(* The results.                                                             *)

(* The invariant that carries the others: what the server holds, what is on *)
(* its way to it and what the user looks at belong together.               *)
THEOREM ServerInductive == Server!Spec => []ServerInv
<1>1. ServerInv /\ [Server!Next]_(Server!vars) => ServerInv'
  <2> SUFFICES ASSUME ServerInv, [Server!Next]_(Server!vars) PROVE ServerInv'
    OBVIOUS
  <2>1. CASE UNCHANGED Server!vars
    BY <2>1
       DEF Server!vars, ServerInv, Posted, HeldForDecision, LastAsked, CallsDecided,
           ShownIsStaged, ApprovalMeetsBatch, Server!WrittenWasDecided
  <2>2. CASE Server!Next
    BY <2>2, RunStep, ApproveStep, RejectStep, ServerCallStep, OtherStep, AskStep, LossStep
       DEF Server!Next, Server!Handle, Server!Client, Server!Exit, Server!Dies
  <2> QED
    BY <2>1, <2>2
<1> QED
  BY ServerInit, <1>1, PTL DEF Server!Spec

(* Nothing reaches the workspace that the user did not decide, whatever is   *)
(* late, refused, abandoned or restarted (McpServer's WrittenWasDecided):   *)
(* an approval reaches the batch that was on the screen when it was given.  *)
THEOREM EditsDecided == Server!Spec => []Server!WrittenWasDecided
<1>1. ServerInv => Server!WrittenWasDecided
  BY DEF ServerInv
<1> QED
  BY <1>1, ServerInductive, PTL

(* A run that awaits its approval is never replaced, so what it staged is   *)
(* written, rejected, or lost with the process, and nothing else.          *)
THEOREM BatchesReachable == Server!Spec => Server!NothingOrphaned
<1>1. ServerInv /\ [Server!Next]_(Server!vars) =>
        [\A e \in staged \ byCall :
           \/ e \in staged' \/ e \in disk'
           \/ Server!Handling("reject") \/ restarts' # restarts]_(Server!vars)
  <2> SUFFICES ASSUME ServerInv, Server!Next, NEW e \in staged \ byCall
               PROVE  \/ e \in staged' \/ e \in disk'
                      \/ Server!Handling("reject") \/ restarts' # restarts
    OBVIOUS
  <2>1. executor = "awaiting"
    BY DEF ServerInv, HeldForDecision
  <2>2. CASE UNCHANGED staged
    BY <2>2
  <2>3. CASE Server!ApprovePatches
    BY <2>3 DEF Server!ApprovePatches, Server!Refuse, Server!server
  <2>4. CASE Server!ToolsCall
    BY <2>1, <2>4 DEF Server!ToolsCall
  <2>5. CASE Server!RejectPatches
    BY <2>5 DEF Server!RejectPatches
  <2>6. CASE Server!Restart
    BY <2>6 DEF Server!Restart, ServerInv, Posted
  <2>7. CASE Server!RunAutonomous
    BY <2>1, <2>7 DEF Server!RunAutonomous, Server!Refuse, Server!server
  <2> QED
    BY <2>2, <2>3, <2>4, <2>5, <2>6, <2>7
       DEF Server!Next, Server!Handle, Server!Client, Server!Exit, Server!Dies,
           Server!ApplyFails, Server!ToolFails, Server!CheckpointRestore, Server!Reads,
           Server!UnknownMethod, Server!Malformed, Server!Notified, Server!StartRun,
           Server!Decide, Server!Ask, Server!Notify, Server!Timeout, Server!UserEdits,
           Server!Refuse, Server!server
<1> QED
  BY <1>1, ServerInductive, PTL DEF Server!Spec, Server!NothingOrphaned

(* Ids stay within the bound, promises are ids that were sent, and the      *)
(* batch of a run holds the edits that calls put into it.                  *)
THEOREM ServerTypes ==
  ASSUME MaxRequests \in Nat
  PROVE  Server!Spec => []Server!TypeOK
<1> DEFINE Bounded == sent <= MaxRequests
<1>1. Server!Init => Bounded
  BY DEF Server!Init
<1>2. ServerInv /\ Bounded /\ [Server!Next]_(Server!vars) => Bounded'
  <2> SUFFICES ASSUME ServerInv, Bounded, Server!Next PROVE sent' <= MaxRequests
    BY DEF Server!vars
  <2>1. sent \in Nat
    BY DEF ServerInv, Posted
  <2>2. sent' = sent \/ (sent < MaxRequests /\ sent' = sent + 1)
    BY DEF Server!Next, Server!Handle, Server!Client, Server!Exit, Server!Dies, Server!Restart,
           Server!RunAutonomous, Server!ApprovePatches, Server!ApplyFails, Server!RejectPatches,
           Server!ToolsCall, Server!ToolFails, Server!CheckpointRestore, Server!Reads,
           Server!UnknownMethod, Server!Malformed, Server!Notified, Server!StartRun,
           Server!Decide, Server!Ask, Server!Notify, Server!Timeout, Server!UserEdits,
           Server!Refuse, Server!Send, Server!server
  <2> QED
    BY <2>1, <2>2
<1>3. ServerInv /\ Bounded => Server!TypeOK
  <2> SUFFICES ASSUME ServerInv, Bounded PROVE Server!TypeOK
    OBVIOUS
  <2>1. \A i \in 1 .. Len(inbox) : inbox[i] \in Lines
    BY ElementOfSeq DEF ServerInv, Posted
  <2>2. \A i \in 1 .. Len(inbox) :
          inbox[i].id \in 0 .. MaxRequests /\ inbox[i].method \in Server!Methods
    BY <2>1 DEF ServerInv, Posted, Lines
  <2> QED
    BY <2>2 DEF ServerInv, Posted, HeldForDecision, Server!TypeOK
<1> QED
  BY <1>1, <1>2, <1>3, ServerInductive, PTL DEF Server!Spec

-----------------------------------------------------------------------------
(* What is counted in the order of a sequence: what is added at the end comes *)
(* after all there was.                                                      *)

LEMMA CountedAfter ==
  ASSUME NEW n \in Nat, NEW P \in SUBSET (1 .. n), NEW Q \in SUBSET (1 .. n + 1),
         \A j \in 1 .. n : j \in Q <=> j \in P
  PROVE  /\ \A i \in P : {j \in Q : j <= i} = {j \in P : j <= i}
         /\ {j \in Q : j <= n + 1} = Q
         /\ n + 1 \in Q => Q = P \cup {n + 1}
         /\ n + 1 \notin Q => Q = P
<1>1. \A j \in Q : j \in 1 .. n \/ j = n + 1
  OBVIOUS
<1>2. ASSUME NEW i \in P PROVE {j \in Q : j <= i} = {j \in P : j <= i}
  <2>1. i \in 1 .. n
    OBVIOUS
  <2>2. ASSUME NEW j \in Q, j <= i PROVE j \in P
    <3>1. j # n + 1 /\ n + 1 > i
      BY <2>1, <2>2
    <3>. QED BY <1>1, <2>2, <3>1
  <2>3. ASSUME NEW j \in P PROVE j \in Q
    OBVIOUS
  <2>. QED BY <2>2, <2>3
<1>3. {j \in Q : j <= n + 1} = Q
  <2>1. \A j \in Q : j <= n + 1
    OBVIOUS
  <2>. QED BY <2>1
<1>4. ASSUME n + 1 \in Q PROVE Q = P \cup {n + 1}
  <2>1. ASSUME NEW j PROVE j \in Q <=> j \in P \cup {n + 1}
    BY <1>1, <1>4
  <2>. QED BY <2>1
<1>5. ASSUME n + 1 \notin Q PROVE Q = P
  <2>1. ASSUME NEW j PROVE j \in Q <=> j \in P
    BY <1>1, <1>5
  <2>. QED BY <2>1
<1>. QED BY <1>2, <1>3, <1>4, <1>5

-----------------------------------------------------------------------------
(* THE STAGED COMMANDS                                                       *)

CONSTANTS Allowed, MaxCommands
VARIABLES active, phase, staging, steps, results, asked, repo, mixed

Staged == INSTANCE StagedCommands WITH pending <- staging

LEMMA StagedCounts == \A S : Staged!Cardinality(S) = Cardinality(S)
BY DEF Staged!Cardinality, Cardinality


CommandKinds == Staged!GitCommands \cup {"shell", "python"}
BatchEntries == [id : Nat, does : CommandKinds]
StepEntries == [label : {"shell", "git", "done"}, command : Nat, shows : Nat]

\* The outputs so far are those of the first commands of the batch.
StagedTyped ==
    /\ phase \in {"none", "run", "paused", "running"}
    /\ asked \in 0 .. MaxCommands
    /\ staging \in Seq(BatchEntries)
    /\ \A k \in 1 .. Len(staging) : staging[k].id \in 1 .. asked
    /\ steps \in Seq(StepEntries)
    /\ \A i \in 1 .. Len(steps) : steps[i].command \in 0 .. asked /\ steps[i].shows \in 0 .. asked
    /\ results \in Seq(Nat) /\ Len(results) <= Len(staging)
    /\ \A k \in 1 .. Len(results) : results[k] = staging[k].id
    /\ phase # "running" => results = <<>>
    /\ phase \in {"run", "paused"} => active

\* The batch holds the commands of the placeholders, in their order.
Matched ==
    ~mixed =>
        /\ phase = "none" => staging = <<>>
        /\ phase # "none" =>
             /\ Staged!Cardinality(Staged!Placeholders) = Len(staging)
             /\ \A i \in Staged!Placeholders :
                  Staged!Place(i) \in 1 .. Len(staging) /\
                    staging[Staged!Place(i)].id = steps[i].command
             /\ \A i \in 1 .. Len(steps) :
                  steps[i].label = "shell" /\ steps[i].shows # 0 =>
                    steps[i].shows = steps[i].command

StagedInv == StagedTyped /\ Matched

-----------------------------------------------------------------------------
\* A step is added at the end: those before keep their place, and a placeholder
\* comes after all of them.
LEMMA StepAdded ==
  ASSUME steps \in Seq(StepEntries), NEW x \in StepEntries, steps' = Append(steps, x)
  PROVE  /\ Len(steps) \in Nat /\ steps' \in Seq(StepEntries) /\ Len(steps') = Len(steps) + 1
         /\ \A i \in 1 .. Len(steps) : steps'[i] = steps[i]
         /\ steps'[Len(steps) + 1] = x
BY AppendProperties, LenProperties

LEMMA PlacesAreFinite ==
  ASSUME steps \in Seq(StepEntries)
  PROVE  /\ IsFiniteSet(Staged!Placeholders) /\ Staged!Cardinality(Staged!Placeholders) \in Nat
         /\ Staged!Placeholders \subseteq 1 .. Len(steps) /\ Len(steps) \in Nat
         /\ DOMAIN steps = 1 .. Len(steps)
<1>1. Len(steps) \in Nat /\ DOMAIN steps = 1 .. Len(steps)
  BY LenProperties
<1>2. IsFiniteSet(1 .. Len(steps)) /\ Staged!Placeholders \subseteq 1 .. Len(steps)
  BY <1>1, StagedCounts, FS_Interval DEF Staged!Placeholders
<1>. QED BY <1>1, <1>2, StagedCounts, FS_Subset, FS_CardinalityType

LEMMA PlacesAfter ==
  ASSUME steps \in Seq(StepEntries), NEW x \in StepEntries, steps' = Append(steps, x),
         NEW n, n = Len(steps)
  PROVE  /\ \A i \in Staged!Placeholders : i \in Staged!Placeholders' /\
              Staged!Place(i)' = Staged!Place(i)
         /\ x.label = "shell" /\ x.shows = 0 =>
              /\ Staged!Placeholders' = Staged!Placeholders \cup {n + 1}
              /\ Staged!Cardinality(Staged!Placeholders') = Staged!Cardinality(Staged!Placeholders) + 1
              /\ Staged!Place(n + 1)' = Staged!Cardinality(Staged!Placeholders) + 1
         /\ ~(x.label = "shell" /\ x.shows = 0) => Staged!Placeholders' = Staged!Placeholders
<1>1. /\ n \in Nat /\ DOMAIN steps = 1 .. n /\ DOMAIN steps' = 1 .. n + 1
      /\ \A i \in 1 .. n : steps'[i] = steps[i]
      /\ steps'[n + 1] = x
  BY StepAdded, LenProperties
<1>2. /\ Staged!Placeholders \in SUBSET (1 .. n)
      /\ IsFiniteSet(Staged!Placeholders) /\ Staged!Cardinality(Staged!Placeholders) \in Nat
  BY PlacesAreFinite
<1>3. /\ Staged!Placeholders' \in SUBSET (1 .. n + 1)
      /\ \A j \in 1 .. n : j \in Staged!Placeholders' <=> j \in Staged!Placeholders
      /\ n + 1 \in Staged!Placeholders' <=> x.label = "shell" /\ x.shows = 0
  BY <1>1 DEF Staged!Placeholders
<1>4. /\ \A i \in Staged!Placeholders :
           {j \in Staged!Placeholders' : j <= i} = {j \in Staged!Placeholders : j <= i}
      /\ {j \in Staged!Placeholders' : j <= n + 1} = Staged!Placeholders'
      /\ n + 1 \in Staged!Placeholders' => Staged!Placeholders' = Staged!Placeholders \cup {n + 1}
      /\ n + 1 \notin Staged!Placeholders' => Staged!Placeholders' = Staged!Placeholders
  BY <1>1, <1>2, <1>3, CountedAfter
<1>5. ASSUME NEW i \in Staged!Placeholders
      PROVE  i \in Staged!Placeholders' /\ Staged!Place(i)' = Staged!Place(i)
  <2>1. i \in 1 .. n /\ i \in Staged!Placeholders'
    BY <1>2, <1>3
  <2>. QED BY <1>4, <2>1 DEF Staged!Place
<1>6. ASSUME x.label = "shell", x.shows = 0
      PROVE  /\ Staged!Cardinality(Staged!Placeholders') = Staged!Cardinality(Staged!Placeholders) + 1
             /\ Staged!Place(n + 1)' = Staged!Cardinality(Staged!Placeholders) + 1
  <2>1. Staged!Placeholders' = Staged!Placeholders \cup {n + 1} /\ n + 1 \notin Staged!Placeholders
    BY <1>1, <1>2, <1>3, <1>4, <1>6
  <2>2. Staged!Cardinality(Staged!Placeholders') = Staged!Cardinality(Staged!Placeholders) + 1
    BY <1>2, <2>1, StagedCounts, FS_AddElement
  <2>. QED BY <1>4, <2>2 DEF Staged!Place
<1>. QED BY <1>3, <1>4, <1>5, <1>6

-----------------------------------------------------------------------------
(* The steps.                                                                *)

LEMMA StagedInit == ASSUME MaxCommands \in Nat PROVE Staged!Init => StagedInv
<1>. SUFFICES ASSUME Staged!Init PROVE StagedInv
  OBVIOUS
<1>. QED BY EmptySeq DEF Staged!Init, StagedInv, StagedTyped, Matched

\* Of the batch and the steps nothing changes but what a request adds to them.
LEMMA ProposeStep ==
  ASSUME MaxCommands \in Nat, StagedInv, NEW does \in CommandKinds, NEW label \in {"shell", "git"},
         Staged!StageOrRun(does, label), active
  PROVE  StagedInv'
<1>. DEFINE c == Staged!Request(does)
            x == Staged!Step(label, asked + 1)
            k == Len(staging)
<1>1. /\ Staged!Called /\ asked < MaxCommands /\ asked' = asked + 1
      /\ staging' = Append(staging, c) /\ Staged!Leaves(x)
      /\ mixed' = (mixed \/ label = "git" \/ ~Staged!InRun)
      /\ UNCHANGED <<active, phase, results>>
  BY DEF Staged!StageOrRun, Staged!Propose
<1>2. asked \in Nat /\ c \in BatchEntries /\ c.id = asked + 1 /\ x \in StepEntries
      /\ x.label = label /\ x.shows = 0 /\ x.command = asked + 1
  BY DEF StagedInv, StagedTyped, Staged!Request, Staged!Step, BatchEntries, StepEntries
<1>3. /\ staging' \in Seq(BatchEntries) /\ k \in Nat /\ Len(staging') = k + 1
      /\ \A j \in 1 .. k : staging'[j] = staging[j]
      /\ staging'[k + 1] = c
  BY <1>1, <1>2, AppendProperties, LenProperties DEF StagedInv, StagedTyped
<1>4. results = <<>> /\ phase # "running"
  BY <1>1 DEF Staged!Called, Staged!InRun, StagedInv, StagedTyped
<1>5. steps' = Append(steps, x) \/ steps' = steps
  BY <1>1 DEF Staged!Leaves
<1>. HIDE DEF c, x
<1>6. StagedTyped'
  <2>1. /\ steps' \in Seq(StepEntries)
        /\ \A i \in 1 .. Len(steps') : steps'[i].command \in 0 .. asked' /\
             steps'[i].shows \in 0 .. asked'
    <3>1. CASE steps' = steps
      <4>1. /\ steps \in Seq(StepEntries)
            /\ \A i \in 1 .. Len(steps) : steps[i].command \in 0 .. asked /\
                 steps[i].shows \in 0 .. asked
        BY DEF StagedInv, StagedTyped
      <4>2. asked' = asked + 1 /\ 0 .. asked \subseteq 0 .. asked'
        BY <1>1, <1>2
      <4>. QED BY <3>1, <4>1, <4>2
    <3>2. CASE steps' = Append(steps, x)
      <4>1. /\ steps \in Seq(StepEntries)
            /\ \A i \in 1 .. Len(steps) : steps[i].command \in 0 .. asked /\
                 steps[i].shows \in 0 .. asked
        BY DEF StagedInv, StagedTyped
      <4>2. /\ Len(steps) \in Nat /\ steps' \in Seq(StepEntries) /\ Len(steps') = Len(steps) + 1
            /\ \A i \in 1 .. Len(steps) : steps'[i] = steps[i]
            /\ steps'[Len(steps) + 1] = x
        BY <1>2, <3>2, <4>1, StepAdded
      <4>. QED BY <1>1, <1>2, <4>1, <4>2
    <3>. QED BY <1>5, <3>1, <3>2
  <2>2. \A j \in 1 .. Len(staging') : staging'[j].id \in 1 .. asked'
    BY <1>1, <1>2, <1>3 DEF StagedInv, StagedTyped
  <2>3. /\ results' \in Seq(Nat) /\ Len(results') <= Len(staging')
        /\ \A j \in 1 .. Len(results') : results'[j] = staging'[j].id
    BY <1>1, <1>3, <1>4 DEF StagedInv, StagedTyped
  <2>4. asked' \in 0 .. MaxCommands /\ phase' \in {"none", "run", "paused", "running"}
    BY <1>1 DEF StagedInv, StagedTyped
  <2>5. (phase' # "running" => results' = <<>>) /\ (phase' \in {"run", "paused"} => active')
    BY <1>1, <1>4
  <2>. QED BY <1>3, <2>1, <2>2, <2>3, <2>4, <2>5 DEF StagedTyped
<1>7. Matched'
  <2>. SUFFICES ASSUME ~mixed' PROVE Matched'
    BY DEF Matched
  <2>1. ~mixed /\ label = "shell" /\ Staged!InRun /\ phase = "run" /\ phase' = "run" /\
          steps' = Append(steps, x)
    BY <1>1 DEF Staged!InRun, Staged!Leaves
  <2>2. PICK m : m = Len(steps)
    OBVIOUS
  <2>3. /\ m \in Nat /\ Len(steps') = m + 1
        /\ \A i \in 1 .. m : steps'[i] = steps[i]
        /\ steps'[m + 1] = x
        /\ Staged!Placeholders \subseteq 1 .. m
    BY <1>2, <2>1, <2>2, StepAdded, PlacesAreFinite DEF StagedInv, StagedTyped
  <2>4. /\ \A i \in Staged!Placeholders : i \in Staged!Placeholders' /\
             Staged!Place(i)' = Staged!Place(i)
        /\ Staged!Placeholders' = Staged!Placeholders \cup {m + 1}
        /\ Staged!Cardinality(Staged!Placeholders') = Staged!Cardinality(Staged!Placeholders) + 1
        /\ Staged!Place(m + 1)' = Staged!Cardinality(Staged!Placeholders) + 1
    BY <1>2, <2>1, <2>2, PlacesAfter DEF StagedInv, StagedTyped
  <2>5. Staged!Cardinality(Staged!Placeholders) = k /\
          Staged!Cardinality(Staged!Placeholders)' = Len(staging)'
    BY <1>3, <2>1, <2>4 DEF StagedInv, Matched
  <2>6. \A i \in Staged!Placeholders' :
          Staged!Place(i)' \in 1 .. Len(staging') /\
            staging'[Staged!Place(i)'].id = steps'[i].command
    <3>. SUFFICES ASSUME NEW i \in Staged!Placeholders'
                  PROVE  Staged!Place(i)' \in 1 .. Len(staging') /\
                           staging'[Staged!Place(i)'].id = steps'[i].command
      OBVIOUS
    <3>1. CASE i \in Staged!Placeholders
      <4>1. Staged!Place(i) \in 1 .. k /\ staging[Staged!Place(i)].id = steps[i].command
        BY <2>1, <3>1 DEF StagedInv, Matched
      <4>. QED BY <1>3, <2>3, <2>4, <3>1, <4>1
    <3>2. CASE i = m + 1
      BY <1>2, <1>3, <2>3, <2>4, <2>5, <3>2
    <3>. QED BY <2>4, <3>1, <3>2
  <2>7. \A i \in 1 .. Len(steps') :
          steps'[i].label = "shell" /\ steps'[i].shows # 0 => steps'[i].shows = steps'[i].command
    BY <1>2, <2>1, <2>2, <2>3 DEF StagedInv, Matched
  <2>. QED BY <2>1, <2>5, <2>6, <2>7 DEF Matched
<1>. QED BY <1>6, <1>7 DEF StagedInv

\* A tool that answers leaves a step that is done.
LEMMA AnswerStep ==
  ASSUME MaxCommands \in Nat, StagedInv, Staged!Called, asked < MaxCommands, asked' = asked + 1,
         Staged!Leaves(Staged!Output(asked + 1)), UNCHANGED <<active, phase, staging, results, mixed>>
  PROVE  StagedInv'
<1>. DEFINE x == Staged!Output(asked + 1)
<1>1. asked \in Nat /\ x \in StepEntries /\ x.label = "done" /\ x.shows = asked + 1 /\
        x.command = asked + 1
  BY DEF StagedInv, StagedTyped, Staged!Output, StepEntries
<1>2. (steps' = Append(steps, x) /\ phase = "run") \/ steps' = steps
  BY DEF Staged!Leaves, Staged!InRun
<1>. HIDE DEF x
<1>3. PICK n : n = Len(steps)
  OBVIOUS
<1>4. CASE steps' = Append(steps, x)
  <2>1. /\ n \in Nat /\ steps' \in Seq(StepEntries) /\ Len(steps') = n + 1
        /\ \A i \in 1 .. n : steps'[i] = steps[i]
        /\ steps'[n + 1] = x
        /\ Staged!Placeholders \subseteq 1 .. n
    BY <1>1, <1>3, <1>4, StepAdded, PlacesAreFinite DEF StagedInv, StagedTyped
  <2>2. Staged!Placeholders' = Staged!Placeholders /\ \A i \in Staged!Placeholders :
          Staged!Place(i)' = Staged!Place(i)
    BY <1>1, <1>3, <1>4, PlacesAfter DEF StagedInv, StagedTyped
  <2>3. \A i \in 1 .. Len(steps') : steps'[i].command \in 0 .. asked' /\
          steps'[i].shows \in 0 .. asked'
    <3>1. \A i \in 1 .. n : steps[i].command \in 0 .. asked /\ steps[i].shows \in 0 .. asked
      BY <1>3 DEF StagedInv, StagedTyped
    <3>. QED BY <1>1, <2>1, <3>1
  <2>4. StagedTyped'
    BY <1>1, <2>1, <2>3 DEF StagedInv, StagedTyped
  <2>5. Matched'
    <3>. SUFFICES ASSUME ~mixed', phase' # "none" PROVE Matched'
      BY DEF StagedInv, Matched
    <3>1. /\ Staged!Cardinality(Staged!Placeholders) = Len(staging)
          /\ \A i \in Staged!Placeholders :
               Staged!Place(i) \in 1 .. Len(staging) /\
                 staging[Staged!Place(i)].id = steps[i].command
          /\ \A i \in 1 .. Len(steps) :
               steps[i].label = "shell" /\ steps[i].shows # 0 => steps[i].shows = steps[i].command
      BY DEF StagedInv, Matched
    <3>2. \A i \in Staged!Placeholders' :
            Staged!Place(i)' \in 1 .. Len(staging') /\
              staging'[Staged!Place(i)'].id = steps'[i].command
      BY <2>1, <2>2, <3>1
    <3>3. \A i \in 1 .. Len(steps') :
            steps'[i].label = "shell" /\ steps'[i].shows # 0 => steps'[i].shows = steps'[i].command
      BY <1>1, <1>3, <2>1, <3>1
    <3>. QED BY <2>2, <3>1, <3>2, <3>3 DEF Matched
  <2>. QED BY <2>4, <2>5 DEF StagedInv
<1>5. CASE steps' = steps
  <2>1. Staged!Placeholders' = Staged!Placeholders /\ \A i \in Staged!Placeholders :
          Staged!Place(i)' = Staged!Place(i)
    BY <1>5 DEF Staged!Placeholders, Staged!Place
  <2>2. StagedTyped'
    BY <1>1, <1>5 DEF StagedInv, StagedTyped
  <2>3. Matched'
    BY <1>5, <2>1 DEF StagedInv, Matched
  <2>. QED BY <2>2, <2>3 DEF StagedInv
<1>. QED BY <1>2, <1>4, <1>5

LEMMA ToolStep == ASSUME MaxCommands \in Nat, StagedInv, Staged!Tools PROVE StagedInv'
<1>1. ASSUME NEW does \in CommandKinds, NEW label \in {"shell", "git"}, Staged!StageOrRun(does, label)
      PROVE  StagedInv'
  <2>1. CASE active
    BY <1>1, <2>1, ProposeStep
  <2>2. CASE ~active
    BY <1>1, <2>2, AnswerStep DEF Staged!StageOrRun, Staged!RunNow
  <2>. QED BY <2>1, <2>2
<1>2. Staged!Answer => StagedInv'
  BY AnswerStep DEF Staged!Answer, Staged!Called
<1>3. Staged!GitUndoLast => StagedInv'
  BY AnswerStep DEF Staged!GitUndoLast
<1>4. Staged!ExecuteShell \/ Staged!RunPython => StagedInv'
  BY <1>1 DEF Staged!ExecuteShell, Staged!RunPython, CommandKinds
<1>5. Staged!GitStage \/ Staged!GitCommit \/ Staged!GitCreateBranch \/ Staged!GitRestore =>
        StagedInv'
  BY <1>1, <1>2
     DEF Staged!GitStage, Staged!GitCommit, Staged!GitCreateBranch, Staged!GitRestore,
         CommandKinds, Staged!GitCommands
<1>. QED BY <1>2, <1>3, <1>4, <1>5 DEF Staged!Tools, Staged!RunTests, Staged!ReadOnly

\* Without outputs and steps, or with the steps there are, nothing is out of range.
LEMMA EmptyOutputs ==
  ASSUME StagedInv, results' = <<>>, UNCHANGED asked,
         phase' \in {"none", "run", "paused", "running"},
         phase' \in {"run", "paused"} => active',
         UNCHANGED staging \/ staging' = <<>>, UNCHANGED steps \/ steps' = <<>>
  PROVE  StagedTyped'
<1>1. results' \in Seq(Nat) /\ Len(results') = 0
  BY EmptySeq
<1>2. /\ staging' \in Seq(BatchEntries) /\ Len(staging') \in Nat
      /\ \A k \in 1 .. Len(staging') : staging'[k].id \in 1 .. asked'
  <2>1. CASE UNCHANGED staging
    BY <2>1, LenProperties DEF StagedInv, StagedTyped
  <2>2. CASE staging' = <<>>
    <3>1. staging' \in Seq(BatchEntries) /\ Len(staging') = 0
      BY <2>2, EmptySeq
    <3>. QED BY <3>1
  <2>. QED BY <2>1, <2>2
<1>3. /\ steps' \in Seq(StepEntries)
      /\ \A i \in 1 .. Len(steps') : steps'[i].command \in 0 .. asked' /\
           steps'[i].shows \in 0 .. asked'
  <2>1. CASE UNCHANGED steps
    BY <2>1, LenProperties DEF StagedInv, StagedTyped
  <2>2. CASE steps' = <<>>
    <3>1. steps' \in Seq(StepEntries) /\ Len(steps') = 0
      BY <2>2, EmptySeq
    <3>. QED BY <3>1
  <2>. QED BY <2>1, <2>2
<1>4. asked' \in 0 .. MaxCommands
  BY DEF StagedInv, StagedTyped
<1>. QED BY <1>1, <1>2, <1>3, <1>4 DEF StagedTyped

\* A run starts with no step, and a batch no step of it staged is mixed.
LEMMA StartAndOver ==
  ASSUME StagedInv, Staged!Start \/ Staged!Over
  PROVE  StagedInv'
<1>1. StagedTyped'
  <2>1. CASE Staged!Start
    BY <2>1, EmptyOutputs, EmptySeq DEF Staged!Start, Staged!Keep, StagedInv, StagedTyped
  <2>2. CASE Staged!Over
    BY <2>2, EmptyOutputs, EmptySeq DEF Staged!Over, Staged!Keep, StagedInv, StagedTyped
  <2>. QED BY <2>1, <2>2
<1>2. steps' = <<>> /\ results' = <<>> /\ (~mixed' => staging' = <<>>)
  BY DEF StagedInv, Matched, Staged!Start, Staged!Over, Staged!Keep
<1>3. Staged!Placeholders' = {}
  BY <1>2, EmptySeq DEF Staged!Placeholders
<1>4. Matched'
  BY <1>2, <1>3, EmptySeq, StagedCounts, FS_EmptySet DEF Matched
<1>. QED BY <1>1, <1>4 DEF StagedInv

LEMMA UnchangedBatch ==
  ASSUME StagedInv, UNCHANGED <<staging, steps, asked>>, StagedTyped',
         ~mixed' => ~mixed /\ (phase' = "none" <=> phase = "none")
  PROVE  StagedInv'
<1>1. Staged!Placeholders' = Staged!Placeholders /\ \A i \in Staged!Placeholders :
        Staged!Place(i)' = Staged!Place(i)
  BY DEF Staged!Placeholders, Staged!Place
<1>2. Matched'
  BY <1>1 DEF StagedInv, Matched
<1>. QED BY <1>2 DEF StagedInv

LEMMA BatchMovingStep ==
  ASSUME StagedInv, Staged!Pause \/ Staged!Approve \/ Staged!CommandTimesOut \/ Staged!UserEdits
  PROVE  StagedInv'
<1>1. UNCHANGED <<staging, steps, asked>>
  BY DEF Staged!Pause, Staged!Approve, Staged!CommandTimesOut, Staged!UserEdits, Staged!Keep
<1>2. ~mixed' => ~mixed /\ (phase' = "none" <=> phase = "none")
  BY DEF Staged!Pause, Staged!Approve, Staged!CommandTimesOut, Staged!UserEdits, Staged!Keep
<1>3. StagedTyped'
  <2>1. CASE results' = results
    BY <1>1, <2>1
       DEF StagedInv, StagedTyped, Staged!Pause, Staged!Approve, Staged!CommandTimesOut,
           Staged!UserEdits, Staged!Keep
  <2>2. CASE Staged!CommandTimesOut
    BY <2>2, EmptyOutputs DEF Staged!CommandTimesOut, Staged!Keep
  <2>. QED BY <2>1, <2>2 DEF Staged!Pause, Staged!Approve, Staged!UserEdits
<1>. QED BY <1>1, <1>2, <1>3, UnchangedBatch

\* An approved command adds its output.
LEMMA RunNextStep == ASSUME StagedInv, Staged!RunNext PROVE StagedInv'
<1>1. /\ results \in Seq(Nat) /\ Len(results) \in Nat /\ Len(staging) \in Nat
      /\ Len(results) < Len(staging) /\ phase = "running"
  BY LenProperties DEF StagedInv, StagedTyped, Staged!RunNext, Staged!Remaining
<1>2. Staged!Current.id \in Nat /\ Staged!Current = staging[Len(results) + 1]
  BY <1>1 DEF Staged!Current, StagedInv, StagedTyped
<1>3. /\ results' \in Seq(Nat) /\ Len(results') = Len(results) + 1
      /\ \A k \in 1 .. Len(results) : results'[k] = results[k]
      /\ results'[Len(results) + 1] = Staged!Current.id
  BY <1>1, <1>2, AppendProperties DEF Staged!RunNext
<1>4. /\ Len(results') <= Len(staging)
      /\ \A k \in 1 .. Len(results') : results'[k] = staging[k].id
  <2>1. \A k \in 1 .. Len(results) : results[k] = staging[k].id
    BY DEF StagedInv, StagedTyped
  <2>2. \A k \in 1 .. Len(results) + 1 : k \in 1 .. Len(results) \/ k = Len(results) + 1
    BY <1>1
  <2>3. Len(results') <= Len(staging)
    BY <1>1, <1>3
  <2>. QED BY <1>2, <1>3, <2>1, <2>2, <2>3
<1>5. UNCHANGED <<active, phase, staging, steps, asked, mixed>>
  BY DEF Staged!RunNext
<1>6. StagedTyped'
  BY <1>1, <1>3, <1>4, <1>5 DEF StagedInv, StagedTyped
<1>. QED BY <1>5, <1>6, UnchangedBatch

\* Without outputs the steps stay as they are.
LEMMA CommandFailsStep == ASSUME StagedInv, Staged!CommandFails PROVE StagedInv'
<1>1. steps' = Staged!Backfilled(<<>>) /\ results' = <<>> /\ phase' = "run" /\ active' = TRUE
      /\ phase = "running" /\ UNCHANGED <<staging, mixed, asked>>
  BY DEF Staged!CommandFails, Staged!Resume, Staged!Keep, Staged!Remaining
<1>2. steps' = steps
  <2>1. DOMAIN <<>> = {}
    BY EmptySeq
  <2>2. Staged!Backfilled(<<>>) = [i \in DOMAIN steps |-> steps[i]]
    BY <2>1 DEF Staged!Backfilled
  <2>. QED BY <1>1, <2>2 DEF StagedInv, StagedTyped
<1>3. StagedTyped'
  BY <1>1, <1>2, EmptySeq, LenProperties DEF StagedInv, StagedTyped
<1>. QED BY <1>1, <1>2, <1>3, UnchangedBatch

\* Every placeholder gets the output of its command.
LEMMA AllRanStep == ASSUME StagedInv, Staged!AllRan PROVE StagedInv'
<1>1. /\ phase = "running" /\ Len(results) = Len(staging)
      /\ steps' = Staged!Backfilled(results) /\ results' = <<>> /\ staging' = <<>>
      /\ phase' = "run" /\ active' = TRUE /\ UNCHANGED <<mixed, asked>>
  BY DEF Staged!AllRan, Staged!Resume, Staged!Keep
<1>. DEFINE n == Len(steps)
<1>2. /\ n \in Nat /\ DOMAIN steps = 1 .. n /\ Staged!Placeholders \subseteq 1 .. n
      /\ Len(results) \in Nat /\ DOMAIN results = 1 .. Len(results)
      /\ asked \in Nat
  BY PlacesAreFinite, LenProperties DEF StagedInv, StagedTyped
<1>3. \A k \in 1 .. Len(results) : results[k] \in 1 .. asked /\ results[k] = staging[k].id
  BY <1>1 DEF StagedInv, StagedTyped
<1>. HIDE DEF n
<1>4. ASSUME NEW i \in 1 .. n
      PROVE  /\ steps[i] \in StepEntries /\ steps'[i] \in StepEntries
             /\ steps'[i].label = steps[i].label /\ steps'[i].command = steps[i].command
             /\ steps'[i].command \in 0 .. asked /\ steps'[i].shows \in 0 .. asked
             /\ i \in Staged!Placeholders /\ Staged!Place(i) \in 1 .. Len(results) =>
                  steps'[i].shows = results[Staged!Place(i)]
             /\ ~(i \in Staged!Placeholders /\ Staged!Place(i) \in 1 .. Len(results)) =>
                  steps'[i] = steps[i]
  <2>1. steps[i] \in StepEntries /\ steps[i].command \in 0 .. asked /\ steps[i].shows \in 0 .. asked
    BY <1>2 DEF StagedInv, StagedTyped, n
  <2>2. CASE i \in Staged!Placeholders /\ Staged!Place(i) \in 1 .. Len(results)
    <3>1. steps'[i] = [steps[i] EXCEPT !.shows = results[Staged!Place(i)]]
      BY <1>1, <1>2, <2>2 DEF Staged!Backfilled
    <3>2. results[Staged!Place(i)] \in 1 .. asked /\ results[Staged!Place(i)] \in Nat
      BY <1>2, <1>3, <2>2
    <3>. QED BY <2>1, <2>2, <3>1, <3>2, <1>2 DEF StepEntries
  <2>3. CASE ~(i \in Staged!Placeholders /\ Staged!Place(i) \in 1 .. Len(results))
    <3>1. steps'[i] = steps[i]
      BY <1>1, <1>2, <2>3 DEF Staged!Backfilled
    <3>. QED BY <2>1, <2>3, <3>1
  <2>. QED BY <2>2, <2>3
<1>5. steps' \in [1 .. n -> StepEntries] /\ steps' \in Seq(StepEntries) /\ Len(steps') = n
      /\ DOMAIN steps' = 1 .. n
  <2>1. steps' \in [1 .. n -> StepEntries]
    BY <1>1, <1>2, <1>4 DEF Staged!Backfilled
  <2>. QED BY <1>2, <2>1, LenProperties
<1>6. StagedTyped'
  <2>1. staging' \in Seq(BatchEntries) /\ results' \in Seq(Nat) /\ Len(staging') = 0 /\
          Len(results') = 0
    BY <1>1, EmptySeq
  <2>2. \A i \in 1 .. Len(steps') : steps'[i].command \in 0 .. asked' /\
          steps'[i].shows \in 0 .. asked'
    BY <1>1, <1>4, <1>5
  <2>3. asked' \in 0 .. MaxCommands
    BY <1>1 DEF StagedInv, StagedTyped
  <2>. QED BY <1>1, <1>5, <2>1, <2>2, <2>3 DEF StagedTyped
<1>7. Matched'
  <2>. SUFFICES ASSUME ~mixed PROVE Matched'
    BY <1>1 DEF Matched
  <2>1. /\ \A i \in Staged!Placeholders :
             Staged!Place(i) \in 1 .. Len(staging) /\ staging[Staged!Place(i)].id = steps[i].command
        /\ \A i \in 1 .. n :
             steps[i].label = "shell" /\ steps[i].shows # 0 => steps[i].shows = steps[i].command
    BY <1>1 DEF StagedInv, Matched, n
  <2>2. ASSUME NEW i \in 1 .. n, steps[i].label = "shell"
        PROVE  steps'[i].shows = steps'[i].command /\ steps'[i].shows # 0
    <3>1. CASE steps[i].shows = 0
      <4>1. i \in Staged!Placeholders
        BY <1>2, <2>2, <3>1 DEF Staged!Placeholders
      <4>. QED BY <1>1, <1>2, <1>3, <1>4, <2>1, <4>1
    <3>2. CASE steps[i].shows # 0
      <4>1. i \notin Staged!Placeholders
        BY <3>2 DEF Staged!Placeholders
      <4>. QED BY <1>4, <2>1, <2>2, <3>2, <4>1
    <3>. QED BY <3>1, <3>2
  <2>3. Staged!Placeholders' = {}
    BY <1>4, <1>5, <2>2 DEF Staged!Placeholders
  <2>4. Staged!Cardinality(Staged!Placeholders)' = Len(staging)'
    BY <1>1, <2>3, EmptySeq, StagedCounts, FS_EmptySet
  <2>. QED BY <1>1, <1>4, <1>5, <2>2, <2>3, <2>4 DEF Matched
<1>. QED BY <1>6, <1>7 DEF StagedInv

-----------------------------------------------------------------------------
\* The inductive invariant: the batch holds the commands of the placeholders,
\* in their order, and the outputs so far are those of its first commands.
THEOREM StagedInductive == ASSUME MaxCommands \in Nat PROVE Staged!Spec => []StagedInv
<1>1. StagedInv /\ [Staged!Next]_(Staged!vars) => StagedInv'
  <2>. SUFFICES ASSUME StagedInv, [Staged!Next]_(Staged!vars) PROVE StagedInv'
    OBVIOUS
  <2>1. CASE Staged!Tools
    BY <2>1, ToolStep
  <2>2. CASE Staged!Driving
    BY <2>2, StartAndOver, BatchMovingStep, RunNextStep, AllRanStep, CommandFailsStep
       DEF Staged!Driving, Staged!Finish, Staged!DiscardAll
  <2>3. CASE Staged!UserEdits
    BY <2>3, BatchMovingStep
  <2>4. CASE UNCHANGED Staged!vars
    <3>1. StagedTyped'
      BY <2>4 DEF Staged!vars, StagedInv, StagedTyped
    <3>. QED BY <2>4, <3>1, UnchangedBatch DEF Staged!vars
  <2>. QED BY <2>1, <2>2, <2>3, <2>4 DEF Staged!Next
<1>. QED BY <1>1, StagedInit, PTL DEF Staged!Spec

\* A step shows the output of its own command, in batches without git commands,
\* added commands and time-outs (StagedCommands' ResultsReachTheirStep).
THEOREM ResultsReach ==
  ASSUME MaxCommands \in Nat
  PROVE  Staged!Spec => []Staged!ResultsReachTheirStep
<1>1. StagedInv => Staged!ResultsReachTheirStep
  <2>. SUFFICES ASSUME StagedInv, phase \in {"run", "paused"}, ~mixed,
                       NEW i \in DOMAIN steps, steps[i].label = "shell"
                PROVE  IF steps[i].shows = 0
                       THEN steps[i].command \in {c.id : c \in Staged!Range(staging)}
                       ELSE steps[i].shows = steps[i].command
    BY DEF Staged!ResultsReachTheirStep
  <2>1. DOMAIN steps = 1 .. Len(steps) /\ DOMAIN staging = 1 .. Len(staging)
    BY LenProperties DEF StagedInv, StagedTyped
  <2>2. CASE steps[i].shows = 0
    <3>1. i \in Staged!Placeholders
      BY <2>2 DEF Staged!Placeholders
    <3>2. Staged!Place(i) \in DOMAIN staging /\ staging[Staged!Place(i)].id = steps[i].command
      BY <2>1, <3>1 DEF StagedInv, Matched
    <3>. QED BY <2>2, <3>2 DEF Staged!Range
  <2>3. CASE steps[i].shows # 0
    BY <2>1, <2>3 DEF StagedInv, Matched
  <2>. QED BY <2>2, <2>3
<1>. QED BY <1>1, StagedInductive, PTL

\* Commands, steps and results are what TypeOK of StagedCommands says.
THEOREM StagedTypes == ASSUME MaxCommands \in Nat PROVE Staged!Spec => []Staged!TypeOK
<1>1. StagedInv => Staged!TypeOK
  <2>. SUFFICES ASSUME StagedInv PROVE Staged!TypeOK
    OBVIOUS
  <2>1. /\ DOMAIN steps = 1 .. Len(steps) /\ DOMAIN staging = 1 .. Len(staging)
        /\ DOMAIN results = 1 .. Len(results) /\ Len(staging) \in Nat /\ Len(results) \in Nat
    BY LenProperties DEF StagedInv, StagedTyped
  <2>2. staging \in Seq(Staged!Commands)
    <3>1. ASSUME NEW k \in 1 .. Len(staging) PROVE staging[k] \in Staged!Commands
      <4>1. staging[k] \in BatchEntries /\ staging[k].id \in 1 .. asked /\
              asked \in 0 .. MaxCommands
        BY ElementOfSeq DEF StagedInv, StagedTyped
      <4>2. staging[k].id \in 1 .. MaxCommands
        BY <4>1
      <4>. QED BY <4>1, <4>2 DEF BatchEntries, Staged!Commands, CommandKinds
    <3>2. staging \in [1 .. Len(staging) -> Staged!Commands]
      BY <2>1, <3>1 DEF StagedInv, StagedTyped
    <3>. QED BY <2>1, <3>2
  <2>3. \A i \in DOMAIN steps :
          /\ steps[i].label \in {"shell", "git", "done"}
          /\ steps[i].command \in 0 .. asked /\ steps[i].shows \in 0 .. asked
    <3>1. \A i \in DOMAIN steps : steps[i] \in StepEntries
      BY <2>1, ElementOfSeq DEF StagedInv, StagedTyped
    <3>. QED BY <2>1, <3>1 DEF StagedInv, StagedTyped, StepEntries
  <2>4. Staged!Range(results) \subseteq 1 .. asked
    BY <2>1 DEF StagedInv, StagedTyped, Staged!Range
  <2>. QED BY <2>2, <2>3, <2>4 DEF StagedInv, StagedTyped, Staged!TypeOK
<1>. QED BY <1>1, StagedInductive, PTL

-----------------------------------------------------------------------------
(* THE EVENT STREAM                                                          *)

CONSTANT MaxProgress
VARIABLES streamPc, bus, bridge, queue, out, streamClosed, last, events, slow

Stream == INSTANCE RunStream WITH pc <- streamPc, closed <- streamClosed

LEMMA StreamCounts == \A S : Stream!Cardinality(S) = Cardinality(S)
BY DEF Stream!Cardinality, Cardinality


-----------------------------------------------------------------------------
\* What was put for the browser, read or not.
Sent == out \o queue
StreamItems == Stream!BusEvents \cup Stream!Direct

ToldIn(L) == {i \in 1 .. Len(L) : L[i] \in Stream!BusEvents}
NthIn(L, i) == Stream!Cardinality({j \in ToldIn(L) : j <= i})
Number(L) == Stream!Cardinality(ToldIn(L))

\* L holds the first of the events ev, in their order.
Carries(L, ev) ==
    /\ Number(L) <= Len(ev)
    /\ \A i \in ToldIn(L) : NthIn(L, i) \in 1 .. Len(ev) /\ L[i] = ev[NthIn(L, i)]
    /\ \A k \in 1 .. Number(L) : \E i \in 1 .. Len(L) : L[i] = ev[k]

\* The bus b still holds the last r of the events ev, and the sentinel once closed.
Holds(b, r, ev, cl) ==
    /\ r \in 0 .. Len(ev) /\ r <= Len(b)
    /\ \A k \in 1 .. r : b[k] = ev[Len(ev) - r + k]
    /\ ~cl => Len(b) = r
    /\ cl => Len(b) > r /\ b[r + 1] = "close"

\* What ends a run was put before the sentinel, and run_complete before a result.
Ordered(L, over, late) ==
    /\ \A i \in 1 .. Len(L) : L[i] = "done" =>
         /\ over /\ (~late => i = Len(L))
         /\ \E j \in 1 .. i : L[j] \in {"result", "error"}
    /\ \A i \in 1 .. Len(L) : L[i] = "result" /\ ~late =>
         \E j \in 1 .. i : L[j] = "run_complete"

StreamTyped ==
    /\ streamPc \in {"setup", "condensing", "running", "reporting", "closing", "joining",
               "last", "recording", "leaving", "over"}
    /\ bridge \in {"none", "reads", "ended"}
    /\ bus \in Seq(Stream!BusEvents \cup {"close"})
    /\ queue \in Seq(StreamItems) /\ out \in Seq(StreamItems) /\ events \in Seq(Stream!BusEvents)
    /\ streamClosed \in BOOLEAN /\ slow \in BOOLEAN
    /\ last \in {"none", "result", "error"}

\* Where the worker, the bridge and the bus stand to each other.
BusMatches ==
    /\ bridge = "none" => streamPc \in {"setup", "leaving", "over"} /\ events = <<>> /\
         bus = <<>> /\ ~streamClosed
    /\ bridge = "ended" => streamClosed /\ Number(Sent) = Len(events)
    /\ bridge # "ended" => Holds(bus, Len(events) - Number(Sent), events, streamClosed)
    /\ streamPc = "setup" => bridge = "none"
    /\ streamPc \in {"condensing", "running", "reporting"} => ~streamClosed
    /\ streamPc \in {"joining", "last", "recording"} => streamClosed
    /\ streamPc \in {"last", "recording", "leaving", "over"} \/
         (streamPc = "closing" /\ streamClosed) =>
         slow \/ bridge # "reads"

StreamEnds ==
    /\ streamPc \in {"closing", "joining", "last"} =>
         /\ last \in {"result", "error"}
         /\ last = "result" => \E k \in 1 .. Len(events) : events[k] = "run_complete"
    /\ streamPc \in {"recording", "leaving", "over"} =>
         \E i \in 1 .. Len(Sent) : Sent[i] \in {"result", "error"}
    /\ Ordered(Sent, streamPc = "over", slow)
    /\ \A i \in 1 .. Len(out) : out[i] = "done" => i = Len(out)

StreamInv == StreamTyped /\ Carries(Sent, events) /\ BusMatches /\ StreamEnds

-----------------------------------------------------------------------------
(* The data.                                                                 *)

LEMMA ToldIsFinite ==
  ASSUME NEW L \in Seq(StreamItems)
  PROVE  /\ Len(L) \in Nat /\ DOMAIN L = 1 .. Len(L) /\ ToldIn(L) \in SUBSET (1 .. Len(L))
         /\ IsFiniteSet(ToldIn(L)) /\ Number(L) \in Nat
<1>1. Len(L) \in Nat /\ DOMAIN L = 1 .. Len(L)
  BY LenProperties
<1>2. IsFiniteSet(1 .. Len(L)) /\ ToldIn(L) \in SUBSET (1 .. Len(L))
  BY <1>1, StreamCounts, FS_Interval DEF ToldIn
<1>. QED BY <1>1, <1>2, StreamCounts, FS_Subset, FS_CardinalityType DEF Number

\* What is put is the last of the line.
LEMMA PutLonger ==
  ASSUME NEW L \in Seq(StreamItems), NEW e \in StreamItems
  PROVE  /\ Append(L, e) \in Seq(StreamItems) /\ Len(Append(L, e)) = Len(L) + 1 /\ Len(L) \in Nat
         /\ \A i \in 1 .. Len(L) : Append(L, e)[i] = L[i]
         /\ Append(L, e)[Len(L) + 1] = e
         /\ \A i \in ToldIn(L) : i \in ToldIn(Append(L, e)) /\ NthIn(Append(L, e), i) = NthIn(L, i)
         /\ e \in Stream!Direct => ToldIn(Append(L, e)) = ToldIn(L) /\
              Number(Append(L, e)) = Number(L)
         /\ e \in Stream!BusEvents =>
              /\ ToldIn(Append(L, e)) = ToldIn(L) \cup {Len(L) + 1}
              /\ Number(Append(L, e)) = Number(L) + 1
              /\ NthIn(Append(L, e), Len(L) + 1) = Number(L) + 1
<1>. DEFINE n == Len(L)
            M == Append(L, e)
<1>1. /\ M \in Seq(StreamItems) /\ Len(M) = n + 1 /\ n \in Nat
      /\ \A i \in 1 .. n : M[i] = L[i]
      /\ M[n + 1] = e
  BY AppendProperties, LenProperties
<1>2. /\ ToldIn(L) \in SUBSET (1 .. n) /\ IsFiniteSet(ToldIn(L)) /\ Number(L) \in Nat
  BY ToldIsFinite
<1>3. /\ ToldIn(M) \in SUBSET (1 .. n + 1)
      /\ \A j \in 1 .. n : j \in ToldIn(M) <=> j \in ToldIn(L)
      /\ n + 1 \in ToldIn(M) <=> e \in Stream!BusEvents
  BY <1>1 DEF ToldIn
<1>4. /\ \A i \in ToldIn(L) : {j \in ToldIn(M) : j <= i} = {j \in ToldIn(L) : j <= i}
      /\ {j \in ToldIn(M) : j <= n + 1} = ToldIn(M)
      /\ n + 1 \in ToldIn(M) => ToldIn(M) = ToldIn(L) \cup {n + 1}
      /\ n + 1 \notin ToldIn(M) => ToldIn(M) = ToldIn(L)
  BY <1>1, <1>2, <1>3, CountedAfter
<1>5. ASSUME NEW i \in ToldIn(L) PROVE i \in ToldIn(M) /\ NthIn(M, i) = NthIn(L, i)
  <2>1. i \in 1 .. n /\ i \in ToldIn(M)
    BY <1>2, <1>3
  <2>. QED BY <1>4, <2>1 DEF NthIn
<1>6. ASSUME e \in Stream!Direct PROVE ToldIn(M) = ToldIn(L) /\ Number(M) = Number(L)
  <2>1. e \notin Stream!BusEvents
    BY <1>6 DEF Stream!BusEvents, Stream!Direct
  <2>. QED BY <1>3, <1>4, <2>1 DEF Number
<1>7. ASSUME e \in Stream!BusEvents
      PROVE  /\ ToldIn(M) = ToldIn(L) \cup {n + 1}
             /\ Number(M) = Number(L) + 1
             /\ NthIn(M, n + 1) = Number(L) + 1
  <2>1. ToldIn(M) = ToldIn(L) \cup {n + 1} /\ n + 1 \notin ToldIn(L)
    BY <1>1, <1>2, <1>3, <1>4, <1>7
  <2>2. Number(M) = Number(L) + 1
    BY <1>2, <2>1, StreamCounts, FS_AddElement DEF Number
  <2>. QED BY <1>4, <2>1, <2>2 DEF NthIn, Number
<1>. QED BY <1>1, <1>5, <1>6, <1>7

LEMMA EventAdded ==
  ASSUME NEW L \in Seq(StreamItems), NEW ev \in Seq(Stream!BusEvents), NEW e \in Stream!BusEvents, Carries(L, ev)
  PROVE  Append(ev, e) \in Seq(Stream!BusEvents) /\ Carries(L, Append(ev, e))
<1>1. /\ Append(ev, e) \in Seq(Stream!BusEvents) /\ Len(Append(ev, e)) = Len(ev) + 1 /\
           Len(ev) \in Nat
      /\ \A i \in 1 .. Len(ev) : Append(ev, e)[i] = ev[i]
  BY AppendProperties, LenProperties
<1>2. Number(L) \in Nat
  BY ToldIsFinite
<1>. QED BY <1>1, <1>2 DEF Carries

LEMMA DirectPut ==
  ASSUME NEW L \in Seq(StreamItems), NEW ev \in Seq(Stream!BusEvents), NEW e \in Stream!Direct, Carries(L, ev)
  PROVE  Carries(Append(L, e), ev) /\ Number(Append(L, e)) = Number(L)
<1>. DEFINE M == Append(L, e)
<1>1. /\ Len(M) = Len(L) + 1 /\ Len(L) \in Nat
      /\ \A i \in 1 .. Len(L) : M[i] = L[i]
      /\ \A i \in ToldIn(L) : NthIn(M, i) = NthIn(L, i)
      /\ ToldIn(M) = ToldIn(L) /\ Number(M) = Number(L)
      /\ ToldIn(L) \subseteq 1 .. Len(L)
  <2>1. e \in StreamItems
    BY DEF StreamItems
  <2>. QED BY <2>1, PutLonger, ToldIsFinite
<1>. HIDE DEF M
<1>2. \A i \in ToldIn(L) : M[i] = L[i]
  BY <1>1
<1>3. \A k \in 1 .. Number(L) : \E i \in 1 .. Len(M) : M[i] = ev[k]
  <2>. SUFFICES ASSUME NEW k \in 1 .. Number(L) PROVE \E i \in 1 .. Len(M) : M[i] = ev[k]
    OBVIOUS
  <2>1. PICK i \in 1 .. Len(L) : L[i] = ev[k]
    BY DEF Carries
  <2>. QED BY <1>1, <2>1
<1>4. Carries(M, ev)
  BY <1>1, <1>2, <1>3 DEF Carries
<1>. QED BY <1>1, <1>4 DEF M

\* The bridge hands over the next of the events.
LEMMA EventPut ==
  ASSUME NEW L \in Seq(StreamItems), NEW ev \in Seq(Stream!BusEvents), Carries(L, ev), Number(L) < Len(ev)
  PROVE  /\ ev[Number(L) + 1] \in Stream!BusEvents
         /\ Carries(Append(L, ev[Number(L) + 1]), ev)
         /\ Number(Append(L, ev[Number(L) + 1])) = Number(L) + 1
<1>. DEFINE c == Number(L)
            e == ev[c + 1]
            M == Append(L, e)
<1>1. c \in Nat /\ Len(ev) \in Nat /\ e \in Stream!BusEvents /\ e \in StreamItems /\
        ToldIn(L) \subseteq 1 .. Len(L)
  BY ToldIsFinite, LenProperties, ElementOfSeq DEF StreamItems
<1>. HIDE DEF e
<1>2. /\ M \in Seq(StreamItems) /\ Len(M) = Len(L) + 1 /\ Len(L) \in Nat
      /\ \A i \in 1 .. Len(L) : M[i] = L[i]
      /\ M[Len(L) + 1] = e
      /\ \A i \in ToldIn(L) : i \in ToldIn(M) /\ NthIn(M, i) = NthIn(L, i)
      /\ ToldIn(M) = ToldIn(L) \cup {Len(L) + 1}
      /\ Number(M) = c + 1
      /\ NthIn(M, Len(L) + 1) = c + 1
  BY <1>1, PutLonger
<1>. HIDE DEF M, c
<1>3. ASSUME NEW i \in ToldIn(M) PROVE NthIn(M, i) \in 1 .. Len(ev) /\ M[i] = ev[NthIn(M, i)]
  <2>1. CASE i \in ToldIn(L)
    <3>1. NthIn(L, i) \in 1 .. Len(ev) /\ L[i] = ev[NthIn(L, i)]
      BY <2>1 DEF Carries
    <3>. QED BY <1>1, <1>2, <2>1, <3>1
  <2>2. CASE i = Len(L) + 1
    <3>1. c + 1 \in 1 .. Len(ev)
      BY <1>1 DEF c
    <3>. QED BY <1>2, <2>2, <3>1 DEF e
  <2>. QED BY <1>2, <2>1, <2>2
<1>4. ASSUME NEW k \in 1 .. Number(M) PROVE \E i \in 1 .. Len(M) : M[i] = ev[k]
  <2>1. CASE k \in 1 .. c
    <3>1. PICK i \in 1 .. Len(L) : L[i] = ev[k]
      BY <2>1 DEF Carries, c
    <3>. QED BY <1>2, <3>1
  <2>2. CASE k = c + 1
    BY <1>2, <2>2 DEF e
  <2>. QED BY <1>1, <1>2, <2>1, <2>2
<1>5. Number(M) <= Len(ev)
  BY <1>1, <1>2 DEF c
<1>. QED BY <1>1, <1>2, <1>3, <1>4, <1>5 DEF Carries, M, e, c

\* The bus: an event while it is open and after, the sentinel, and what the
\* bridge takes from it.
LEMMA BusMoves ==
  ASSUME NEW b \in Seq(Stream!BusEvents \cup {"close"}), NEW r, NEW ev \in Seq(Stream!BusEvents), NEW cl \in BOOLEAN,
         Holds(b, r, ev, cl)
  PROVE  /\ \A e \in Stream!BusEvents :
              /\ Append(b, e) \in Seq(Stream!BusEvents \cup {"close"})
              /\ ~cl => Holds(Append(b, e), r + 1, Append(ev, e), cl)
              /\ cl => Holds(Append(b, e), r, ev, cl)
         /\ Append(b, "close") \in Seq(Stream!BusEvents \cup {"close"})
         /\ ~cl => Holds(Append(b, "close"), r, ev, TRUE)
<1>. DEFINE T == Stream!BusEvents \cup {"close"}
<1>1. Len(b) \in Nat /\ Len(ev) \in Nat /\ r \in 0 .. Len(ev) /\ r <= Len(b)
  BY LenProperties DEF Holds
<1>2. \A k \in 1 .. r : b[k] = ev[Len(ev) - r + k]
  BY DEF Holds
<1>3. ASSUME NEW e \in T
      PROVE  /\ Append(b, e) \in Seq(T) /\ Len(Append(b, e)) = Len(b) + 1
             /\ \A k \in 1 .. Len(b) : Append(b, e)[k] = b[k]
             /\ Append(b, e)[Len(b) + 1] = e
  BY AppendProperties
<1>4. ASSUME NEW e \in Stream!BusEvents, ~cl PROVE Holds(Append(b, e), r + 1, Append(ev, e), cl)
  <2>1. /\ Len(Append(ev, e)) = Len(ev) + 1
        /\ \A k \in 1 .. Len(ev) : Append(ev, e)[k] = ev[k]
        /\ Append(ev, e)[Len(ev) + 1] = e
    BY AppendProperties
  <2>2. Len(b) = r
    BY <1>4 DEF Holds
  <2>. DEFINE B == Append(b, e)
              V == Append(ev, e)
  <2>3. /\ Len(B) = r + 1 /\ \A k \in 1 .. r : B[k] = b[k]
        /\ B[r + 1] = e
    BY <1>3, <2>2
  <2>. HIDE DEF B, V
  <2>4. ASSUME NEW k \in 1 .. r + 1 PROVE B[k] = V[Len(V) - (r + 1) + k]
    <3>1. Len(V) - (r + 1) + k = Len(ev) - r + k
      BY <1>1, <2>1 DEF V
    <3>2. CASE k \in 1 .. r
      <4>1. Len(ev) - r + k \in 1 .. Len(ev)
        BY <1>1, <3>2
      <4>2. V[Len(ev) - r + k] = ev[Len(ev) - r + k]
        BY <2>1, <4>1 DEF V
      <4>. QED BY <1>2, <2>3, <3>1, <3>2, <4>2
    <3>3. CASE k = r + 1
      <4>1. Len(ev) - r + k = Len(ev) + 1
        BY <1>1, <3>3
      <4>2. V[Len(ev) + 1] = e
        BY <2>1 DEF V
      <4>. QED BY <2>3, <3>1, <3>3, <4>1, <4>2
    <3>. QED BY <1>1, <3>2, <3>3
  <2>5. r + 1 \in 0 .. Len(V) /\ r + 1 <= Len(B)
    BY <1>1, <2>1, <2>3 DEF V
  <2>6. Holds(B, r + 1, V, cl)
    BY <1>4, <2>3, <2>4, <2>5 DEF Holds
  <2>. QED BY <2>6 DEF B, V
<1>5. ASSUME NEW e \in T, cl PROVE Holds(Append(b, e), r, ev, cl)
  <2>1. Len(b) > r /\ b[r + 1] = "close"
    BY <1>5 DEF Holds
  <2>. DEFINE B == Append(b, e)
  <2>2. Len(B) = Len(b) + 1 /\ \A k \in 1 .. Len(b) : B[k] = b[k]
    BY <1>3
  <2>. HIDE DEF B
  <2>3. r + 1 \in 1 .. Len(b) /\ 1 .. r \subseteq 1 .. Len(b)
    BY <1>1, <2>1
  <2>4. B[r + 1] = "close" /\ \A k \in 1 .. r : B[k] = ev[Len(ev) - r + k]
    BY <1>2, <2>1, <2>2, <2>3
  <2>5. Holds(B, r, ev, cl)
    BY <1>1, <1>5, <2>1, <2>2, <2>4 DEF Holds
  <2>. QED BY <2>5 DEF B
<1>6. ASSUME ~cl PROVE Holds(Append(b, "close"), r, ev, TRUE)
  <2>1. Len(b) = r
    BY <1>6 DEF Holds
  <2>. DEFINE B == Append(b, "close")
  <2>2. Len(B) = r + 1 /\ B[r + 1] = "close" /\ \A k \in 1 .. r : B[k] = b[k]
    BY <1>3, <2>1
  <2>. HIDE DEF B
  <2>3. Holds(B, r, ev, TRUE)
    BY <1>1, <1>2, <2>2 DEF Holds
  <2>. QED BY <2>3 DEF B
<1>. QED BY <1>3, <1>4, <1>5, <1>6

LEMMA BusTaken ==
  ASSUME NEW b \in Seq(Stream!BusEvents \cup {"close"}), NEW r, NEW ev \in Seq(Stream!BusEvents), NEW cl \in BOOLEAN,
         Holds(b, r, ev, cl), b # <<>>
  PROVE  /\ Tail(b) \in Seq(Stream!BusEvents \cup {"close"})
         /\ Head(b) = "close" => r = 0 /\ cl
         /\ Head(b) # "close" =>
              r > 0 /\ Head(b) = ev[Len(ev) - r + 1] /\ Holds(Tail(b), r - 1, ev, cl)
<1>1. /\ Len(b) \in Nat /\ Len(ev) \in Nat /\ r \in 0 .. Len(ev) /\ r <= Len(b)
      /\ Len(b) # 0 /\ Head(b) = b[1]
      /\ \A k \in 1 .. r : b[k] = ev[Len(ev) - r + k]
      /\ ~cl => Len(b) = r
      /\ cl => Len(b) > r /\ b[r + 1] = "close"
  BY LenProperties, EmptySeq DEF Holds
<1>. DEFINE t == Tail(b)
<1>2. /\ t \in Seq(Stream!BusEvents \cup {"close"}) /\ Len(t) = Len(b) - 1
      /\ \A k \in 1 .. Len(t) : t[k] = b[k + 1]
  BY HeadTailProperties
<1>. HIDE DEF t
<1>3. CASE r = 0
  <2>1. cl /\ Head(b) = "close"
    BY <1>1, <1>3
  <2>. QED BY <1>2, <1>3, <2>1 DEF t
<1>4. CASE r > 0
  <2>1. Head(b) = ev[Len(ev) - r + 1] /\ Len(ev) - r + 1 \in 1 .. Len(ev)
    BY <1>1, <1>4
  <2>2. Head(b) # "close"
    <3>1. ev[Len(ev) - r + 1] \in Stream!BusEvents
      BY <2>1, ElementOfSeq
    <3>. QED BY <2>1, <3>1 DEF Stream!BusEvents
  <2>3. ASSUME NEW k \in 1 .. r - 1 PROVE t[k] = ev[Len(ev) - (r - 1) + k]
    <3>1. k + 1 \in 1 .. r /\ k \in 1 .. Len(t) /\ Len(ev) - r + (k + 1) = Len(ev) - (r - 1) + k
      BY <1>1, <1>2
    <3>. QED BY <1>1, <1>2, <3>1
  <2>4. ASSUME cl PROVE Len(t) > r - 1 /\ t[(r - 1) + 1] = "close"
    <3>1. r \in 1 .. Len(t) /\ (r - 1) + 1 = r
      BY <1>1, <1>2, <1>4, <2>4
    <3>. QED BY <1>1, <1>2, <2>4, <3>1
  <2>5. Holds(t, r - 1, ev, cl)
    BY <1>1, <1>2, <1>4, <2>3, <2>4 DEF Holds
  <2>. QED BY <1>2, <1>4, <2>1, <2>2, <2>5 DEF t
<1>. QED BY <1>1, <1>3, <1>4

LEMMA OrderedPut ==
  ASSUME NEW L \in Seq(StreamItems), NEW e \in StreamItems, NEW over \in BOOLEAN, NEW over2 \in BOOLEAN,
         NEW late \in BOOLEAN, Ordered(L, over, late),
         over => late /\ over2,
         e = "done" => over2 /\ \E j \in 1 .. Len(L) : L[j] \in {"result", "error"},
         e = "result" /\ ~late => \E j \in 1 .. Len(L) : L[j] = "run_complete"
  PROVE  Ordered(Append(L, e), over2, late)
<1>. DEFINE M == Append(L, e)
            n == Len(L)
<1>1. /\ Len(M) = n + 1 /\ n \in Nat
      /\ \A i \in 1 .. n : M[i] = L[i]
      /\ M[n + 1] = e
  BY AppendProperties, LenProperties
<1>. HIDE DEF M
<1>2. ASSUME NEW i \in 1 .. Len(M), M[i] = "done"
      PROVE  over2 /\ (~late => i = Len(M)) /\ \E j \in 1 .. i : M[j] \in {"result", "error"}
  <2>1. CASE i \in 1 .. n
    <3>1. over /\ \E j \in 1 .. i : L[j] \in {"result", "error"}
      BY <1>1, <1>2, <2>1 DEF Ordered
    <3>2. PICK j \in 1 .. i : L[j] \in {"result", "error"}
      BY <3>1
    <3>. QED BY <1>1, <2>1, <3>1, <3>2
  <2>2. CASE i = n + 1
    <3>1. PICK j \in 1 .. n : L[j] \in {"result", "error"}
      BY <1>1, <1>2, <2>2
    <3>. QED BY <1>1, <1>2, <2>2, <3>1
  <2>. QED BY <1>1, <2>1, <2>2
<1>3. ASSUME NEW i \in 1 .. Len(M), M[i] = "result", ~late
      PROVE  \E j \in 1 .. i : M[j] = "run_complete"
  <2>1. CASE i \in 1 .. n
    <3>1. PICK j \in 1 .. i : L[j] = "run_complete"
      BY <1>1, <1>3, <2>1 DEF Ordered
    <3>. QED BY <1>1, <2>1, <3>1
  <2>2. CASE i = n + 1
    <3>1. PICK j \in 1 .. n : L[j] = "run_complete"
      BY <1>1, <1>3, <2>2
    <3>. QED BY <1>1, <2>2, <3>1
  <2>. QED BY <1>1, <2>1, <2>2
<1>4. Ordered(M, over2, late)
  BY <1>2, <1>3 DEF Ordered
<1>. QED BY <1>4 DEF M

-----------------------------------------------------------------------------
(* The steps.                                                                *)

LEMMA LineIs ==
  ASSUME StreamTyped
  PROVE  /\ Sent \in Seq(StreamItems) /\ Len(Sent) = Len(out) + Len(queue)
         /\ Len(out) \in Nat /\ Len(queue) \in Nat /\ Number(Sent) \in Nat
         /\ \A i \in 1 .. Len(out) : Sent[i] = out[i]
<1>1. /\ Sent \in Seq(StreamItems) /\ Len(Sent) = Len(out) + Len(queue)
      /\ Len(out) \in Nat /\ Len(queue) \in Nat
      /\ \A i \in 1 .. Len(out) + Len(queue) :
           Sent[i] = IF i <= Len(out) THEN out[i] ELSE queue[i - Len(out)]
  BY ConcatProperties, LenProperties DEF StreamTyped, Sent
<1>2. Number(Sent) \in Nat
  BY <1>1, ToldIsFinite
<1>. QED BY <1>1, <1>2

LEMMA PutIsLast ==
  ASSUME StreamTyped, NEW e \in StreamItems, Stream!Put(e), UNCHANGED out
  PROVE  queue' \in Seq(StreamItems) /\ Sent' = Append(Sent, e)
<1>1. queue \in Seq(StreamItems) /\ out \in Seq(StreamItems) /\ <<e>> \in Seq(StreamItems)
  BY DEF StreamTyped
<1>2. queue' = queue \o <<e>> /\ queue' \in Seq(StreamItems)
  BY <1>1, AppendIsConcat, AppendProperties DEF Stream!Put
<1>3. (out \o queue) \o <<e>> = out \o (queue \o <<e>>)
  BY <1>1, ConcatAssociative
<1>4. Sent \in Seq(StreamItems)
  BY LineIs
<1>5. Append(Sent, e) = Sent \o <<e>>
  BY <1>4, AppendIsConcat
<1>. QED BY <1>2, <1>3, <1>5 DEF Sent

LEMMA ReadKeepsLine ==
  ASSUME StreamTyped, Stream!Generate
  PROVE  /\ out' \in Seq(StreamItems) /\ queue' \in Seq(StreamItems) /\ Sent' = Sent
         /\ Len(out') = Len(out) + 1 /\ \A i \in 1 .. Len(out) : out'[i] = out[i]
<1>. DEFINE h == Head(queue)
<1>1. queue \in Seq(StreamItems) /\ out \in Seq(StreamItems) /\ queue # <<>> /\
        Len(queue) \in Nat /\ Len(out) \in Nat
  BY LenProperties DEF StreamTyped, Stream!Generate
<1>2. /\ h \in StreamItems /\ h = queue[1] /\ queue' \in Seq(StreamItems) /\
           Len(queue') = Len(queue) - 1
      /\ \A i \in 1 .. Len(queue) - 1 : queue'[i] = queue[i + 1]
  BY <1>1, HeadTailProperties DEF Stream!Generate
<1>3. /\ out' \in Seq(StreamItems) /\ Len(out') = Len(out) + 1
      /\ \A i \in 1 .. Len(out) : out'[i] = out[i]
      /\ out'[Len(out) + 1] = h
  BY <1>1, <1>2, AppendProperties DEF Stream!Generate
<1>. DEFINE n == Len(out) + Len(queue)
<1>4. /\ Sent \in Seq(StreamItems) /\ Len(Sent) = n
      /\ \A i \in 1 .. n : Sent[i] = IF i <= Len(out) THEN out[i] ELSE queue[i - Len(out)]
  BY <1>1, ConcatProperties DEF Sent
<1>5. /\ Sent' \in Seq(StreamItems) /\ Len(Sent') = Len(out') + Len(queue')
      /\ \A i \in 1 .. Len(out') + Len(queue') :
           Sent'[i] = IF i <= Len(out') THEN out'[i] ELSE queue'[i - Len(out')]
  BY <1>2, <1>3, ConcatProperties DEF Sent
<1>6. Len(out') + Len(queue') = n /\ n \in Nat
  BY <1>1, <1>2, <1>3
<1>7. ASSUME NEW i \in 1 .. n PROVE Sent'[i] = Sent[i]
  <2>0. Sent'[i] = IF i <= Len(out') THEN out'[i] ELSE queue'[i - Len(out')]
    BY <1>5, <1>6
  <2>00. Sent[i] = IF i <= Len(out) THEN out[i] ELSE queue[i - Len(out)]
    BY <1>4
  <2>1. CASE i <= Len(out)
    <3>1. i \in 1 .. Len(out) /\ i <= Len(out')
      BY <1>1, <1>3, <2>1
    <3>. QED BY <1>3, <2>0, <2>00, <2>1, <3>1
  <2>2. CASE i = Len(out) + 1
    <3>1. ~(i <= Len(out)) /\ i <= Len(out') /\ i - Len(out) = 1
      BY <1>1, <1>3, <2>2
    <3>. QED BY <1>2, <1>3, <2>0, <2>00, <2>2, <3>1
  <2>3. CASE i > Len(out) + 1
    <3>1. /\ ~(i <= Len(out)) /\ ~(i <= Len(out'))
          /\ i - Len(out') \in 1 .. Len(queue) - 1 /\ (i - Len(out')) + 1 = i - Len(out)
      BY <1>1, <1>3, <2>3
    <3>2. queue'[i - Len(out')] = queue[(i - Len(out')) + 1]
      BY <1>2, <3>1
    <3>. QED BY <2>0, <2>00, <3>1, <3>2
  <2>. QED BY <1>1, <2>1, <2>2, <2>3
<1>. HIDE DEF n
<1>8. Sent \in [1 .. n -> StreamItems] /\ Sent' \in [1 .. n -> StreamItems]
  BY <1>4, <1>5, <1>6
<1>9. Sent' = Sent
  <2>1. Sent = [i \in 1 .. n |-> Sent[i]] /\ Sent' = [i \in 1 .. n |-> Sent'[i]]
    BY <1>8
  <2>2. [i \in 1 .. n |-> Sent[i]] = [i \in 1 .. n |-> Sent'[i]]
    BY <1>7
  <2>. QED BY <2>1, <2>2
<1>. QED BY <1>2, <1>3, <1>9

\* An event is told of the open bus, and is lost on the closed one.
LEMMA Emitted ==
  ASSUME StreamInv, NEW e \in Stream!BusEvents, Stream!Emit(e)
  PROVE  /\ bus' \in Seq(Stream!BusEvents \cup {"close"}) /\ events' \in Seq(Stream!BusEvents)
         /\ Carries(Sent, events') /\ Len(events') \in Nat /\ Len(events) \in Nat
         /\ \A k \in 1 .. Len(events) : k \in 1 .. Len(events') /\ events'[k] = events[k]
         /\ ~streamClosed => e \in {events'[k] : k \in 1 .. Len(events')}
         /\ streamClosed => events' = events
         /\ bridge # "ended" => Holds(bus', Len(events') - Number(Sent), events', streamClosed)
<1>1. /\ Sent \in Seq(StreamItems) /\ Number(Sent) \in Nat /\ Len(events) \in Nat
      /\ events \in Seq(Stream!BusEvents) /\ bus \in Seq(Stream!BusEvents \cup {"close"}) /\
           streamClosed \in BOOLEAN
      /\ Carries(Sent, events)
  BY LineIs, LenProperties DEF StreamInv, StreamTyped
<1>2. bridge # "ended" => Holds(bus, Len(events) - Number(Sent), events, streamClosed)
  BY DEF StreamInv, BusMatches
<1>3. bus' \in Seq(Stream!BusEvents \cup {"close"})
  BY <1>1, AppendProperties DEF Stream!Emit
<1>4. CASE streamClosed
  <2>1. events' = events /\ bus' = Append(bus, e)
    BY <1>4 DEF Stream!Emit
  <2>2. bridge # "ended" => Holds(bus', Len(events) - Number(Sent), events, streamClosed)
    BY <1>1, <1>2, <1>4, <2>1, BusMoves
  <2>. QED BY <1>1, <1>3, <1>4, <2>1, <2>2
<1>5. CASE ~streamClosed
  <2>1. events' = Append(events, e) /\ bus' = Append(bus, e)
    BY <1>5 DEF Stream!Emit
  <2>2. /\ events' \in Seq(Stream!BusEvents) /\ Len(events') = Len(events) + 1
        /\ \A k \in 1 .. Len(events) : events'[k] = events[k]
        /\ events'[Len(events) + 1] = e
    BY <1>1, <2>1, AppendProperties
  <2>3. Carries(Sent, events')
    BY <1>1, <2>1, EventAdded
  <2>4. bridge # "ended" => Holds(bus', (Len(events) - Number(Sent)) + 1, events', streamClosed)
    BY <1>1, <1>2, <1>5, <2>1, BusMoves
  <2>5. (Len(events) - Number(Sent)) + 1 = Len(events') - Number(Sent)
    BY <1>1, <2>2
  <2>6. \A k \in 1 .. Len(events) : k \in 1 .. Len(events') /\ events'[k] = events[k]
    BY <1>1, <2>2
  <2>7. Len(events') \in Nat
    BY <1>1, <2>2
  <2>8. e \in {events'[k] : k \in 1 .. Len(events')}
    <3>1. Len(events) + 1 \in 1 .. Len(events')
      BY <1>1, <2>2
    <3>. QED BY <2>2, <3>1
  <2>9. bridge # "ended" => Holds(bus', Len(events') - Number(Sent), events', streamClosed)
    BY <2>4, <2>5
  <2>. QED BY <1>1, <1>3, <1>5, <2>2, <2>3, <2>6, <2>7, <2>8, <2>9
<1>. QED BY <1>4, <1>5

LEMMA StreamInit == Stream!Init => StreamInv
<1>. SUFFICES ASSUME Stream!Init PROVE StreamInv
  OBVIOUS
<1>1. /\ streamPc = "setup" /\ bridge = "none" /\ bus = <<>> /\ queue = <<>> /\ out = <<>>
      /\ streamClosed = FALSE /\ last = "none" /\ events = <<>> /\ slow = FALSE
  BY DEF Stream!Init
<1>2. StreamTyped
  BY <1>1, EmptySeq DEF StreamTyped
<1>3. Sent \in Seq(StreamItems) /\ Len(Sent) = 0 /\ Len(out) = 0
  BY <1>1, <1>2, LineIs, EmptySeq
<1>4. ToldIn(Sent) = {} /\ Number(Sent) = 0
  BY <1>3, StreamCounts, FS_EmptySet DEF ToldIn, Number
<1>5. Len(events) = 0 /\ Len(bus) = 0
  BY <1>1, EmptySeq
<1>6. Carries(Sent, events) /\ Holds(bus, Len(events) - Number(Sent), events, streamClosed)
  BY <1>1, <1>4, <1>5 DEF Carries, Holds
<1>7. StreamEnds
  BY <1>1, <1>3 DEF StreamEnds, Ordered
<1>. QED BY <1>1, <1>2, <1>6, <1>7 DEF StreamInv, BusMatches

\* Nothing is put and nothing emitted.
LEMMA QuietStep ==
  ASSUME StreamInv, Stream!RunReturns \/ Stream!Joined \/ Stream!JoinTimesOut \/ Stream!Record \/
           (Stream!CloseBus /\ streamClosed)
  PROVE  StreamInv'
<1>1. UNCHANGED <<bus, bridge, queue, out, streamClosed, last, events>> /\ (slow => slow')
  BY DEF Stream!RunReturns, Stream!Joined, Stream!JoinTimesOut, Stream!Record, Stream!CloseBus,
         StreamInv, StreamTyped
<1>2. Sent' = Sent
  BY <1>1 DEF Sent
<1>3. StreamTyped'
  BY <1>1
     DEF StreamInv, StreamTyped, Stream!RunReturns, Stream!Joined, Stream!JoinTimesOut,
         Stream!Record, Stream!CloseBus, Stream!Go
<1>4. Carries(Sent, events)'
  BY <1>1, <1>2 DEF StreamInv
<1>5. BusMatches'
  BY <1>1, <1>2
     DEF StreamInv, StreamTyped, BusMatches, Stream!RunReturns, Stream!Joined,
         Stream!JoinTimesOut, Stream!Record, Stream!CloseBus, Stream!Go
<1>6. Ordered(Sent, streamPc = "over", slow)'
  <2>1. streamPc # "over" /\ Ordered(Sent, FALSE, slow)
    BY DEF Stream!RunReturns, Stream!Joined, Stream!JoinTimesOut, Stream!Record,
           Stream!CloseBus, StreamInv, StreamEnds
  <2>. QED BY <1>1, <1>2, <2>1 DEF Ordered
<1>7. StreamEnds'
  BY <1>1, <1>2, <1>6
     DEF StreamInv, StreamTyped, StreamEnds, Stream!RunReturns, Stream!Joined,
         Stream!JoinTimesOut, Stream!Record, Stream!CloseBus, Stream!Go
<1>. QED BY <1>3, <1>4, <1>5, <1>7 DEF StreamInv

\* What the worker puts itself is no event of the bus.
LEMMA DirectIs ==
  ASSUME StreamInv, NEW e \in Stream!Direct, Stream!Put(e), UNCHANGED out
  PROVE  /\ queue' \in Seq(StreamItems) /\ Number(Sent') = Number(Sent)
         /\ Sent' = Append(Sent, e) /\ Sent \in Seq(StreamItems) /\ e \in StreamItems
         /\ \A ev \in Seq(Stream!BusEvents) : Carries(Sent, ev) => Carries(Sent', ev)
         /\ \A i \in 1 .. Len(Sent) : i \in 1 .. Len(Sent') /\ Sent'[i] = Sent[i]
         /\ e \in {Sent'[i] : i \in 1 .. Len(Sent')}
<1>1. e \in StreamItems /\ StreamTyped
  BY DEF StreamItems, StreamInv
<1>2. queue' \in Seq(StreamItems) /\ Sent' = Append(Sent, e) /\ Sent \in Seq(StreamItems)
  BY <1>1, PutIsLast, LineIs
<1>3. Number(Sent') = Number(Sent) /\ \A ev \in Seq(Stream!BusEvents) : Carries(Sent, ev) =>
        Carries(Sent', ev)
  <2>1. Number(Sent') = Number(Sent)
    BY <1>1, <1>2, PutLonger
  <2>. QED BY <1>2, <2>1, DirectPut
<1>4. /\ Len(Sent') = Len(Sent) + 1 /\ Len(Sent) \in Nat
      /\ \A i \in 1 .. Len(Sent) : Sent'[i] = Sent[i]
      /\ Sent'[Len(Sent) + 1] = e
  BY <1>1, <1>2, AppendProperties, LenProperties
<1>5. /\ \A i \in 1 .. Len(Sent) : i \in 1 .. Len(Sent') /\ Sent'[i] = Sent[i]
      /\ Len(Sent) + 1 \in 1 .. Len(Sent')
  BY <1>4
<1>. QED BY <1>1, <1>2, <1>3, <1>4, <1>5

\* The bridge is started.
LEMMA BridgeStartStep ==
  ASSUME StreamInv, streamPc = "setup", Stream!Go("condensing"), bridge' = "reads",
         UNCHANGED <<bus, queue, out, streamClosed, last, events, slow>>
  PROVE  StreamInv'
<1>1. streamPc' = "condensing" /\ Sent' = Sent
  BY DEF Stream!Go, Sent
<1>2. StreamTyped' /\ Carries(Sent, events)'
  BY <1>1 DEF StreamInv, StreamTyped
<1>3. BusMatches'
  BY <1>1 DEF StreamInv, BusMatches
<1>4. StreamEnds'
  BY <1>1 DEF StreamInv, StreamEnds, Ordered
<1>. QED BY <1>2, <1>3, <1>4 DEF StreamInv

LEMMA PutStep ==
  ASSUME StreamInv, NEW e \in Stream!Direct, Stream!Put(e),
         UNCHANGED <<bus, bridge, out, streamClosed, last, events, slow>>,
         \/ streamPc = "setup" /\ streamPc' = "leaving" /\ e = "error"
         \/ streamPc = "running" /\ streamPc' = "running" /\ e = "progress"
         \/ streamPc = "last" /\ e = last /\
              streamPc' = IF last = "result" THEN "recording" ELSE "leaving"
         \/ streamPc = "leaving" /\ streamPc' = "over" /\ e = "done"
  PROVE  StreamInv'
<1>1. /\ queue' \in Seq(StreamItems) /\ Number(Sent') = Number(Sent)
      /\ Sent' = Append(Sent, e) /\ Sent \in Seq(StreamItems) /\ e \in StreamItems
      /\ Carries(Sent', events)
      /\ \A i \in 1 .. Len(Sent) : i \in 1 .. Len(Sent') /\ Sent'[i] = Sent[i]
      /\ e \in {Sent'[i] : i \in 1 .. Len(Sent')}
  BY DirectIs DEF StreamInv, StreamTyped
<1>2. StreamTyped'
  BY <1>1 DEF StreamInv, StreamTyped
<1>3. BusMatches'
  BY <1>1 DEF StreamInv, BusMatches
<1>4. Ordered(Sent, streamPc = "over", slow)'
  <2>1. Ordered(Sent, FALSE, slow) /\ slow \in BOOLEAN
    BY DEF StreamInv, StreamTyped, StreamEnds
  <2>2. e = "done" => streamPc' = "over" /\ \E j \in 1 .. Len(Sent) :
          Sent[j] \in {"result", "error"}
    BY DEF StreamInv, StreamEnds
  <2>3. e = "result" /\ ~slow => \E j \in 1 .. Len(Sent) : Sent[j] = "run_complete"
    <3>. SUFFICES ASSUME e = "result", ~slow PROVE \E j \in 1 .. Len(Sent) : Sent[j] = "run_complete"
      OBVIOUS
    <3>1. streamPc = "last" /\ last = "result"
      BY DEF StreamInv, StreamEnds
    <3>2. PICK k \in 1 .. Len(events) : events[k] = "run_complete"
      BY <3>1 DEF StreamInv, StreamEnds
    <3>3. Number(Sent) = Len(events)
      BY <3>1 DEF StreamInv, StreamTyped, BusMatches
    <3>. QED BY <3>2, <3>3 DEF StreamInv, Carries
  <2>4. Ordered(Append(Sent, e), streamPc' = "over", slow)
    BY <1>1, <2>1, <2>2, <2>3, OrderedPut
  <2>. QED BY <1>1, <2>4
<1>5. StreamEnds'
  <2>1. streamPc' \in {"recording", "leaving", "over"} =>
          \E i \in 1 .. Len(Sent') : Sent'[i] \in {"result", "error"}
    <3>1. CASE streamPc = "leaving"
      <4>1. PICK i \in 1 .. Len(Sent) : Sent[i] \in {"result", "error"}
        BY <3>1 DEF StreamInv, StreamEnds
      <4>. QED BY <1>1, <4>1
    <3>2. CASE streamPc # "leaving" /\ streamPc' \in {"recording", "leaving", "over"}
      <4>1. e \in {"result", "error"}
        BY <3>2 DEF StreamInv, StreamEnds
      <4>. QED BY <1>1, <4>1
    <3>. QED BY <3>1, <3>2
  <2>2. streamPc' \notin {"closing", "joining", "last"}
    BY DEF StreamInv, StreamEnds
  <2>3. \A i \in 1 .. Len(out') : out'[i] = "done" => i = Len(out')
    BY DEF StreamInv, StreamEnds
  <2>. QED BY <1>4, <2>1, <2>2, <2>3 DEF StreamEnds
<1>. QED BY <1>1, <1>2, <1>3, <1>5 DEF StreamInv

LEMMA EmitStep ==
  ASSUME StreamInv, NEW e \in Stream!BusEvents, Stream!Emit(e),
         UNCHANGED <<bridge, queue, out, streamClosed, slow>>,
         \/ streamPc = "condensing" /\ streamPc' = "running" /\ UNCHANGED last
         \/ streamPc = "running" /\ Stream!Close("error")
         \/ streamPc = "reporting" /\ e = "run_complete" /\ Stream!Close("result")
  PROVE  StreamInv'
<1>1. /\ bus' \in Seq(Stream!BusEvents \cup {"close"}) /\ events' \in Seq(Stream!BusEvents)
      /\ Carries(Sent, events') /\ ~streamClosed
      /\ e \in {events'[k] : k \in 1 .. Len(events')}
      /\ bridge # "ended" => Holds(bus', Len(events') - Number(Sent), events', streamClosed)
  BY Emitted DEF StreamInv, BusMatches
<1>2. Sent' = Sent
  BY DEF Sent
<1>3. StreamTyped'
  BY <1>1 DEF StreamInv, StreamTyped, Stream!Close, Stream!Go
<1>4. BusMatches'
  BY <1>1, <1>2 DEF StreamInv, BusMatches, Stream!Close, Stream!Go
<1>5. StreamEnds'
  <2>1. Ordered(Sent, streamPc = "over", slow)'
    BY <1>2 DEF StreamInv, StreamEnds, Stream!Close, Stream!Go
  <2>2. streamPc' \in {"closing", "joining", "last"} =>
          /\ last' \in {"result", "error"}
          /\ last' = "result" => \E k \in 1 .. Len(events') : events'[k] = "run_complete"
    BY <1>1 DEF Stream!Close, Stream!Go
  <2>. QED BY <2>1, <2>2 DEF StreamInv, StreamEnds, Stream!Close, Stream!Go
<1>. QED BY <1>1, <1>2, <1>3, <1>4, <1>5 DEF StreamInv

LEMMA CondenseStep ==
  ASSUME StreamInv, streamPc = "condensing", streamPc' = "running",
         UNCHANGED <<bus, events, bridge, queue, out, streamClosed, last, slow>>
  PROVE  StreamInv'
<1>1. Sent' = Sent
  BY DEF Sent
<1>2. StreamTyped' /\ Carries(Sent, events)' /\ BusMatches'
  BY <1>1 DEF StreamInv, StreamTyped, BusMatches
<1>3. StreamEnds'
  BY <1>1 DEF StreamInv, StreamEnds, Ordered
<1>. QED BY <1>2, <1>3 DEF StreamInv

LEMMA RaisesStep == ASSUME StreamInv, Stream!Raises PROVE StreamInv'
<1>1. /\ streamPc \in {"condensing", "running", "reporting", "recording"}
      /\ Stream!Emit("run_failed") /\ Stream!Put("error") /\ streamPc' = "closing" /\
           last' = "error"
      /\ UNCHANGED <<bridge, out, streamClosed, slow>>
  BY DEF Stream!Raises, Stream!Close, Stream!Go
<1>2. /\ bus' \in Seq(Stream!BusEvents \cup {"close"}) /\ events' \in Seq(Stream!BusEvents)
      /\ Carries(Sent, events')
      /\ bridge # "ended" => Holds(bus', Len(events') - Number(Sent), events', streamClosed)
      /\ streamClosed => events' = events
  BY <1>1, Emitted DEF Stream!BusEvents
<1>3. /\ queue' \in Seq(StreamItems) /\ Number(Sent') = Number(Sent)
      /\ Sent' = Append(Sent, "error") /\ Sent \in Seq(StreamItems) /\ "error" \in StreamItems
      /\ Carries(Sent', events')
  BY <1>1, <1>2, DirectIs DEF Stream!Direct
<1>4. StreamTyped'
  BY <1>1, <1>2, <1>3 DEF StreamInv, StreamTyped
<1>5. BusMatches'
  BY <1>1, <1>2, <1>3 DEF StreamInv, StreamTyped, BusMatches
<1>6. Ordered(Sent, streamPc = "over", slow)'
  <2>1. Ordered(Sent, FALSE, slow) /\ slow \in BOOLEAN
    BY <1>1 DEF StreamInv, StreamTyped, StreamEnds
  <2>2. Ordered(Append(Sent, "error"), FALSE, slow)
    BY <1>3, <2>1, OrderedPut
  <2>. QED BY <1>1, <1>3, <2>2
<1>7. StreamEnds'
  BY <1>1, <1>6 DEF StreamInv, StreamEnds
<1>. QED BY <1>3, <1>4, <1>5, <1>7 DEF StreamInv

LEMMA CloseStep == ASSUME StreamInv, Stream!CloseBus, ~streamClosed PROVE StreamInv'
<1>1. /\ streamPc = "closing" /\ streamPc' = "joining" /\ streamClosed' = TRUE /\
           bus' = Append(bus, "close")
      /\ UNCHANGED <<bridge, queue, out, last, events, slow>>
  BY DEF Stream!CloseBus, Stream!Go
<1>2. /\ bridge = "reads"
      /\ Holds(bus, Len(events) - Number(Sent), events, streamClosed)
  BY <1>1 DEF StreamInv, StreamTyped, BusMatches
<1>3. /\ bus' \in Seq(Stream!BusEvents \cup {"close"})
      /\ Holds(bus', Len(events) - Number(Sent), events, TRUE)
  BY <1>1, <1>2, BusMoves DEF StreamInv, StreamTyped
<1>4. Sent' = Sent
  BY <1>1 DEF Sent
<1>5. StreamTyped'
  BY <1>1, <1>3 DEF StreamInv, StreamTyped
<1>6. BusMatches'
  BY <1>1, <1>2, <1>3, <1>4 DEF BusMatches
<1>7. Carries(Sent, events)' /\ StreamEnds'
  BY <1>1, <1>4 DEF StreamInv, StreamEnds, Ordered
<1>. QED BY <1>5, <1>6, <1>7 DEF StreamInv

LEMMA BridgeStep == ASSUME StreamInv, Stream!Bridge PROVE StreamInv'
<1>. DEFINE r == Len(events) - Number(Sent)
<1>1. /\ bridge = "reads" /\ bus # <<>> /\ bus' = Tail(bus)
      /\ UNCHANGED <<streamPc, out, streamClosed, last, events, slow>>
  BY DEF Stream!Bridge
<1>2. /\ bus \in Seq(Stream!BusEvents \cup {"close"}) /\ events \in Seq(Stream!BusEvents)
      /\ streamClosed \in BOOLEAN /\ slow \in BOOLEAN
      /\ Sent \in Seq(StreamItems) /\ Number(Sent) \in Nat /\ Len(events) \in Nat
      /\ Carries(Sent, events) /\ Holds(bus, r, events, streamClosed)
  BY <1>1, LineIs, LenProperties DEF StreamInv, StreamTyped, BusMatches
<1>. HIDE DEF r
<1>3. /\ bus' \in Seq(Stream!BusEvents \cup {"close"})
      /\ Head(bus) = "close" => r = 0 /\ streamClosed
      /\ Head(bus) # "close" =>
           r > 0 /\ Head(bus) = events[Len(events) - r + 1] /\
             Holds(bus', r - 1, events, streamClosed)
  <2>1. /\ Tail(bus) \in Seq(Stream!BusEvents \cup {"close"})
        /\ Head(bus) = "close" => r = 0 /\ streamClosed
        /\ Head(bus) # "close" =>
             r > 0 /\ Head(bus) = events[Len(events) - r + 1] /\
               Holds(Tail(bus), r - 1, events, streamClosed)
    BY <1>1, <1>2, BusTaken
  <2>. QED BY <1>1, <2>1
<1>4. CASE Head(bus) = "close"
  <2>1. bridge' = "ended" /\ UNCHANGED queue /\ Number(Sent) = Len(events) /\ streamClosed
    BY <1>2, <1>3, <1>4 DEF Stream!Bridge, r
  <2>2. Sent' = Sent
    BY <1>1, <2>1 DEF Sent
  <2>3. StreamTyped' /\ Carries(Sent, events)'
    BY <1>1, <1>3, <2>1, <2>2 DEF StreamInv, StreamTyped
  <2>4. BusMatches'
    BY <1>1, <2>1, <2>2 DEF StreamInv, BusMatches
  <2>5. StreamEnds'
    BY <1>1, <2>1, <2>2 DEF StreamInv, StreamEnds, Ordered
  <2>. QED BY <2>3, <2>4, <2>5 DEF StreamInv
<1>5. CASE Head(bus) # "close"
  <2>. DEFINE e == events[Number(Sent) + 1]
  <2>1. Len(events) - r + 1 = Number(Sent) + 1 /\ Number(Sent) < Len(events)
    BY <1>2, <1>3, <1>5 DEF r
  <2>2. UNCHANGED bridge /\ Stream!Put(e)
    BY <1>3, <1>5, <2>1 DEF Stream!Bridge
  <2>3. e \in Stream!BusEvents /\ Carries(Append(Sent, e), events) /\
          Number(Append(Sent, e)) = Number(Sent) + 1
    BY <1>2, <2>1, EventPut
  <2>. HIDE DEF e
  <2>4. queue' \in Seq(StreamItems) /\ Sent' = Append(Sent, e) /\ e \in StreamItems
    BY <1>1, <2>2, <2>3, PutIsLast DEF StreamItems, StreamInv
  <2>5. StreamTyped' /\ Carries(Sent, events)'
    BY <1>1, <1>3, <2>2, <2>3, <2>4 DEF StreamInv, StreamTyped
  <2>6. Len(events) - Number(Sent') = r - 1
    BY <1>2, <2>3, <2>4 DEF r
  <2>7. BusMatches'
    BY <1>1, <1>3, <1>5, <2>2, <2>6 DEF StreamInv, BusMatches
  <2>8. Ordered(Sent, streamPc = "over", slow)'
    <3>1. Ordered(Sent, streamPc = "over", slow) /\ (streamPc = "over" => slow)
      <4>1. Ordered(Sent, streamPc = "over", slow)
        BY DEF StreamInv, StreamEnds
      <4>2. streamPc = "over" => slow
        <5>1. streamPc = "over" => slow \/ bridge # "reads"
          BY DEF StreamInv, BusMatches
        <5>. QED BY <1>1, <5>1
      <4>. QED BY <4>1, <4>2
    <3>2. e \notin {"done", "result"}
      BY <2>3 DEF Stream!BusEvents
    <3>3. Ordered(Append(Sent, e), streamPc = "over", slow)
      BY <1>2, <2>4, <3>1, <3>2, OrderedPut
    <3>. QED BY <1>1, <2>4, <3>3
  <2>9. StreamEnds'
    <3>1. \A i \in 1 .. Len(Sent) : i \in 1 .. Len(Sent') /\ Sent'[i] = Sent[i]
      <4>1. Len(Sent') = Len(Sent) + 1 /\ Len(Sent) \in Nat /\ \A i \in 1 .. Len(Sent) :
              Sent'[i] = Sent[i]
        BY <1>2, <2>4, AppendProperties, LenProperties
      <4>. QED BY <4>1
    <3>2. streamPc' \in {"recording", "leaving", "over"} =>
            \E i \in 1 .. Len(Sent') : Sent'[i] \in {"result", "error"}
      <4>. SUFFICES ASSUME streamPc \in {"recording", "leaving", "over"}
                    PROVE  \E i \in 1 .. Len(Sent') : Sent'[i] \in {"result", "error"}
        BY <1>1
      <4>1. PICK i \in 1 .. Len(Sent) : Sent[i] \in {"result", "error"}
        BY DEF StreamInv, StreamEnds
      <4>. QED BY <3>1, <4>1
    <3>. QED BY <1>1, <2>8, <3>2 DEF StreamInv, StreamEnds
  <2>. QED BY <2>5, <2>7, <2>9 DEF StreamInv
<1>. QED BY <1>4, <1>5

LEMMA GenerateStep == ASSUME StreamInv, Stream!Generate PROVE StreamInv'
<1>1. /\ UNCHANGED <<streamPc, bus, bridge, streamClosed, last, events, slow>>
      /\ out' \in Seq(StreamItems) /\ queue' \in Seq(StreamItems) /\ Sent' = Sent
      /\ Len(out') = Len(out) + 1 /\ \A i \in 1 .. Len(out) : out'[i] = out[i]
      /\ Len(out) \in Nat /\ DOMAIN out = 1 .. Len(out)
  BY ReadKeepsLine, LenProperties DEF Stream!Generate, StreamInv, StreamTyped
<1>2. \A i \in 1 .. Len(out) : out[i] # "done"
  BY <1>1 DEF Stream!Generate, Stream!Range
<1>3. \A i \in 1 .. Len(out') : out'[i] = "done" => i = Len(out')
  BY <1>1, <1>2
<1>4. StreamTyped' /\ Carries(Sent, events)' /\ BusMatches'
  BY <1>1 DEF StreamInv, StreamTyped, BusMatches
<1>5. StreamEnds'
  BY <1>1, <1>3 DEF StreamInv, StreamEnds
<1>. QED BY <1>4, <1>5 DEF StreamInv

-----------------------------------------------------------------------------
\* The inductive invariant: what was put holds the first of the events, the bus
\* the rest of them and the sentinel.
THEOREM StreamInductive == Stream!Spec => []StreamInv
<1>1. StreamInv /\ [Stream!Next]_(Stream!vars) => StreamInv'
  <2>. SUFFICES ASSUME StreamInv, [Stream!Next]_(Stream!vars) PROVE StreamInv'
    OBVIOUS
  <2>1. CASE Stream!Setup
    <3>1. CASE Stream!Go("leaving") /\ Stream!Put("error") /\ UNCHANGED bridge
      BY <2>1, <3>1, PutStep DEF Stream!Setup, Stream!Go, Stream!Direct
    <3>. QED BY <2>1, <3>1, BridgeStartStep DEF Stream!Setup
  <2>2. CASE Stream!Condense
    <3>1. CASE Stream!Emit("context_condensed")
      BY <2>2, <3>1, EmitStep DEF Stream!Condense, Stream!Go, Stream!BusEvents
    <3>. QED BY <2>2, <3>1, CondenseStep DEF Stream!Condense, Stream!Go
  <2>3. CASE Stream!Progress
    BY <2>3, PutStep DEF Stream!Progress, Stream!Direct
  <2>4. CASE Stream!RunFails \/ Stream!Report
    BY <2>4, EmitStep DEF Stream!RunFails, Stream!Report, Stream!BusEvents
  <2>5. CASE Stream!PutLast
    <3>1. last \in Stream!Direct
      BY <2>5 DEF Stream!PutLast, StreamInv, StreamEnds, Stream!Direct
    <3>. QED BY <2>5, <3>1, PutStep DEF Stream!PutLast, Stream!Go
  <2>6. CASE Stream!Leave
    BY <2>6, PutStep DEF Stream!Leave, Stream!Go, Stream!Direct
  <2>7. CASE Stream!RunReturns \/ Stream!Joined \/ Stream!JoinTimesOut \/ Stream!Record \/ Stream!CloseBus
    BY <2>7, QuietStep, CloseStep
  <2>8. CASE UNCHANGED Stream!vars
    <3>1. Sent' = Sent
      BY <2>8 DEF Stream!vars, Sent
    <3>2. StreamTyped' /\ Carries(Sent, events)' /\ BusMatches'
      BY <2>8, <3>1 DEF Stream!vars, StreamInv, StreamTyped, BusMatches
    <3>3. StreamEnds'
      BY <2>8, <3>1 DEF Stream!vars, StreamInv, StreamEnds
    <3>. QED BY <3>2, <3>3 DEF StreamInv
  <2>. QED BY <2>1, <2>2, <2>3, <2>4, <2>5, <2>6, <2>7, <2>8, RaisesStep, BridgeStep,
              GenerateStep
              DEF Stream!Next
<1>. QED BY <1>1, StreamInit, PTL DEF Stream!Spec

\* A finished stream is complete and in order (RunStream's StreamIsComplete).
THEOREM StreamComplete == Stream!Spec => []Stream!StreamIsComplete
<1>1. StreamInv => Stream!StreamIsComplete
  <2>. SUFFICES ASSUME StreamInv PROVE Stream!StreamIsComplete
    OBVIOUS
  <2>1. /\ Sent \in Seq(StreamItems) /\ Len(Sent) = Len(out) + Len(queue)
        /\ Len(out) \in Nat /\ Len(queue) \in Nat /\ Number(Sent) \in Nat
        /\ \A i \in 1 .. Len(out) : Sent[i] = out[i]
        /\ DOMAIN out = 1 .. Len(out)
    BY LineIs, LenProperties DEF StreamInv, StreamTyped
  <2>2. Stream!Told \subseteq ToldIn(Sent) /\ \A j \in ToldIn(Sent) : j \in 1 .. Len(out) =>
          j \in Stream!Told
    BY <2>1 DEF Stream!Told, ToldIn
  <2>3. \A i \in Stream!Told : Stream!Nth(i) <= Len(events) /\ out[i] = events[Stream!Nth(i)]
    <3>. SUFFICES ASSUME NEW i \in Stream!Told PROVE Stream!Nth(i) <= Len(events) /\ out[i] = events[Stream!Nth(i)]
      OBVIOUS
    <3>0. i \in 1 .. Len(out)
      BY <2>1 DEF Stream!Told
    <3>1. {j \in Stream!Told : j <= i} = {j \in ToldIn(Sent) : j <= i}
      <4>1. \A j \in ToldIn(Sent) : j <= i => j \in 1 .. Len(out)
        BY <2>1, <3>0 DEF ToldIn
      <4>. QED BY <2>2, <4>1
    <3>2. NthIn(Sent, i) = Stream!Nth(i)
      BY <3>1 DEF NthIn, Stream!Nth
    <3>3. NthIn(Sent, i) \in 1 .. Len(events) /\ Sent[i] = events[NthIn(Sent, i)]
      BY <2>2 DEF StreamInv, Carries
    <3>. QED BY <2>1, <3>0, <3>2, <3>3
  <2>4. ASSUME "done" \in Stream!Range(out)
        PROVE  /\ ~slow => Stream!Cardinality(Stream!Told) = Len(events)
               /\ {"result", "error"} \cap Stream!Range(out) # {}
               /\ out[Len(out)] = "done"
    <3>1. PICK i \in 1 .. Len(out) : out[i] = "done"
      BY <2>1, <2>4 DEF Stream!Range
    <3>2. i = Len(out) /\ Sent[i] = "done" /\ i \in 1 .. Len(Sent)
      <4>1. i = Len(out)
        BY <3>1 DEF StreamInv, StreamEnds
      <4>. QED BY <2>1, <3>1, <4>1
    <3>3. streamPc = "over" /\ (~slow => i = Len(Sent))
      BY <3>2 DEF StreamInv, StreamEnds, Ordered
    <3>4. PICK j \in 1 .. i : Sent[j] \in {"result", "error"}
      BY <3>2 DEF StreamInv, StreamEnds, Ordered
    <3>5. out[j] \in {"result", "error"} /\ j \in DOMAIN out
      BY <2>1, <3>2, <3>4
    <3>6. ASSUME ~slow PROVE Stream!Cardinality(Stream!Told) = Len(events)
      <4>1. Stream!Told = ToldIn(Sent)
        BY <2>1, <2>2, <3>2, <3>3, <3>6 DEF ToldIn
      <4>2. Number(Sent) = Len(events)
        <5>1. CASE bridge = "ended"
          BY <5>1 DEF StreamInv, BusMatches
        <5>2. CASE bridge # "ended"
          <6>0. streamPc = "over" => slow \/ bridge # "reads"
            BY DEF StreamInv, BusMatches
          <6>1. bridge # "reads" /\ bridge \in {"none", "reads", "ended"}
            BY <3>3, <3>6, <6>0 DEF StreamInv, StreamTyped
          <6>3. events = <<>>
            BY <5>2, <6>1 DEF StreamInv, BusMatches
          <6>2. Len(events) = 0 /\ Number(Sent) <= Len(events)
            BY <6>3, EmptySeq DEF StreamInv, Carries
          <6>. QED BY <2>1, <6>2
        <5>. QED BY <5>1, <5>2
      <4>. QED BY <4>1, <4>2 DEF Number
    <3>. QED BY <3>1, <3>2, <3>5, <3>6 DEF Stream!Range
  <2>5. ASSUME "result" \in Stream!Range(out), ~slow PROVE "run_complete" \in Stream!Range(out)
    <3>1. PICK i \in 1 .. Len(out) : out[i] = "result"
      BY <2>1, <2>5 DEF Stream!Range
    <3>2. Sent[i] = "result" /\ i \in 1 .. Len(Sent)
      BY <2>1, <3>1
    <3>3. PICK j \in 1 .. i : Sent[j] = "run_complete"
      BY <2>5, <3>2 DEF StreamInv, StreamEnds, Ordered
    <3>4. out[j] = "run_complete" /\ j \in DOMAIN out
      BY <2>1, <3>1, <3>3
    <3>. QED BY <3>4 DEF Stream!Range
  <2>. QED BY <2>3, <2>4, <2>5 DEF Stream!StreamIsComplete
<1>. QED BY <1>1, StreamInductive, PTL

\* The sequences hold what TypeOK of RunStream says.
THEOREM StreamTypes == Stream!Spec => []Stream!TypeOK
<1>1. StreamInv => Stream!TypeOK
  <2>. SUFFICES ASSUME StreamInv PROVE Stream!TypeOK
    OBVIOUS
  <2>1. /\ Stream!Range(bus) \subseteq Stream!BusEvents \cup {"close"}
        /\ Stream!Range(queue) \subseteq StreamItems /\ Stream!Range(out) \subseteq StreamItems
        /\ Stream!Range(events) \subseteq Stream!BusEvents
    BY DEF StreamInv, StreamTyped, Stream!Range
  <2>2. bridge = "ended" => streamClosed
    BY DEF StreamInv, BusMatches
  <2>. QED BY <2>1, <2>2 DEF StreamInv, StreamTyped, Stream!TypeOK, StreamItems
<1>. QED BY <1>1, StreamInductive, PTL

-----------------------------------------------------------------------------
(* Induction, said of a set: the numbers that have a property; powers of two. *)

LEMMA Below == IsWellFoundedOn({r \in Nat \X Nat : r[1] < r[2]}, Nat)
BY NatLessThanWellFounded DEF OpToRel

LEMMA Smallest ==
  ASSUME NEW T, T \subseteq Nat, T # {}
  PROVE  \E x \in T : \A y \in T : x <= y
<1>1. PICK x \in T : \A y \in T : <<y, x>> \notin {r \in Nat \X Nat : r[1] < r[2]}
  BY Below, WFMin
<1>2. ASSUME NEW y \in T PROVE x <= y
  <2>1. <<y, x>> \in Nat \X Nat /\ x \in Nat /\ y \in Nat
    OBVIOUS
  <2>2. ~(y < x)
    BY <1>1, <2>1
  <2>. QED BY <2>1, <2>2
<1>. QED BY <1>2

LEMMA AllNumbers ==
  ASSUME NEW T, 0 \in T, \A n \in T \cap Nat : n + 1 \in T
  PROVE  Nat \subseteq T
<1>1. SUFFICES ASSUME Nat \ T # {} PROVE FALSE
  OBVIOUS
<1>2. PICK x \in Nat \ T : \A y \in Nat \ T : x <= y
  BY <1>1, Smallest
<1>3. x # 0 /\ x - 1 \in Nat
  BY <1>2
<1>4. x - 1 \in T
  BY <1>2, <1>3
<1>5. (x - 1) + 1 \in T
  BY <1>3, <1>4
<1>6. (x - 1) + 1 = x
  BY <1>3
<1>. QED BY <1>2, <1>5, <1>6

\* A power of two is the number of subsets, and there are more of a larger set.
LEMMA Powers ==
  ASSUME NEW m \in Nat
  PROVE  2 ^ m \in Nat /\ \A a \in 0 .. m : 2 ^ a \in 1 .. 2 ^ m
<1>1. ASSUME NEW n \in Nat
      PROVE  /\ IsFiniteSet(SUBSET (1 .. n)) /\ Cardinality(SUBSET (1 .. n)) = 2 ^ n
             /\ 2 ^ n \in Nat /\ 2 ^ n # 0
  <2>1. IsFiniteSet(1 .. n) /\ Cardinality(1 .. n) = n
    BY FS_Interval
  <2>2. IsFiniteSet(SUBSET (1 .. n)) /\ Cardinality(SUBSET (1 .. n)) = 2 ^ n
    BY <2>1, FS_SUBSET
  <2>3. SUBSET (1 .. n) # {}
    OBVIOUS
  <2>. QED BY <2>2, <2>3, FS_CardinalityType, FS_EmptySet
<1>2. ASSUME NEW a \in 0 .. m PROVE 2 ^ a \in 1 .. 2 ^ m
  <2>1. SUBSET (1 .. a) \subseteq SUBSET (1 .. m) /\ a \in Nat
    OBVIOUS
  <2>2. Cardinality(SUBSET (1 .. a)) <= Cardinality(SUBSET (1 .. m))
    BY <1>1, <2>1, FS_Subset
  <2>3. /\ 2 ^ a <= 2 ^ m /\ 2 ^ a \in Nat /\ 2 ^ a # 0 /\ 2 ^ m \in Nat
    BY <1>1, <2>1, <2>2
  <2>. QED BY <2>3
<1>. QED BY <1>1, <1>2

-----------------------------------------------------------------------------
(* THE MODEL CLIENT                                                          *)

\* Symbols are the characters an answer is made of.
CONSTANTS MaxRetries, Replies, Symbols
VARIABLES use, clientState, prompt, attempt, waiting, cancelled, reply, found, log, outcome

Client == INSTANCE LlmClient WITH state <- clientState

LEMMA ClientCounts == \A S : Client!Cardinality(S) = Cardinality(S)
BY DEF Client!Cardinality, Cardinality

\* The scan for the object of an answer.

Outside == [depth |-> 0, inString |-> FALSE, escape |-> FALSE]

\* The state after a character.
After(was, c) ==
  [depth |-> CASE was.inString -> was.depth
               [] ~was.inString /\ c = "{" -> was.depth + 1
               [] ~was.inString /\ c = "}" -> was.depth - 1
               [] OTHER -> was.depth,
   inString |-> IF c = "quote" /\ ~was.escape THEN ~was.inString ELSE was.inString,
   escape |-> was.inString /\ ~was.escape /\ c = "back"]

Scans(at, text, first, end) ==
  at = [k \in first - 1 .. end |-> IF k < first THEN Outside ELSE After(at[k - 1], text[k])]

\* There is a scan of every text.
LEMMA ScanExists ==
  ASSUME NEW text, NEW first \in Nat \ {0}, NEW n \in Nat
  PROVE  \E at : Scans(at, text, first, first - 1 + n)
<1>. DEFINE T == {m \in Nat : \E at : Scans(at, text, first, first - 1 + m)}
<1>1. 0 \in T
  <2>1. Scans([k \in first - 1 .. first - 1 |-> Outside], text, first, first - 1 + 0)
    BY DEF Scans
  <2>. QED BY <2>1
<1>2. ASSUME NEW m \in T PROVE m + 1 \in T
  <2>1. PICK at : Scans(at, text, first, first - 1 + m)
    OBVIOUS
  <2>. DEFINE new == [k \in first - 1 .. first - 1 + (m + 1) |->
                        IF k <= first - 1 + m THEN at[k] ELSE After(at[k - 1], text[k])]
  <2>2. \A k \in first - 1 .. first - 1 + m :
          at[k] = IF k < first THEN Outside ELSE After(at[k - 1], text[k])
    BY <2>1 DEF Scans
  <2>3. \A k \in first - 1 .. first - 1 + (m + 1) :
          new[k] = IF k < first THEN Outside ELSE After(new[k - 1], text[k])
    <3>. TAKE k \in first - 1 .. first - 1 + (m + 1)
    <3>1. CASE k < first
      BY <2>2, <3>1
    <3>2. CASE k >= first
      <4>1. k - 1 \in first - 1 .. first - 1 + m /\ new[k - 1] = at[k - 1]
        BY <3>2
      <4>2. new[k] = After(at[k - 1], text[k])
        BY <2>2, <3>2
      <4>. QED BY <3>2, <4>1, <4>2
    <3>. QED BY <3>1, <3>2
  <2>4. Scans(new, text, first, first - 1 + (m + 1))
    BY <2>3 DEF Scans
  <2>. QED BY <2>4
<1>3. n \in T
  BY <1>1, <1>2, AllNumbers
<1>. QED BY <1>3

\* ScanFrom is one.
LEMMA ScanSteps ==
  ASSUME NEW S, NEW text \in Seq(S), NEW first \in 1 .. Len(text) + 1
  PROVE  /\ Client!ScanFrom(text, first)[first - 1] = Outside
         /\ \A k \in first .. Len(text) :
              Client!ScanFrom(text, first)[k] = After(Client!ScanFrom(text, first)[k - 1], text[k])
<1>. DEFINE at == Client!ScanFrom(text, first)
<1>1. PICK b : Scans(b, text, first, Len(text))
  <2>. DEFINE n == Len(text) - first + 1
  <2>1. first \in Nat \ {0} /\ n \in Nat /\ first - 1 + n = Len(text)
    OBVIOUS
  <2>. HIDE DEF n
  <2>2. \E b : Scans(b, text, first, first - 1 + n)
    BY <2>1, ScanExists
  <2>. QED BY <2>1, <2>2
<1>2. Scans(at, text, first, Len(text))
  BY <1>1 DEF Client!ScanFrom, Scans, After, Outside
<1>. QED BY <1>2 DEF Scans

\* What a scan finds of a part of a text does not depend on where it is.
LEMMA ScanMoves ==
  ASSUME NEW S, NEW text \in Seq(S), NEW sub \in Seq(S), NEW off \in Nat,
         NEW first \in 1 .. Len(sub) + 1, off + Len(sub) <= Len(text),
         \A k \in first .. Len(sub) : text[off + k] = sub[k]
  PROVE  \A k \in first - 1 .. Len(sub) :
            Client!ScanFrom(text, off + first)[off + k] = Client!ScanFrom(sub, first)[k]
<1>. DEFINE at == Client!ScanFrom(text, off + first)
            of == Client!ScanFrom(sub, first)
            T == {m \in Nat : first - 1 + m <= Len(sub)
                                => at[off + (first - 1 + m)] = of[first - 1 + m]}
<1>1. /\ at[off + first - 1] = Outside
      /\ \A k \in off + first .. Len(text) : at[k] = After(at[k - 1], text[k])
  <2>1. off + first \in 1 .. Len(text) + 1
    OBVIOUS
  <2>. QED BY <2>1, ScanSteps
<1>2. /\ of[first - 1] = Outside
      /\ \A k \in first .. Len(sub) : of[k] = After(of[k - 1], sub[k])
  BY ScanSteps
<1>. HIDE DEF at, of
<1>3. 0 \in T
  <2>1. off + (first - 1 + 0) = off + first - 1 /\ first - 1 + 0 = first - 1
    OBVIOUS
  <2>. QED BY <1>1, <1>2, <2>1
<1>4. ASSUME NEW m \in T PROVE m + 1 \in T
  <2>. DEFINE k == first - 1 + (m + 1)
  <2>1. SUFFICES ASSUME k <= Len(sub) PROVE at[off + k] = of[k]
    OBVIOUS
  <2>0. m \in Nat /\ Len(sub) \in Nat /\ Len(text) \in Nat /\ first \in Nat \ {0}
    OBVIOUS
  <2>2. /\ k \in first .. Len(sub) /\ off + k \in off + first .. Len(text)
        /\ k - 1 = first - 1 + m /\ off + k - 1 = off + (first - 1 + m)
        /\ first - 1 + m <= Len(sub)
    BY <2>0, <2>1
  <2>3. at[off + k - 1] = of[k - 1]
    BY <2>2
  <2>4. at[off + k] = After(at[off + k - 1], text[off + k])
    BY <1>1, <2>2
  <2>5. of[k] = After(of[k - 1], sub[k])
    BY <1>2, <2>2
  <2>. QED BY <2>2, <2>3, <2>4, <2>5
<1>5. Nat \subseteq T
  BY <1>3, <1>4, AllNumbers
<1>6. ASSUME NEW k \in first - 1 .. Len(sub) PROVE at[off + k] = of[k]
  <2>1. k - (first - 1) \in Nat /\ first - 1 + (k - (first - 1)) = k
    OBVIOUS
  <2>2. k - (first - 1) \in T
    BY <1>5, <2>1
  <2>. QED BY <2>1, <2>2
<1>. QED BY <1>6 DEF at, of

Brace == "{"
Shut == "}"
Opens(text) == {k \in DOMAIN text : text[k] = Brace}
Least(S) == CHOOSE k \in S : \A j \in S : k <= j
Closes(text, first) ==
  {k \in first .. Len(text) :
     /\ text[k] = Shut /\ ~Client!ScanFrom(text, first)[k - 1].inString
     /\ Client!ScanFrom(text, first)[k].depth = 0}

LEMMA LeastIs ==
  ASSUME NEW S, S \subseteq Nat
  PROVE  /\ S # {} => Least(S) \in S /\ \A j \in S : Least(S) <= j
         /\ \A k \in S : (\A j \in S : k <= j) => Least(S) = k
<1>1. ASSUME S # {} PROVE Least(S) \in S /\ \A j \in S : Least(S) <= j
  <2>1. \E k \in S : \A j \in S : k <= j
    BY <1>1, Smallest
  <2>. QED BY <2>1 DEF Least
<1>2. ASSUME NEW k \in S, \A j \in S : k <= j PROVE Least(S) = k
  <2>1. Least(S) \in S /\ Least(S) <= k
    BY <1>1
  <2>2. k <= Least(S) /\ k \in Nat /\ Least(S) \in Nat
    BY <1>2, <2>1
  <2>. QED BY <2>1, <2>2
<1>. QED BY <1>1, <1>2

LEMMA Finds ==
  ASSUME NEW text
  PROVE  LET first == Least(Opens(text)) IN
         Client!FindBalanced(text) =
           IF Opens(text) = {} \/ Closes(text, first) = {} THEN <<>>
           ELSE SubSeq(text, first, Least(Closes(text, first)))
BY DEF Client!FindBalanced, Brace, Shut, Opens, Closes, Least

LEMMA BracesIn ==
  ASSUME NEW text, NEW first \in Nat, Len(text) \in Nat, DOMAIN text = 1 .. Len(text)
  PROVE  /\ Opens(text) \subseteq 1 .. Len(text) /\ Opens(text) \subseteq Nat
         /\ Closes(text, first) \subseteq first .. Len(text) /\ Closes(text, first) \subseteq Nat
         /\ \A k \in Opens(text) : text[k] = Brace
<1>1. /\ Opens(text) \subseteq 1 .. Len(text) /\ \A k \in Opens(text) : text[k] = Brace
  BY DEF Opens
<1>2. Closes(text, first) \subseteq first .. Len(text)
  BY Zenon DEF Closes
<1>3. 1 .. Len(text) \subseteq Nat /\ first .. Len(text) \subseteq Nat
  OBVIOUS
<1>. QED BY <1>1, <1>2, <1>3

\* A text holds another from a place on that no brace comes before.
HoldsAt(text, sub, off) ==
  /\ off + Len(sub) <= Len(text)
  /\ \A k \in 1 .. Len(sub) : text[off + k] = sub[k]
  /\ \A k \in 1 .. off : text[k] # Brace
IsFirst(first, text) == first = Least(Opens(text))

\* The first brace of a part is that of a text that has none before it, and
\* the braces that close it are the same.
LEMMA Inside ==
  ASSUME NEW S, NEW text \in Seq(S), NEW sub \in Seq(S), NEW off \in Nat,
         HoldsAt(text, sub, off), Opens(sub) # {}, NEW first, IsFirst(first, sub)
  PROVE  /\ first \in 1 .. Len(sub) /\ sub[first] = Brace
         /\ Opens(text) # {} /\ Least(Opens(text)) = off + first
         /\ \A k \in first .. Len(sub) :
              off + k \in Closes(text, off + first) <=> k \in Closes(sub, first)
<1>. USE DEF HoldsAt
<1>0. /\ Len(sub) \in Nat /\ Len(text) \in Nat
      /\ DOMAIN sub = 1 .. Len(sub) /\ DOMAIN text = 1 .. Len(text)
  OBVIOUS
<1>1. first \in Opens(sub) /\ \A j \in Opens(sub) : first <= j
  <2>1. Opens(sub) \subseteq Nat
    BY <1>0, BracesIn
  <2>2. first = Least(Opens(sub))
    BY DEF IsFirst
  <2>. QED BY <2>1, <2>2, LeastIs
<1>2. first \in 1 .. Len(sub) /\ sub[first] = Brace
  BY <1>0, <1>1 DEF Opens
<1>3. off + first \in Opens(text)
  BY <1>0, <1>2 DEF Opens
<1>4. ASSUME NEW j \in Opens(text) PROVE off + first <= j
  <2>1. j \in 1 .. Len(text) /\ j > off
    BY <1>0 DEF Opens
  <2>2. CASE j <= off + Len(sub)
    <3>1. j - off \in 1 .. Len(sub) /\ off + (j - off) = j
      BY <1>0, <2>1, <2>2
    <3>2. sub[j - off] = Brace
      BY <3>1 DEF Opens
    <3>3. j - off \in Opens(sub)
      BY <1>0, <3>1, <3>2 DEF Opens
    <3>4. first <= j - off /\ first \in Nat /\ j \in Nat
      BY <1>0, <1>1, <1>2, <2>1, <3>3
    <3>. QED BY <3>4
  <2>. QED BY <1>0, <1>2, <2>1, <2>2
<1>5. Opens(text) \subseteq Nat
  BY <1>0 DEF Opens
<1>6. Least(Opens(text)) = off + first
  BY <1>3, <1>4, <1>5, LeastIs
<1>7. \A k \in first - 1 .. Len(sub) :
        Client!ScanFrom(text, off + first)[off + k] = Client!ScanFrom(sub, first)[k]
  <2>1. first \in 1 .. Len(sub) + 1 /\ \A k \in first .. Len(sub) : text[off + k] = sub[k]
    BY <1>0, <1>2
  <2>. QED BY <2>1, ScanMoves
<1>8. ASSUME NEW k \in first .. Len(sub)
      PROVE  off + k \in Closes(text, off + first) <=> k \in Closes(sub, first)
  <2>1. /\ k \in Nat /\ off + k \in off + first .. Len(text) /\ (off + k) - 1 = off + (k - 1)
        /\ k \in first - 1 .. Len(sub) /\ k - 1 \in first - 1 .. Len(sub) /\ k \in 1 .. Len(sub)
    BY <1>0, <1>2
  <2>2. /\ Client!ScanFrom(text, off + first)[off + k] = Client!ScanFrom(sub, first)[k]
        /\ Client!ScanFrom(text, off + first)[(off + k) - 1] = Client!ScanFrom(sub, first)[k - 1]
    BY <1>7, <2>1
  <2>3. text[off + k] = sub[k]
    BY <2>1
  <2>. QED BY <2>1, <2>2, <2>3 DEF Closes
<1>. QED BY <1>2, <1>3, <1>6, <1>8

\* An object that is found whole when it is all there is.
Whole(object) == Client!FindBalanced(object) = object
Barren(text) == Client!FindBalanced(text) = <<>>

LEMMA LocatedIn ==
  ASSUME NEW S, NEW text \in Seq(S), NEW object \in Seq(S), NEW rest \in Seq(S), NEW off \in Nat,
         Whole(object), Len(object) = 0 => Barren(rest),
         Len(text) = off + Len(object) + Len(rest),
         \A k \in 1 .. off : text[k] # Brace,
         \A k \in 1 .. Len(object) : text[off + k] = object[k],
         \A k \in 1 .. Len(rest) : text[off + Len(object) + k] = rest[k]
  PROVE  Client!FindBalanced(text) = object
<1>1. Len(object) \in Nat /\ Len(rest) \in Nat /\ Len(text) \in Nat
  OBVIOUS
<1>3. CASE Len(object) # 0
  <2>. DEFINE first == Least(Opens(object))
              end == Least(Closes(object, first))
  <2>1. /\ Opens(object) # {} /\ Closes(object, first) # {}
        /\ object = SubSeq(object, first, end)
    <3>1. object # <<>>
      BY <1>3
    <3>. QED BY <3>1, Finds, Zenon DEF Whole
  <2>0. DOMAIN object = 1 .. Len(object) /\ DOMAIN text = 1 .. Len(text)
    OBVIOUS
  <2>2. first \in 1 .. Len(object) /\ object[first] = Brace
    <3>1. Opens(object) \subseteq 1 .. Len(object) /\ Opens(object) \subseteq Nat
      BY <1>1, <2>0, BracesIn
    <3>2. first \in Opens(object)
      BY <2>1, <3>1, LeastIs
    <3>. QED BY <1>1, <2>0, <3>1, <3>2, BracesIn
  <2>3. end \in Closes(object, first) /\ \A j \in Closes(object, first) : end <= j
    <3>1. Closes(object, first) \subseteq Nat
      BY <1>1, <2>0, <2>2, BracesIn
    <3>. QED BY <2>1, <3>1, LeastIs
  <2>4. end \in first .. Len(object)
    BY <2>3 DEF Closes
  <2>. HIDE DEF first, end
  <2>5. first = 1 /\ end = Len(object)
    <3>1. Len(SubSeq(object, first, end)) = end - first + 1
      BY <1>1, <2>2, <2>4
    <3>. QED BY <1>1, <2>1, <2>2, <2>4, <3>1
  <2>6. /\ Opens(text) # {} /\ Least(Opens(text)) = off + 1
        /\ \A k \in 1 .. Len(object) :
              off + k \in Closes(text, off + 1) <=> k \in Closes(object, 1)
    <3>1. HoldsAt(text, object, off)
      BY <1>1 DEF HoldsAt
    <3>2. IsFirst(first, object)
      BY DEF first, IsFirst
    <3>3. /\ Opens(text) # {} /\ Least(Opens(text)) = off + first
          /\ \A k \in first .. Len(object) :
                off + k \in Closes(text, off + first) <=> k \in Closes(object, first)
      BY <2>1, <3>1, <3>2, Inside
    <3>. QED BY <2>5, <3>3
  <2>7. off + Len(object) \in Closes(text, off + 1)
    BY <1>1, <2>2, <2>3, <2>5, <2>6
  <2>8. ASSUME NEW j \in Closes(text, off + 1) PROVE off + Len(object) <= j
    <3>1. j \in off + 1 .. Len(text)
      BY DEF Closes
    <3>2. CASE j < off + Len(object)
      <4>1. j - off \in 1 .. Len(object) /\ off + (j - off) = j
        BY <1>1, <3>1, <3>2
      <4>2. j - off \in Closes(object, 1)
        BY <2>6, <4>1
      <4>3. Len(object) <= j - off
        BY <2>3, <2>5, <4>2
      <4>. QED BY <1>1, <3>1, <3>2, <4>3
    <3>. QED BY <1>1, <3>1, <3>2
  <2>9. Least(Closes(text, off + 1)) = off + Len(object)
    <3>1. Closes(text, off + 1) \subseteq Nat
      BY <1>1, <2>0, BracesIn
    <3>. QED BY <2>7, <2>8, <3>1, LeastIs
  <2>10. Client!FindBalanced(text) = SubSeq(text, off + 1, off + Len(object))
    BY <2>6, <2>7, <2>9, Finds
  <2>11. SubSeq(text, off + 1, off + Len(object)) = object
    <3>. DEFINE part == SubSeq(text, off + 1, off + Len(object))
    <3>1. /\ part \in Seq(S) /\ Len(part) = Len(object)
          /\ \A k \in 1 .. Len(object) : part[k] = text[off + k]
      BY <1>1
    <3>. HIDE DEF part
    <3>2. part = object
      BY <1>1, <3>1, SeqEqual
    <3>. QED BY <3>2 DEF part
  <2>. QED BY <2>10, <2>11
<1>4. CASE Len(object) = 0
  <2>0. Len(object) = 0 /\ Client!FindBalanced(rest) = <<>>
    BY <1>4 DEF Barren
  <2>1. /\ Len(text) = off + Len(rest) /\ Client!FindBalanced(rest) = <<>>
        /\ \A k \in 1 .. Len(rest) : text[off + k] = rest[k]
    <3>1. /\ Len(text) = off + 0 + Len(rest)
          /\ \A k \in 1 .. Len(rest) : text[off + 0 + k] = rest[k]
      BY <1>1, <2>0
    <3>2. off + 0 = off
      BY <1>1
    <3>. QED BY <2>0, <3>1, <3>2
  <2>4. object = <<>>
    BY <1>4
  <2>2. CASE Opens(rest) = {}
    <3>1. ASSUME NEW k \in Opens(text) PROVE FALSE
      <4>1. k \in 1 .. Len(text) /\ text[k] = Brace /\ k > off
        BY <1>1 DEF Opens
      <4>2. k - off \in 1 .. Len(rest) /\ rest[k - off] = Brace
        <5>1. k - off \in 1 .. Len(rest) /\ off + (k - off) = k
          BY <1>1, <2>1, <4>1
        <5>. QED BY <2>1, <4>1, <5>1
      <4>. QED BY <2>2, <4>2 DEF Opens
    <3>. QED BY <2>4, <3>1, Finds
  <2>3. CASE Opens(rest) # {}
    <3>. DEFINE first == Least(Opens(rest))
    <3>1. /\ first \in 1 .. Len(rest)
          /\ Opens(text) # {} /\ Least(Opens(text)) = off + first
          /\ \A k \in first .. Len(rest) :
               off + k \in Closes(text, off + first) <=> k \in Closes(rest, first)
      <4>1. HoldsAt(text, rest, off)
        <5>1. off + Len(rest) <= Len(text)
          BY <1>1, <2>1
        <5>2. \A k \in 1 .. Len(rest) : text[off + k] = rest[k]
          BY <2>1
        <5>. QED BY <5>1, <5>2 DEF HoldsAt
      <4>2. IsFirst(first, rest)
        BY DEF IsFirst
      <4>. HIDE DEF first
      <4>3. /\ Opens(text) # {} /\ Least(Opens(text)) = off + first
            /\ \A k \in first .. Len(rest) :
                 off + k \in Closes(text, off + first) <=> k \in Closes(rest, first)
        BY <2>3, <4>1, <4>2, Inside
      <4>4. first \in 1 .. Len(rest)
        BY <2>3, <4>1, <4>2, Inside
      <4>. QED BY <4>3, <4>4
    <3>2. Closes(rest, first) = {}
      <4>1. SUFFICES ASSUME Closes(rest, first) # {} PROVE FALSE
        OBVIOUS
      <4>2. SubSeq(rest, first, Least(Closes(rest, first))) = <<>>
        BY <2>1, <2>3, <4>1, Finds
      <4>. HIDE DEF first
      <4>3. Least(Closes(rest, first)) \in first .. Len(rest)
        <5>1. DOMAIN rest = 1 .. Len(rest)
          OBVIOUS
        <5>2. Closes(rest, first) \subseteq first .. Len(rest) /\ Closes(rest, first) \subseteq Nat
          BY <1>1, <3>1, <5>1, BracesIn
        <5>. QED BY <4>1, <5>2, LeastIs
      <4>4. Len(SubSeq(rest, first, Least(Closes(rest, first)))) = Least(Closes(rest, first)) - first + 1
        BY <1>1, <3>1, <4>3
      <4>. QED BY <1>1, <3>1, <4>2, <4>3, <4>4
    <3>3. ASSUME NEW j \in Closes(text, off + first) PROVE FALSE
      <4>1. j \in off + first .. Len(text)
        BY DEF Closes
      <4>2. j - off \in first .. Len(rest) /\ off + (j - off) = j
        BY <1>1, <2>1, <3>1, <4>1
      <4>. QED BY <3>1, <3>2, <4>2
    <3>4. Closes(text, off + first) = {}
      BY <3>3
    <3>. QED BY <2>4, <3>1, <3>4, Finds
  <2>. QED BY <2>2, <2>3
<1>. QED BY <1>3, <1>4

\* An object that is whole by itself is what is found of an answer, whatever
\* comes before it that holds no brace, and whatever follows.
LEMMA Located ==
  ASSUME NEW S, NEW prose \in Seq(S), NEW object \in Seq(S), NEW rest \in Seq(S),
         \A k \in DOMAIN prose : prose[k] # Brace,
         Whole(object), Len(object) = 0 => Barren(rest)
  PROVE  Client!FindBalanced(prose \o object \o rest) = object
<1>. DEFINE text == prose \o object \o rest
            off == Len(prose)
<1>1. /\ prose \o object \in Seq(S) /\ Len(prose \o object) = off + Len(object)
      /\ \A k \in 1 .. off : (prose \o object)[k] = prose[k]
      /\ \A k \in 1 .. Len(object) : (prose \o object)[off + k] = object[k]
  OBVIOUS
<1>2. /\ text \in Seq(S) /\ Len(text) = Len(prose \o object) + Len(rest)
      /\ \A k \in 1 .. Len(prose \o object) : text[k] = (prose \o object)[k]
      /\ \A k \in 1 .. Len(rest) : text[Len(prose \o object) + k] = rest[k]
  BY <1>1
<1>3. /\ off \in Nat /\ Len(text) = off + Len(object) + Len(rest)
      /\ \A k \in 1 .. off : text[k] # Brace
      /\ \A k \in 1 .. Len(object) : text[off + k] = object[k]
      /\ \A k \in 1 .. Len(rest) : text[off + Len(object) + k] = rest[k]
  BY <1>1, <1>2
<1>. QED BY <1>2, <1>3, LocatedIn

\* A text that opens with a brace which its end closes and nothing before it does.
LEMMA WholeWhen ==
  ASSUME NEW S, NEW object \in Seq(S), NEW n \in Nat, n > 0, Len(object) = n,
         NEW at, at = Client!ScanFrom(object, 1),
         object[1] = Brace, object[n] = Shut, ~at[n - 1].inString, at[n].depth = 0,
         \A k \in 1 .. n - 1 : object[k] = Shut => at[k - 1].inString \/ at[k].depth # 0
  PROVE  Whole(object)
<1>. DEFINE opens == Opens(object)
            closes == Closes(object, 1)
<1>0. DOMAIN object = 1 .. n /\ n \in 1 .. n /\ 1 \in 1 .. n
  OBVIOUS
<1>1. opens \subseteq 1 .. n /\ 1 \in opens
  BY <1>0 DEF Opens
<1>2. closes \subseteq 1 .. n /\ n \in closes
  BY <1>0 DEF Closes
<1>3. ASSUME NEW k \in closes PROVE n <= k
  <2>1. CASE k \in 1 .. n - 1
    BY <2>1 DEF Closes
  <2>. QED BY <1>2, <2>1
<1>. HIDE DEF opens, closes
<1>4. opens # {} /\ Least(opens) = 1
  <2>1. opens \subseteq Nat /\ \A j \in opens : 1 <= j
    BY <1>1
  <2>. QED BY <1>1, <2>1, LeastIs
<1>5. closes # {} /\ Least(closes) = n
  <2>1. closes \subseteq Nat
    BY <1>2
  <2>. QED BY <1>2, <1>3, <2>1, LeastIs
<1>6. Client!FindBalanced(object) = SubSeq(object, 1, n)
  BY <1>4, <1>5, Finds DEF opens, closes
<1>7. SubSeq(object, 1, n) = object
  OBVIOUS
<1>. QED BY <1>6, <1>7 DEF Whole

\* A text without a brace, or one that opens with a brace which nothing closes.
LEMMA BarrenWhen ==
  ASSUME NEW S, NEW text \in Seq(S), NEW n \in Nat, Len(text) = n,
         NEW at, at = Client!ScanFrom(text, 1),
         \/ \A k \in 1 .. n : text[k] # Brace
         \/ /\ text[1] = Brace /\ n > 0
            /\ \A k \in 1 .. n : text[k] = Shut => at[k - 1].inString \/ at[k].depth # 0
  PROVE  Barren(text)
<1>. DEFINE opens == Opens(text)
            closes == Closes(text, 1)
<1>0. DOMAIN text = 1 .. n
  OBVIOUS
<1>1. CASE \A k \in 1 .. n : text[k] # Brace
  <2>1. opens = {}
    BY <1>0, <1>1 DEF Opens
  <2>. QED BY <2>1, Finds DEF Barren
<1>2. CASE /\ text[1] = Brace /\ n > 0
           /\ \A k \in 1 .. n : text[k] = Shut => at[k - 1].inString \/ at[k].depth # 0
  <2>1. opens \subseteq 1 .. n /\ 1 \in opens
    BY <1>0, <1>2 DEF Opens
  <2>2. closes = {}
    BY <1>2 DEF Closes
  <2>. HIDE DEF opens, closes
  <2>3. Least(opens) = 1
    <3>1. opens \subseteq Nat /\ \A j \in opens : 1 <= j
      BY <2>1
    <3>. QED BY <2>1, <3>1, LeastIs
  <2>. QED BY <2>2, <2>3, Finds DEF Barren, opens, closes
<1>. QED BY <1>1, <1>2

\* The characters one at a time, from the first.
Scan(d, where) == [depth |-> d, inString |-> where # "out", escape |-> where = "escaped"]

LEMMA ScanIs ==
  ASSUME NEW d, NEW where
  PROVE  Scan(d, where).depth = d /\ (Scan(d, where).inString <=> where # "out")
BY DEF Scan

LEMMA Reads ==
  ASSUME NEW d \in Int
  PROVE  /\ After(Scan(d, "out"), Brace) = Scan(d + 1, "out")
         /\ After(Scan(d, "out"), Shut) = Scan(d - 1, "out")
         /\ After(Scan(d, "out"), "quote") = Scan(d, "in")
         /\ After(Scan(d, "in"), "quote") = Scan(d, "out")
         /\ After(Scan(d, "in"), "back") = Scan(d, "escaped")
         /\ After(Scan(d, "in"), Brace) = Scan(d, "in")
         /\ After(Scan(d, "in"), Shut) = Scan(d, "in")
         /\ After(Scan(d, "escaped"), "quote") = Scan(d, "in")
         /\ After(Scan(d, "escaped"), "back") = Scan(d, "in")
<1>1. After(Scan(d, "out"), Brace) = Scan(d + 1, "out")
  BY DEF Scan, After, Brace, Shut
<1>2. After(Scan(d, "out"), Shut) = Scan(d - 1, "out")
  BY DEF Scan, After, Brace, Shut
<1>3. After(Scan(d, "out"), "quote") = Scan(d, "in")
  BY DEF Scan, After, Brace, Shut
<1>4. After(Scan(d, "in"), "quote") = Scan(d, "out")
  BY DEF Scan, After, Brace, Shut
<1>5. After(Scan(d, "in"), "back") = Scan(d, "escaped")
  BY DEF Scan, After, Brace, Shut
<1>6. After(Scan(d, "in"), Brace) = Scan(d, "in")
  BY DEF Scan, After, Brace, Shut
<1>7. After(Scan(d, "in"), Shut) = Scan(d, "in")
  BY DEF Scan, After, Brace, Shut
<1>8. After(Scan(d, "escaped"), "quote") = Scan(d, "in")
  BY DEF Scan, After, Brace, Shut
<1>9. After(Scan(d, "escaped"), "back") = Scan(d, "in")
  BY DEF Scan, After, Brace, Shut
<1>. QED BY <1>1, <1>2, <1>3, <1>4, <1>5, <1>6, <1>7, <1>8, <1>9

LEMMA ScansOn ==
  ASSUME NEW S, NEW text \in Seq(S), NEW n \in Nat, Len(text) = n
  PROVE  /\ Client!ScanFrom(text, 1)[0] = Scan(0, "out")
         /\ \A k \in 1 .. n :
              Client!ScanFrom(text, 1)[k] = After(Client!ScanFrom(text, 1)[k - 1], text[k])
<1>1. /\ Client!ScanFrom(text, 1)[1 - 1] = Outside
      /\ \A k \in 1 .. Len(text) :
           Client!ScanFrom(text, 1)[k] = After(Client!ScanFrom(text, 1)[k - 1], text[k])
  <2>1. 1 \in 1 .. Len(text) + 1
    OBVIOUS
  <2>. QED BY <2>1, ScanSteps
<1>2. Outside = Scan(0, "out")
  BY DEF Outside, Scan
<1>. QED BY <1>1, <1>2

LEMMA Signs ==
  /\ Brace # Shut
  /\ \A c \in {"quote", "back", "x"} : c # Brace /\ c # Shut
BY Zenon DEF Brace, Shut

\* Answers a model may give: objects whose strings hold braces and escaped quotes,
\* with prose on both sides, and prose that holds no object.
SampleSymbols == {Brace, Shut, "quote", "back", "x"}
SampleObjects ==
  {<<Brace, Shut>>,
   <<Brace, Brace, Shut, Shut>>,
   <<Brace, "quote", Shut, "quote", Shut>>,
   <<Brace, "quote", "back", "quote", Shut, "quote", Shut>>,
   <<Brace, "quote", "back", "back", "quote", Shut>>}
SampleAnswers ==
  [prose : {<<>>, <<"quote">>}, object : SampleObjects, tail : {<<>>, <<Shut>>, <<Brace>>}]
    \cup [prose : {<<"x">>}, object : {<<>>}, tail : {<<Shut>>, <<Brace, "quote", Shut>>}]

LEMMA EmptyObject == Whole(<<Brace, Shut>>)
<1>. DEFINE o == <<Brace, Shut>>
            at == Client!ScanFrom(o, 1)
<1>1. /\ o \in Seq(SampleSymbols) /\ Len(o) = 2
      /\ o[1] = Brace /\ o[2] = Shut
  BY DEF SampleSymbols
<1>. HIDE DEF o
<1>2. at[0] = Scan(0, "out") /\ \A k \in 1 .. 2 : at[k] = After(at[k - 1], o[k])
  BY <1>1, ScansOn
<1>0. at = Client!ScanFrom(o, 1)
  OBVIOUS
<1>. HIDE DEF at
<1>3. at[1] = After(at[0], Brace) /\ at[2] = After(at[1], Shut)
  BY <1>1, <1>2
<1>4. at[1] = Scan(1, "out")
  BY <1>3, <1>2, Reads
<1>5. at[2] = Scan(0, "out")
  BY <1>3, <1>4, Reads
<1>6. \A k \in 1 .. 1 : o[k] = Shut => at[k - 1].inString \/ at[k].depth # 0
  BY <1>1, <1>2, <1>4, <1>5, ScanIs, Signs
<1>7. o[1] = Brace /\ o[2] = Shut /\ ~at[1].inString /\ at[2].depth = 0
  BY <1>1, <1>4, <1>5, ScanIs
<1>8. 2 > 0 /\ 2 \in Nat /\ 2 - 1 = 1
  OBVIOUS
<1>9. Whole(o)
  BY <1>0, <1>1, <1>6, <1>7, <1>8, WholeWhen
<1>. QED BY <1>9 DEF o

LEMMA NestedObject == Whole(<<Brace, Brace, Shut, Shut>>)
<1>. DEFINE o == <<Brace, Brace, Shut, Shut>>
            at == Client!ScanFrom(o, 1)
<1>1. /\ o \in Seq(SampleSymbols) /\ Len(o) = 4
      /\ o[1] = Brace /\ o[2] = Brace /\ o[3] = Shut /\ o[4] = Shut
  BY DEF SampleSymbols
<1>. HIDE DEF o
<1>2. at[0] = Scan(0, "out") /\ \A k \in 1 .. 4 : at[k] = After(at[k - 1], o[k])
  BY <1>1, ScansOn
<1>0. at = Client!ScanFrom(o, 1)
  OBVIOUS
<1>. HIDE DEF at
<1>3. /\ at[1] = After(at[0], Brace) /\ at[2] = After(at[1], Brace)
      /\ at[3] = After(at[2], Shut) /\ at[4] = After(at[3], Shut)
  BY <1>1, <1>2
<1>4. at[1] = Scan(1, "out")
  BY <1>3, <1>2, Reads
<1>5. at[2] = Scan(2, "out")
  BY <1>3, <1>4, Reads
<1>6. at[3] = Scan(1, "out")
  BY <1>3, <1>5, Reads
<1>7. at[4] = Scan(0, "out")
  BY <1>3, <1>6, Reads
<1>8. \A k \in 1 .. 3 : o[k] = Shut => at[k - 1].inString \/ at[k].depth # 0
  BY <1>1, <1>2, <1>4, <1>5, <1>6, <1>7, ScanIs, Signs
<1>9. o[1] = Brace /\ o[4] = Shut /\ ~at[3].inString /\ at[4].depth = 0
  BY <1>1, <1>6, <1>7, ScanIs
<1>10. 4 > 0 /\ 4 \in Nat /\ 4 - 1 = 3
  OBVIOUS
<1>11. Whole(o)
  BY <1>0, <1>1, <1>8, <1>9, <1>10, WholeWhen
<1>. QED BY <1>11 DEF o

LEMMA BraceInString == Whole(<<Brace, "quote", Shut, "quote", Shut>>)
<1>. DEFINE o == <<Brace, "quote", Shut, "quote", Shut>>
            at == Client!ScanFrom(o, 1)
<1>1. /\ o \in Seq(SampleSymbols) /\ Len(o) = 5
      /\ o[1] = Brace /\ o[2] = "quote" /\ o[3] = Shut /\ o[4] = "quote" /\ o[5] = Shut
  BY DEF SampleSymbols
<1>. HIDE DEF o
<1>2. at[0] = Scan(0, "out") /\ \A k \in 1 .. 5 : at[k] = After(at[k - 1], o[k])
  BY <1>1, ScansOn
<1>0. at = Client!ScanFrom(o, 1)
  OBVIOUS
<1>. HIDE DEF at
<1>3. /\ at[1] = After(at[0], Brace) /\ at[2] = After(at[1], "quote")
      /\ at[3] = After(at[2], Shut) /\ at[4] = After(at[3], "quote")
      /\ at[5] = After(at[4], Shut)
  BY <1>1, <1>2
<1>4. at[1] = Scan(1, "out")
  BY <1>3, <1>2, Reads
<1>5. at[2] = Scan(1, "in")
  BY <1>3, <1>4, Reads
<1>6. at[3] = Scan(1, "in")
  BY <1>3, <1>5, Reads
<1>7. at[4] = Scan(1, "out")
  BY <1>3, <1>6, Reads
<1>8. at[5] = Scan(0, "out")
  BY <1>3, <1>7, Reads
<1>9. \A k \in 1 .. 4 : o[k] = Shut => at[k - 1].inString \/ at[k].depth # 0
  BY <1>1, <1>2, <1>4, <1>5, <1>6, <1>7, <1>8, ScanIs, Signs
<1>10. o[1] = Brace /\ o[5] = Shut /\ ~at[4].inString /\ at[5].depth = 0
  BY <1>1, <1>7, <1>8, ScanIs
<1>11. 5 > 0 /\ 5 \in Nat /\ 5 - 1 = 4
  OBVIOUS
<1>12. Whole(o)
  BY <1>0, <1>1, <1>9, <1>10, <1>11, WholeWhen
<1>. QED BY <1>12 DEF o

LEMMA EscapedQuote == Whole(<<Brace, "quote", "back", "quote", Shut, "quote", Shut>>)
<1>. DEFINE o == <<Brace, "quote", "back", "quote", Shut, "quote", Shut>>
            at == Client!ScanFrom(o, 1)
<1>1. /\ o \in Seq(SampleSymbols) /\ Len(o) = 7
      /\ o[1] = Brace /\ o[2] = "quote" /\ o[3] = "back" /\ o[4] = "quote"
      /\ o[5] = Shut /\ o[6] = "quote" /\ o[7] = Shut
  BY DEF SampleSymbols
<1>. HIDE DEF o
<1>2. at[0] = Scan(0, "out") /\ \A k \in 1 .. 7 : at[k] = After(at[k - 1], o[k])
  BY <1>1, ScansOn
<1>0. at = Client!ScanFrom(o, 1)
  OBVIOUS
<1>. HIDE DEF at
<1>3. /\ at[1] = After(at[0], Brace) /\ at[2] = After(at[1], "quote")
      /\ at[3] = After(at[2], "back") /\ at[4] = After(at[3], "quote")
      /\ at[5] = After(at[4], Shut) /\ at[6] = After(at[5], "quote")
      /\ at[7] = After(at[6], Shut)
  BY <1>1, <1>2
<1>4. at[1] = Scan(1, "out")
  BY <1>3, <1>2, Reads
<1>5. at[2] = Scan(1, "in")
  BY <1>3, <1>4, Reads
<1>6. at[3] = Scan(1, "escaped")
  BY <1>3, <1>5, Reads
<1>7. at[4] = Scan(1, "in")
  BY <1>3, <1>6, Reads
<1>8. at[5] = Scan(1, "in")
  BY <1>3, <1>7, Reads
<1>9. at[6] = Scan(1, "out")
  BY <1>3, <1>8, Reads
<1>10. at[7] = Scan(0, "out")
  BY <1>3, <1>9, Reads
<1>11. \A k \in 1 .. 6 : o[k] = Shut => at[k - 1].inString \/ at[k].depth # 0
  BY <1>1, <1>2, <1>4, <1>5, <1>6, <1>7, <1>8, <1>9, <1>10, ScanIs, Signs
<1>12. o[1] = Brace /\ o[7] = Shut /\ ~at[6].inString /\ at[7].depth = 0
  BY <1>1, <1>9, <1>10, ScanIs
<1>13. 7 > 0 /\ 7 \in Nat /\ 7 - 1 = 6
  OBVIOUS
<1>14. Whole(o)
  BY <1>0, <1>1, <1>11, <1>12, <1>13, WholeWhen
<1>. QED BY <1>14 DEF o

LEMMA EscapedEscape == Whole(<<Brace, "quote", "back", "back", "quote", Shut>>)
<1>. DEFINE o == <<Brace, "quote", "back", "back", "quote", Shut>>
            at == Client!ScanFrom(o, 1)
<1>1. /\ o \in Seq(SampleSymbols) /\ Len(o) = 6
      /\ o[1] = Brace /\ o[2] = "quote" /\ o[3] = "back" /\ o[4] = "back"
      /\ o[5] = "quote" /\ o[6] = Shut
  BY DEF SampleSymbols
<1>. HIDE DEF o
<1>2. at[0] = Scan(0, "out") /\ \A k \in 1 .. 6 : at[k] = After(at[k - 1], o[k])
  BY <1>1, ScansOn
<1>0. at = Client!ScanFrom(o, 1)
  OBVIOUS
<1>. HIDE DEF at
<1>3. /\ at[1] = After(at[0], Brace) /\ at[2] = After(at[1], "quote")
      /\ at[3] = After(at[2], "back") /\ at[4] = After(at[3], "back")
      /\ at[5] = After(at[4], "quote") /\ at[6] = After(at[5], Shut)
  BY <1>1, <1>2
<1>4. at[1] = Scan(1, "out")
  BY <1>3, <1>2, Reads
<1>5. at[2] = Scan(1, "in")
  BY <1>3, <1>4, Reads
<1>6. at[3] = Scan(1, "escaped")
  BY <1>3, <1>5, Reads
<1>7. at[4] = Scan(1, "in")
  BY <1>3, <1>6, Reads
<1>8. at[5] = Scan(1, "out")
  BY <1>3, <1>7, Reads
<1>9. at[6] = Scan(0, "out")
  BY <1>3, <1>8, Reads
<1>10. \A k \in 1 .. 5 : o[k] = Shut => at[k - 1].inString \/ at[k].depth # 0
  BY <1>1, <1>2, <1>4, <1>5, <1>6, <1>7, <1>8, <1>9, ScanIs, Signs
<1>11. o[1] = Brace /\ o[6] = Shut /\ ~at[5].inString /\ at[6].depth = 0
  BY <1>1, <1>8, <1>9, ScanIs
<1>12. 6 > 0 /\ 6 \in Nat /\ 6 - 1 = 5
  OBVIOUS
<1>13. Whole(o)
  BY <1>0, <1>1, <1>10, <1>11, <1>12, WholeWhen
<1>. QED BY <1>13 DEF o

LEMMA OpenString == Barren(<<Brace, "quote", Shut>>)
<1>. DEFINE o == <<Brace, "quote", Shut>>
            at == Client!ScanFrom(o, 1)
<1>1. /\ o \in Seq(SampleSymbols) /\ Len(o) = 3
      /\ o[1] = Brace /\ o[2] = "quote" /\ o[3] = Shut
  BY DEF SampleSymbols
<1>. HIDE DEF o
<1>2. at[0] = Scan(0, "out") /\ \A k \in 1 .. 3 : at[k] = After(at[k - 1], o[k])
  BY <1>1, ScansOn
<1>0. at = Client!ScanFrom(o, 1)
  OBVIOUS
<1>. HIDE DEF at
<1>3. /\ at[1] = After(at[0], Brace) /\ at[2] = After(at[1], "quote")
      /\ at[3] = After(at[2], Shut)
  BY <1>1, <1>2
<1>4. at[1] = Scan(1, "out")
  BY <1>3, <1>2, Reads
<1>5. at[2] = Scan(1, "in")
  BY <1>3, <1>4, Reads
<1>6. at[3] = Scan(1, "in")
  BY <1>3, <1>5, Reads
<1>7. \A k \in 1 .. 3 : o[k] = Shut => at[k - 1].inString \/ at[k].depth # 0
  BY <1>1, <1>2, <1>4, <1>5, <1>6, ScanIs, Signs
<1>8. o[1] = Brace
  BY <1>1
<1>9. Barren(o)
  BY <1>0, <1>1, <1>7, <1>8, BarrenWhen
<1>. QED BY <1>9 DEF o

LEMMA NoObject == Whole(<<>>) /\ Barren(<<Shut>>)
<1>1. ASSUME NEW o \in Seq(SampleSymbols), \A k \in 1 .. Len(o) : o[k] # Brace
      PROVE  Barren(o)
  BY <1>1, BarrenWhen
<1>2. <<>> \in Seq(SampleSymbols) /\ \A k \in 1 .. Len(<<>>) : <<>>[k] # Brace
  OBVIOUS
<1>3. /\ <<Shut>> \in Seq(SampleSymbols)
      /\ \A k \in 1 .. Len(<<Shut>>) : <<Shut>>[k] # Brace
  BY Signs DEF SampleSymbols
<1>4. Barren(<<>>)
  BY <1>1, <1>2
<1>5. Barren(<<Shut>>)
  BY <1>1, <1>3
<1>. QED BY <1>4, <1>5 DEF Whole, Barren

\* They are within the bounds of the client's theorems.
LEMMA SamplesBound ==
  \A r \in SampleAnswers :
    /\ r.prose \in Seq(SampleSymbols) /\ r.object \in Seq(SampleSymbols)
    /\ r.tail \in Seq(SampleSymbols)
    /\ \A k \in DOMAIN r.prose : r.prose[k] # Brace
    /\ Whole(r.object) /\ (Len(r.object) = 0 => Barren(r.tail))
<1>1. ASSUME NEW o \in SampleObjects
      PROVE  o \in Seq(SampleSymbols) /\ Whole(o) /\ Len(o) # 0
  <2>1. o \in Seq(SampleSymbols) /\ Len(o) # 0
    <3>1. /\ <<Brace, Shut>> \in Seq(SampleSymbols) /\ Len(<<Brace, Shut>>) # 0
          /\ <<Brace, Brace, Shut, Shut>> \in Seq(SampleSymbols)
          /\ Len(<<Brace, Brace, Shut, Shut>>) # 0
          /\ <<Brace, "quote", Shut, "quote", Shut>> \in Seq(SampleSymbols)
          /\ Len(<<Brace, "quote", Shut, "quote", Shut>>) # 0
      BY DEF SampleSymbols
    <3>2. /\ <<Brace, "quote", "back", "quote", Shut, "quote", Shut>> \in Seq(SampleSymbols)
          /\ Len(<<Brace, "quote", "back", "quote", Shut, "quote", Shut>>) # 0
          /\ <<Brace, "quote", "back", "back", "quote", Shut>> \in Seq(SampleSymbols)
          /\ Len(<<Brace, "quote", "back", "back", "quote", Shut>>) # 0
      BY DEF SampleSymbols
    <3>. QED BY <3>1, <3>2 DEF SampleObjects
  <2>2. Whole(o)
    BY EmptyObject, NestedObject, BraceInString, EscapedQuote, EscapedEscape DEF SampleObjects
  <2>. QED BY <2>1, <2>2
<1>2. ASSUME NEW r \in SampleAnswers
      PROVE  /\ r.prose \in {<<>>, <<"quote">>, <<"x">>}
             /\ \/ /\ r.object \in SampleObjects
                   /\ r.tail \in {<<>>, <<Shut>>, <<Brace>>}
                \/ /\ r.object = <<>>
                   /\ r.tail \in {<<Shut>>, <<Brace, "quote", Shut>>}
  BY DEF SampleAnswers
<1>3. ASSUME NEW t \in {<<>>, <<"quote">>, <<"x">>}
      PROVE  t \in Seq(SampleSymbols) /\ \A k \in DOMAIN t : t[k] # Brace
  <2>1. CASE t = <<>>
    BY <2>1
  <2>2. CASE t = <<"quote">>
    BY <2>2, Signs DEF SampleSymbols
  <2>3. CASE t = <<"x">>
    BY <2>3, Signs DEF SampleSymbols
  <2>. QED BY <2>1, <2>2, <2>3
<1>4. ASSUME NEW t \in {<<>>, <<Shut>>, <<Brace>>, <<Brace, "quote", Shut>>}
      PROVE  t \in Seq(SampleSymbols)
  <2>1. <<>> \in Seq(SampleSymbols) /\ <<Shut>> \in Seq(SampleSymbols)
    BY DEF SampleSymbols
  <2>2. <<Brace>> \in Seq(SampleSymbols)
    BY DEF SampleSymbols
  <2>3. <<Brace, "quote", Shut>> \in Seq(SampleSymbols)
    BY DEF SampleSymbols
  <2>. QED BY <2>1, <2>2, <2>3
<1>5. <<>> \in Seq(SampleSymbols) /\ Len(<<>>) = 0
  OBVIOUS
<1>6. ASSUME NEW r \in SampleAnswers
      PROVE  /\ r.prose \in Seq(SampleSymbols) /\ r.object \in Seq(SampleSymbols)
             /\ r.tail \in Seq(SampleSymbols)
             /\ \A k \in DOMAIN r.prose : r.prose[k] # Brace
             /\ Whole(r.object) /\ (Len(r.object) = 0 => Barren(r.tail))
  BY <1>1, <1>2, <1>3, <1>4, <1>5, NoObject, OpenString
<1>. QED BY <1>6

-----------------------------------------------------------------------------
(* The requests.                                                             *)

ClientRequests == [prompt : 1 .. 2, ended : Client!Failures \cup {"open", "text"}, late : BOOLEAN]

ClientTyped ==
  /\ use \in {"plan", "stream", "raw"}
  /\ clientState \in {"start", "send", "flight", "backoff", "parse", "over"}
  /\ prompt \in 1 .. 2 /\ attempt \in 0 .. MaxRetries + 1
  /\ waiting \in 0 .. 2 ^ MaxRetries /\ cancelled \in BOOLEAN
  /\ reply \in Replies \cup {Client!NoReply} /\ (clientState = "parse" => reply \in Replies)
  /\ log \in Seq(ClientRequests)
  /\ outcome \in {"none", "planned", "answered", "cancelled", "ambiguous", "failed"}
  /\ (outcome = "none") = (clientState # "over")

SentAs(n) == {i \in DOMAIN log : log[i].prompt = n}

\* A prompt of a plan goes out once, and once more for each failed attempt.
Attempts ==
  use = "plan" =>
    /\ \A n \in 1 .. 2 : Cardinality(SentAs(n)) <= MaxRetries + 1
    /\ clientState = "start" => SentAs(prompt) = {}
    /\ clientState \in {"send", "backoff"} =>
         Cardinality(SentAs(prompt)) = attempt /\ attempt <= MaxRetries
    /\ clientState = "flight" =>
         Cardinality(SentAs(prompt)) = attempt + 1 /\ attempt <= MaxRetries
    /\ prompt = 1 => SentAs(2) = {}

\* A stream and a completion go out once.
Single ==
  use # "plan" =>
    /\ prompt = 1 /\ clientState \notin {"backoff", "parse"}
    /\ Len(log) <= 1 /\ SentAs(2) = {}
    /\ clientState \in {"start", "send"} => Len(log) = 0

\* What is sent again failed in a way that passes.
Repeats ==
  /\ \A i \in 2 .. Len(log) :
       log[i].prompt = log[i - 1].prompt => log[i - 1].ended = "transient"
  /\ clientState \in {"start", "send", "backoff"} /\ Len(log) > 0 /\ log[Len(log)].prompt = prompt
       => log[Len(log)].ended = "transient"
  /\ clientState \in {"flight", "parse"} => Len(log) > 0 /\ log[Len(log)].prompt = prompt

\* A request sent after the cancel is the last one.
LateIsLast ==
  \A i \in DOMAIN log : log[i].late =>
    /\ i = Len(log) /\ cancelled
    /\ clientState # "send"
    /\ clientState = "backoff" => waiting > 0
    /\ clientState = "start" => use = "plan"

ClientAnswered ==
  /\ outcome = "cancelled" => cancelled
  /\ outcome \in {"planned", "ambiguous"} => found = reply.object

ClientInv == ClientTyped /\ Attempts /\ Single /\ Repeats /\ LateIsLast /\ ClientAnswered

\* The settings: what a model answers holds one object at most, with no brace
\* before it, that is found when it is alone.
ClientBounds ==
  /\ MaxRetries \in Nat
  /\ \A r \in Replies :
       /\ r.prose \in Seq(Symbols) /\ r.object \in Seq(Symbols) /\ r.tail \in Seq(Symbols)
       /\ \A k \in DOMAIN r.prose : r.prose[k] # Brace
       /\ Whole(r.object) /\ (Len(r.object) = 0 => Barren(r.tail))

\* What is extracted of an answer is its object.
LEMMA ExtractedIs ==
  ASSUME ClientBounds, reply \in Replies
  PROVE  Client!Extracted = reply.object
<1>1. Client!FindBalanced(reply.prose \o reply.object \o reply.tail) = reply.object
  BY Located DEF ClientBounds
<1>. QED BY <1>1 DEF Client!Extracted, Client!Text

\* Steps that send nothing and get no answer.
LEMMA ClientQuietStep ==
  ASSUME ClientInv, ClientBounds, UNCHANGED <<use, log>>,
         Client!Generate \/ Client!GenerateStream \/ Client!CompleteRaw \/ Client!Poll \/ Client!Waited \/ Client!Cancel
           \/ Client!PlanOrAmbiguous \/ Client!Invalid
  PROVE  ClientInv'
<1>. USE DEF ClientInv, ClientTyped
<1>0. /\ MaxRetries \in Nat /\ Len(log) \in Nat
      /\ \A n \in 1 .. 2 : SentAs(n)' = SentAs(n) /\ Cardinality(SentAs(n))' = Cardinality(SentAs(n))
  BY DEF ClientBounds, SentAs
<1>1. CASE Client!Generate \/ Client!GenerateStream
  <2>. USE <1>1 DEF Client!Generate, Client!GenerateStream, Client!SendUnlessCancelled, Client!Over
  <2>1. ClientTyped' /\ ClientAnswered'
    BY <1>0 DEF ClientAnswered
  <2>0. Cardinality({}) = 0
    BY FS_EmptySet
  <2>5. /\ prompt' = prompt /\ attempt' = 0 /\ clientState = "start" /\ clientState' \in {"send", "over"}
        /\ SentAs(prompt)' = SentAs(prompt) /\ SentAs(2)' = SentAs(2)
        /\ Cardinality(SentAs(prompt)') = Cardinality(SentAs(prompt))
    BY <1>0
  <2>6. ASSUME use = "plan"
        PROVE  /\ SentAs(prompt)' = {} /\ Cardinality(SentAs(prompt)') = 0
               /\ prompt = 1 => SentAs(2)' = {}
    BY <2>0, <2>5, <2>6 DEF Attempts
  <2>2. Attempts'
    BY <1>0, <2>5, <2>6 DEF Attempts
  <2>4. Single'
    BY <1>0 DEF Single
  <2>3. Repeats' /\ LateIsLast'
    BY DEF Repeats, LateIsLast, Single
  <2>. QED BY <2>1, <2>2, <2>3, <2>4
<1>2. CASE Client!CompleteRaw
  <2>. USE <1>2 DEF Client!CompleteRaw
  <2>1. ClientTyped' /\ ClientAnswered'
    BY DEF ClientAnswered
  <2>2. Attempts' /\ Single'
    BY <1>0 DEF Attempts, Single
  <2>3. Repeats' /\ LateIsLast'
    BY DEF Repeats, LateIsLast, Single
  <2>. QED BY <2>1, <2>2, <2>3
<1>3. CASE Client!Poll \/ Client!Waited
  <2>. USE <1>3 DEF Client!Poll, Client!Waited, Client!Over
  <2>0. 2 ^ MaxRetries \in Nat
    BY Powers DEF ClientBounds
  <2>1. ClientTyped' /\ ClientAnswered'
    BY <2>0 DEF ClientAnswered
  <2>2. Attempts' /\ Single'
    BY <1>0 DEF Attempts, Single
  <2>3. Repeats' /\ LateIsLast'
    BY <2>0 DEF Repeats, LateIsLast
  <2>. QED BY <2>1, <2>2, <2>3
<1>4. CASE Client!Cancel
  <2>. USE <1>4 DEF Client!Cancel
  <2>1. ClientTyped' /\ ClientAnswered'
    BY DEF ClientAnswered
  <2>2. Attempts' /\ Single'
    BY <1>0 DEF Attempts, Single
  <2>3. Repeats' /\ LateIsLast'
    BY DEF Repeats, LateIsLast
  <2>. QED BY <2>1, <2>2, <2>3
<1>5. CASE Client!PlanOrAmbiguous
  <2>. USE <1>5 DEF Client!PlanOrAmbiguous, Client!Over
  <2>1. ClientTyped'
    OBVIOUS
  <2>2. ClientAnswered'
    BY ExtractedIs DEF ClientAnswered
  <2>3. Attempts' /\ Single'
    BY <1>0 DEF Attempts, Single
  <2>4. Repeats' /\ LateIsLast'
    BY DEF Repeats, LateIsLast
  <2>. QED BY <2>1, <2>2, <2>3, <2>4
<1>6. CASE Client!Invalid
  <2>. USE <1>6 DEF Client!Invalid, Client!Raised, Client!Over
  <2>1. ClientTyped' /\ ClientAnswered'
    BY DEF ClientAnswered
  <2>2. Attempts' /\ Single'
    BY <1>0 DEF Attempts, Single
  <2>3. Repeats' /\ LateIsLast'
    BY <1>0 DEF Repeats, LateIsLast, Single
  <2>. QED BY <2>1, <2>2, <2>3
<1>. QED BY <1>1, <1>2, <1>3, <1>4, <1>5, <1>6

\* A request goes out.
LEMMA ClientSendStep ==
  ASSUME ClientInv, ClientBounds, Client!Send
  PROVE  ClientInv'
<1>. DEFINE n == Len(log)
            new == [prompt |-> prompt, ended |-> "open", late |-> cancelled]
<1>. USE DEF ClientInv, ClientTyped, Client!Send
<1>0. /\ MaxRetries \in Nat /\ n \in Nat /\ new \in ClientRequests /\ DOMAIN log = 1 .. n
  BY DEF ClientBounds, ClientRequests
<1>1. /\ log' \in Seq(ClientRequests) /\ Len(log') = n + 1 /\ DOMAIN log' = 1 .. n + 1
      /\ \A i \in 1 .. n : log'[i] = log[i]
      /\ log'[n + 1] = new
  BY <1>0
<1>2. /\ \A m \in 1 .. 2 : SentAs(m) \subseteq 1 .. n /\ IsFiniteSet(SentAs(m))
      /\ SentAs(prompt)' = SentAs(prompt) \cup {n + 1}
      /\ \A m \in 1 .. 2 : m # prompt => SentAs(m)' = SentAs(m)
  <2>1. ASSUME NEW m \in 1 .. 2 PROVE SentAs(m) \subseteq 1 .. n /\ IsFiniteSet(SentAs(m))
    <3>1. SentAs(m) \subseteq 1 .. n
      BY <1>0 DEF SentAs
    <3>2. IsFiniteSet(1 .. n)
      BY <1>0, FS_Interval
    <3>. QED BY <3>1, <3>2, FS_Subset
  <2>2. \A i : i \in SentAs(prompt)' <=> i \in SentAs(prompt) \cup {n + 1}
    BY <1>0, <1>1 DEF SentAs
  <2>3. \A m \in 1 .. 2 : m # prompt => \A i : i \in SentAs(m)' <=> i \in SentAs(m)
    BY <1>0, <1>1 DEF SentAs
  <2>. QED BY <2>1, <2>2, <2>3
<1>3. Cardinality(SentAs(prompt))' = Cardinality(SentAs(prompt)) + 1
  <2>1. n + 1 \notin SentAs(prompt)
    BY <1>0, <1>2
  <2>2. Cardinality(SentAs(prompt) \cup {n + 1}) = Cardinality(SentAs(prompt)) + 1
    BY <1>2, <2>1, FS_AddElement
  <2>. QED BY <1>2, <2>2
<1>4. ClientTyped'
  BY <1>0, <1>1
<1>5. Attempts'
  <2>. SUFFICES ASSUME use = "plan" PROVE Attempts'
    BY DEF Attempts
  <2>1. /\ clientState = "send" /\ clientState' = "flight" /\ prompt' = prompt /\ attempt' = attempt
        /\ Cardinality(SentAs(prompt)) = attempt /\ attempt <= MaxRetries /\ attempt \in Nat
    BY DEF Attempts
  <2>2. Cardinality(SentAs(prompt)') = attempt + 1
    BY <1>3, <2>1
  <2>3. \A m \in 1 .. 2 : Cardinality(SentAs(m)') <= MaxRetries + 1
    <3>. SUFFICES ASSUME NEW m \in 1 .. 2 PROVE Cardinality(SentAs(m)') <= MaxRetries + 1
      OBVIOUS
    <3>1. CASE m = prompt
      BY <1>0, <2>1, <2>2, <3>1
    <3>2. CASE m # prompt
      <4>1. SentAs(m)' = SentAs(m)
        BY <1>2, <3>2
      <4>. QED BY <4>1 DEF Attempts
    <3>. QED BY <3>1, <3>2
  <2>4. prompt = 1 => SentAs(2)' = {}
    BY <1>2 DEF Attempts
  <2>. QED BY <2>1, <2>2, <2>3, <2>4 DEF Attempts
<1>6. Single'
  BY <1>0, <1>1, <1>2 DEF Single
<1>7. Repeats'
  <2>1. ASSUME NEW i \in 2 .. n + 1, log'[i].prompt = log'[i - 1].prompt
        PROVE  log'[i - 1].ended = "transient"
    <3>1. CASE i <= n
      <4>1. i \in 2 .. n /\ i \in 1 .. n /\ i - 1 \in 1 .. n
        BY <1>0, <3>1
      <4>. QED BY <1>1, <2>1, <4>1 DEF Repeats
    <3>2. CASE i = n + 1
      <4>1. n \in 1 .. n /\ i - 1 = n
        BY <1>0, <3>2
      <4>. QED BY <1>0, <1>1, <2>1, <3>2, <4>1 DEF Repeats
    <3>. QED BY <1>0, <3>1, <3>2
  <2>. QED BY <1>0, <1>1, <2>1 DEF Repeats
<1>8. LateIsLast'
  BY <1>0, <1>1 DEF LateIsLast
<1>9. ClientAnswered'
  BY DEF ClientAnswered
<1>. QED BY <1>4, <1>5, <1>6, <1>7, <1>8, <1>9

\* A request is answered or fails.
LEMMA ClientEndStep ==
  ASSUME ClientInv, ClientBounds,
         Client!AuthFails \/ Client!OtherFails \/ Client!TransientFails \/ Client!Answers
  PROVE  ClientInv'
<1>. DEFINE n == Len(log)
<1>. USE DEF ClientInv, ClientTyped
<1>0. PICK how \in {"auth", "other", "transient", "text"} :
        /\ clientState = "flight" /\ log' = [log EXCEPT ![n].ended = how]
        /\ how = "auth" => Client!AuthFails
        /\ how = "other" => Client!OtherFails
        /\ how = "transient" => Client!TransientFails
        /\ how = "text" => Client!Answers
  BY DEF Client!AuthFails, Client!OtherFails, Client!Fails, Client!TransientFails,
  Client!Answers, Client!Ended
<1>1. MaxRetries \in Nat /\ n \in 1 .. n /\ n \in Nat /\ DOMAIN log = 1 .. n
  BY <1>0 DEF ClientBounds, Repeats
<1>2. /\ log' \in Seq(ClientRequests) /\ Len(log') = n /\ DOMAIN log' = 1 .. n
      /\ \A i \in 1 .. n : log'[i].prompt = log[i].prompt /\ log'[i].late = log[i].late
      /\ \A i \in 1 .. n : i # n => log'[i] = log[i]
      /\ log'[n].ended = how
  <2>. DEFINE entry == [prompt |-> log[n].prompt, ended |-> how, late |-> log[n].late]
  <2>1. log[n] \in ClientRequests
    BY <1>1
  <2>2. entry \in ClientRequests /\ [log[n] EXCEPT !.ended = how] = entry
    BY <2>1 DEF ClientRequests, Client!Failures
  <2>3. log' = [log EXCEPT ![n] = entry]
    BY <1>0, <2>2
  <2>4. entry.prompt = log[n].prompt /\ entry.ended = how /\ entry.late = log[n].late
    OBVIOUS
  <2>. HIDE DEF entry
  <2>5. log' \in Seq(ClientRequests) /\ Len(log') = n /\ DOMAIN log' = 1 .. n
    BY <1>1, <2>2, <2>3
  <2>6. log'[n] = entry /\ \A i \in 1 .. n : i # n => log'[i] = log[i]
    BY <1>1, <2>3
  <2>7. ASSUME NEW i \in 1 .. n PROVE log'[i].prompt = log[i].prompt /\ log'[i].late = log[i].late
    <3>1. CASE i = n
      BY <2>4, <2>6, <3>1
    <3>2. CASE i # n
      BY <2>6, <3>2
    <3>. QED BY <3>1, <3>2
  <2>8. log'[n].ended = how
    BY <2>4, <2>6
  <2>. HIDE DEF n
  <2>. QED BY <2>5, <2>6, <2>7, <2>8
<1>3. \A m \in 1 .. 2 : SentAs(m)' = SentAs(m) /\ Cardinality(SentAs(m))' = Cardinality(SentAs(m))
  BY <1>1, <1>2 DEF SentAs
<1>4. /\ \A i \in 2 .. n : log'[i].prompt = log'[i - 1].prompt => log'[i - 1].ended = "transient"
      /\ log'[n].prompt = prompt
  <2>1. ASSUME NEW i \in 2 .. n, log'[i].prompt = log'[i - 1].prompt
        PROVE  log'[i - 1].ended = "transient"
    <3>1. i - 1 \in 1 .. n /\ i - 1 # n /\ i \in 1 .. n
      BY <1>1
    <3>. QED BY <1>2, <2>1, <3>1 DEF Repeats
  <2>. QED BY <1>0, <1>1, <1>2, <2>1 DEF Repeats
<1>5. CASE Client!AuthFails \/ Client!OtherFails
  <2>. USE <1>5 DEF Client!AuthFails, Client!OtherFails, Client!Fails, Client!Raised, Client!Over
  <2>1. ClientTyped' /\ ClientAnswered'
    BY <1>0, <1>2 DEF ClientAnswered
  <2>2. Attempts' /\ Single'
    BY <1>0, <1>1, <1>2, <1>3 DEF Attempts, Single
  <2>3. Repeats' /\ LateIsLast'
    BY <1>0, <1>1, <1>2, <1>4 DEF Repeats, LateIsLast
  <2>. QED BY <2>1, <2>2, <2>3
<1>6. CASE Client!TransientFails
  <2>. USE <1>6 DEF Client!TransientFails, Client!Raised, Client!Over
  <2>0. /\ 2 ^ MaxRetries \in Nat
        /\ use = "plan" /\ attempt < MaxRetries => 2 ^ attempt \in 1 .. 2 ^ MaxRetries
    BY <1>1, Powers
  <2>1. ClientTyped'
    BY <1>0, <1>1, <1>2, <2>0 DEF Attempts
  <2>2. ClientAnswered'
    BY <1>0 DEF ClientAnswered
  <2>3. Attempts' /\ Single'
    BY <1>0, <1>1, <1>2, <1>3 DEF Attempts, Single
  <2>4. log'[n].ended = "transient"
    BY <1>2, <1>0 DEF Client!Ended
  <2>5. Repeats' /\ LateIsLast'
    BY <1>0, <1>1, <1>2, <1>4, <2>0, <2>4 DEF Repeats, LateIsLast
  <2>. QED BY <2>1, <2>2, <2>3, <2>5
<1>7. CASE Client!Answers
  <2>. USE <1>7 DEF Client!Answers, Client!Over
  <2>1. ClientTyped' /\ ClientAnswered'
    BY <1>0, <1>2 DEF ClientAnswered
  <2>2. Attempts' /\ Single'
    BY <1>0, <1>1, <1>2, <1>3 DEF Attempts, Single
  <2>3. Repeats' /\ LateIsLast'
    BY <1>0, <1>1, <1>2, <1>4 DEF Repeats, LateIsLast
  <2>. QED BY <2>1, <2>2, <2>3
<1>. QED BY <1>5, <1>6, <1>7

LEMMA ClientInit == ASSUME ClientBounds, Client!Init PROVE ClientInv
<1>1. SentAs(1) = {} /\ SentAs(2) = {} /\ Cardinality({}) = 0
  BY FS_EmptySet DEF Client!Init, SentAs
<1>2. 2 ^ MaxRetries \in Nat /\ MaxRetries \in Nat
  BY Powers DEF ClientBounds
<1>3. ClientTyped
  <2>1. log \in Seq(ClientRequests)
    BY DEF Client!Init
  <2>2. 0 \in 0 .. 2 ^ MaxRetries /\ 0 \in 0 .. MaxRetries + 1
    BY <1>2
  <2>3. /\ use \in {"plan", "stream", "raw"} /\ clientState = "start" /\ prompt = 1 /\ attempt = 0
        /\ waiting = 0 /\ cancelled = FALSE /\ outcome = "none" /\ reply = Client!NoReply
    BY DEF Client!Init
  <2>4. waiting \in 0 .. 2 ^ MaxRetries /\ attempt \in 0 .. MaxRetries + 1
    BY <2>2, <2>3
  <2>5. reply \in Replies \cup {Client!NoReply} /\ (clientState = "parse" => reply \in Replies)
    BY <2>3
  <2>6. /\ clientState \in {"start", "send", "flight", "backoff", "parse", "over"}
        /\ prompt \in 1 .. 2
        /\ outcome \in {"none", "planned", "answered", "cancelled", "ambiguous", "failed"}
        /\ outcome = "none" /\ clientState # "over"
    BY <2>3
  <2>7. cancelled \in BOOLEAN
    BY <2>3
  <2>. QED BY <2>1, <2>3, <2>4, <2>5, <2>6, <2>7 DEF ClientTyped
<1>4. Attempts /\ Single /\ Repeats /\ LateIsLast /\ ClientAnswered
  <2>1. log = << >> /\ Len(log) = 0 /\ DOMAIN log = {}
    BY DEF Client!Init
  <2>5. clientState = "start" /\ prompt = 1
    BY DEF Client!Init
  <2>2. Attempts /\ Single
    <3>1. \A m \in 1 .. 2 : SentAs(m) = {} /\ Cardinality(SentAs(m)) = 0
      BY <1>1
    <3>2. 0 <= MaxRetries + 1
      BY <1>2
    <3>3. Attempts
      BY <2>5, <3>1, <3>2 DEF Attempts
    <3>4. Single
      BY <2>1, <2>5, <3>1 DEF Single
    <3>. QED BY <3>3, <3>4
  <2>3. Repeats /\ LateIsLast
    BY <2>1 DEF Client!Init, Repeats, LateIsLast
  <2>4. ClientAnswered
    BY DEF Client!Init, ClientAnswered
  <2>. QED BY <2>2, <2>3, <2>4
<1>. QED BY <1>3, <1>4 DEF ClientInv

LEMMA ClientNext == ASSUME ClientBounds, ClientInv, [Client!Next]_(Client!vars) PROVE ClientInv'
<1>1. CASE UNCHANGED Client!vars
  BY <1>1 DEF Client!vars, ClientInv, ClientTyped, Attempts, Single, Repeats, LateIsLast,
  ClientAnswered, SentAs
<1>2. CASE \/ Client!Generate \/ Client!GenerateStream \/ Client!CompleteRaw \/ Client!Poll \/ Client!Waited \/ Client!Cancel
           \/ Client!PlanOrAmbiguous \/ Client!Invalid
  <2>1. UNCHANGED <<use, log>>
    BY <1>2 DEF Client!Generate, Client!GenerateStream, Client!SendUnlessCancelled,
    Client!CompleteRaw, Client!Poll, Client!Waited, Client!Cancel,
                Client!PlanOrAmbiguous, Client!Invalid
  <2>. QED BY <1>2, <2>1, ClientQuietStep
<1>3. CASE Client!Send
  BY <1>3, ClientSendStep
<1>4. CASE Client!AuthFails \/ Client!OtherFails \/ Client!TransientFails \/ Client!Answers
  BY <1>4, ClientEndStep
<1>. QED BY <1>1, <1>2, <1>3, <1>4 DEF Client!Next

THEOREM ClientInductive == ASSUME ClientBounds PROVE Client!Spec => []ClientInv
<1>1. Client!Init => ClientInv
  BY ClientInit
<1>2. ClientInv /\ [Client!Next]_(Client!vars) => ClientInv'
  BY ClientNext
<1>. QED BY <1>1, <1>2, PTL DEF Client!Spec

LEMMA Bounded == ASSUME ClientBounds, ClientInv PROVE Client!RequestsAreBounded
<1>. USE DEF ClientInv, ClientTyped
<1>0. Len(log) \in Nat /\ DOMAIN log = 1 .. Len(log) /\ MaxRetries \in Nat
  BY DEF ClientBounds
<1>1. Cardinality({i \in DOMAIN log : log[i].late}) <= 1
  <2>1. {i \in DOMAIN log : log[i].late} \subseteq {Len(log)}
    BY DEF LateIsLast
  <2>2. Cardinality({Len(log)}) = 1 /\ IsFiniteSet({Len(log)})
    BY FS_Singleton
  <2>. QED BY <2>1, <2>2, FS_Subset
<1>2. ASSUME NEW m \in 1 .. 2
      PROVE  Cardinality({i \in DOMAIN log : log[i].prompt = m}) <=
               IF use = "plan" THEN MaxRetries + 1 ELSE IF m = 1 THEN 1 ELSE 0
  <2>1. CASE use = "plan"
    BY <2>1 DEF Attempts, SentAs
  <2>2. CASE use # "plan" /\ m = 2
    <3>1. {i \in DOMAIN log : log[i].prompt = m} = {}
      BY <2>2 DEF Single, SentAs
    <3>2. Cardinality({}) = 0
      BY FS_EmptySet
    <3>. DEFINE c == Cardinality({i \in DOMAIN log : log[i].prompt = m})
    <3>3. c = 0
      BY <3>1, <3>2
    <3>. HIDE DEF c
    <3>4. c <= IF use = "plan" THEN MaxRetries + 1 ELSE IF m = 1 THEN 1 ELSE 0
      BY <2>2, <3>3
    <3>. QED BY <3>4 DEF c
  <2>3. CASE use # "plan" /\ m = 1
    <3>1. {i \in DOMAIN log : log[i].prompt = m} \subseteq {1}
      BY <1>0, <2>3 DEF Single
    <3>2. Cardinality({1}) = 1 /\ IsFiniteSet({1})
      BY FS_Singleton
    <3>3. Cardinality({i \in DOMAIN log : log[i].prompt = m}) <= 1
      BY <3>1, <3>2, FS_Subset
    <3>. QED BY <2>3, <3>3
  <2>. QED BY <2>1, <2>2, <2>3
<1>3. /\ outcome = "cancelled" => cancelled
      /\ outcome \in {"planned", "ambiguous"} => found = reply.object
      /\ \A i \in 2 .. Len(log) :
           log[i].prompt = log[i - 1].prompt => log[i - 1].ended = "transient"
  BY DEF ClientAnswered, Repeats
<1>. QED BY <1>1, <1>2, <1>3, ClientCounts DEF Client!RequestsAreBounded

\* After a cancel at most one request is sent, a prompt is repeated only after
\* transient failures and so often at most, and the object of an answer is
\* found, whatever its strings hold and whatever follows it.
THEOREM RequestsBounded == ASSUME ClientBounds PROVE Client!Spec => []Client!RequestsAreBounded
<1>1. ClientInv => Client!RequestsAreBounded
  BY Bounded
<1>. QED BY <1>1, ClientInductive, PTL

THEOREM ClientTypes == ASSUME ClientBounds PROVE Client!Spec => []Client!TypeOK
<1>1. ClientInv => Client!TypeOK
  <2>. SUFFICES ASSUME ClientInv PROVE Client!TypeOK
    OBVIOUS
  <2>1. \A i \in DOMAIN log : log[i] \in ClientRequests
    BY DEF ClientInv, ClientTyped
  <2>2. \A i \in DOMAIN log : log[i].ended \in Client!Failures \cup {"open", "text"}
    BY <2>1 DEF ClientRequests
  <2>. QED BY <2>2 DEF ClientInv, ClientTyped, Client!TypeOK
<1>. QED BY <1>1, ClientInductive, PTL
=============================================================================
