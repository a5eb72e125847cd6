------------------------------- MODULE ApiServer -------------------------------
(*****************************************************************************)
(* The shared HTTP server: the endpoints of src/src/api/server.py, the       *)
(* sessions of src/src/api/session.py and the registry of                    *)
(* src/src/api/tenancy.py that maps a user to a session.  One event loop     *)
(* serves requests one at a time; a run has a worker thread, an approval or  *)
(* a rejection another.  An executor is what Executor says it is: running,   *)
(* paused or over.                                                           *)
(*****************************************************************************)
EXTENDS Naturals, Sequences, SequencesExt

CONSTANTS
    Users,
    Approvers,     \* threads of asyncio.to_thread for approve() and reject()
    MaxSessions,   \* the registry's cap
    MaxRetries,    \* Settings.CONDENSER_MAX_RETRIES
    MaxMade,       \* bound: sessions ever made
    MaxRuns,       \* bound: runs ever started
    MaxPreviews    \* bound: plans ever previewed

ASSUME ApiServerAssumption ==
    /\ MaxSessions \in Nat \ {0}
    /\ MaxRetries \in Nat
    /\ MaxMade \in Nat
    /\ MaxRuns \in Nat
    /\ MaxPreviews \in Nat

VARIABLES
    registry,   \* SessionRegistry._sessions, least recently used first
    loop,       \* the request the event loop is serving
    executor,   \* each session's _executor: the run that built it, 0 for None
    plan,       \* each session's _pending_plan: a preview, 0 for None
    worker,     \* the worker thread of each run
    status,     \* the state of each run's executor
    approver    \* the threads that approve or reject

\* Ghost variables.
VARIABLES
    owner,      \* the user each session was made for
    shown       \* the user each preview was shown to

threads == <<worker, status, approver>>
tables == <<registry, executor, plan, owner, shown>>
vars == <<threads, tables, loop>>

Runs == 1..MaxRuns

Registered == {registry[i] : i \in DOMAIN registry}
Made == Len(owner)
Started == Len(worker)

Free == [at |-> "free"]

\* at: where get_session is; todo: the entries its eviction has still to look at;
\* quiet: the first of them was not running; seen: what it was doing then.
Request(at, u, todo) ==
    [at |-> at, user |-> u, todo |-> todo, quiet |-> FALSE, seen |-> "nothing"]
Serving(s) == [at |-> "serve", user |-> loop.user, session |-> s]

\* What a session's executor is doing.
Doing(s) == IF executor[s] = 0 THEN "nothing" ELSE status[executor[s]]
IsRunning(s) == Doing(s) \in {"running", "over"}
IsAwaiting(s) == Doing(s) = "paused"

WorkerAt == {"starting", "running", "reporting", "ended"}
ApproverAt == {"called", "holds", "driving", "clearing"}
Idle == [at |-> "idle"]

States == {"nothing", "running", "paused", "over"}

Scans == [at : {"idle", "cap"}, user : Users, todo : Seq(1..Made),
          quiet : BOOLEAN, seen : States]
Serves == [at : {"serve"}, user : Users, session : 1..Made]
Jobs == [at : WorkerAt, user : Users, session : 1..Made,
         retries : 0..MaxRetries, plan : 0..Len(shown)]
Decisions == [at : ApproverAt, kind : {"approve", "reject", "taken"},
              user : Users, session : 1..Made, run : 0..Started]

TypeOK ==
    /\ owner \in Seq(Users) /\ Made <= MaxMade
    /\ shown \in Seq(Users) /\ Len(shown) <= MaxPreviews
    /\ registry \in Seq(1..Made) /\ IsInjective(registry)
    /\ loop \in {Free} \cup Scans \cup Serves
    /\ executor \in [1..Made -> 0..Started]
    /\ plan \in [1..Made -> 0..Len(shown)]
    /\ worker \in Seq(Jobs) /\ Started <= MaxRuns
    /\ status \in [1..Started -> States]
    /\ approver \in [Approvers -> {Idle} \cup Decisions]

Init ==
    /\ registry = <<>>
    /\ loop = Free
    /\ executor = <<>>
    /\ plan = <<>>
    /\ worker = <<>>
    /\ status = <<>>
    /\ approver = [a \in Approvers |-> Idle]
    /\ owner = <<>>
    /\ shown = <<>>

-----------------------------------------------------------------------------
(* get_session and the registry, with the loop to themselves but not the     *)
(* sessions: each of the two reads of _is_busy takes the session's lock.     *)

\* Entries whose last request has only just handed over to a thread.
JustUsed ==
    {worker[r].session : r \in {q \in DOMAIN worker : worker[q].at = "starting"}}
    \cup {approver[a].session : a \in {b \in Approvers : approver[b].at = "called"}}

\* A request comes in.  The registry is in the order of last use, so the entries
\* idle for too long are its first ones.  (The bound MaxMade leaves room for the
\* session the request may need.)
Receive(u) ==
    /\ loop = Free
    /\ \E n \in 0..Len(registry) :
         /\ \A i \in 1..n : registry[i] \notin JustUsed
         /\ Made < MaxMade \/ \E i \in DOMAIN registry : i > n /\ owner[registry[i]] = u
         /\ loop' = Request("idle", u, SubSeq(registry, 1, n))
    /\ UNCHANGED <<threads, tables>>

Scanning == loop.at \in {"idle", "cap"} /\ loop.todo # <<>>
Candidate == Head(loop.todo)

LooksRunning ==
    /\ Scanning
    /\ ~loop.quiet
    /\ loop' = IF IsRunning(Candidate)
               THEN [loop EXCEPT !.todo = Tail(@)]
               ELSE [loop EXCEPT !.quiet = TRUE, !.seen = Doing(Candidate)]
    /\ UNCHANGED <<threads, tables>>

LooksAwaitingAgain ==   \* mutant: with all sessions busy the scan starts over
    /\ Scanning
    /\ loop.quiet
    /\ IsAwaiting(Candidate)
    /\ loop' = Request(loop.at, loop.user,
                       IF Len(loop.todo) = 1 THEN registry ELSE Tail(loop.todo))
    /\ UNCHANGED <<threads, tables>>

LooksAwaiting ==
    /\ Scanning
    /\ loop.quiet
    /\ IsAwaiting(Candidate)
    /\ loop' = Request(loop.at, loop.user, Tail(loop.todo))
    /\ UNCHANGED <<threads, tables>>

\* Capacity is enforced over the whole registry, while it is too large.
ToScan(entries) == IF Len(entries) > MaxSessions THEN entries ELSE <<>>

EvictWaiting ==   \* mutant: a run waiting on the user is not busy
    /\ Scanning
    /\ loop.quiet
    /\ \E i \in DOMAIN registry :
         registry[i] = Candidate /\ registry' = RemoveAt(registry, i)
    /\ loop' = Request(loop.at, loop.user,
                       IF loop.at = "idle" THEN Tail(loop.todo) ELSE ToScan(registry'))
    /\ UNCHANGED <<threads, executor, plan, owner, shown>>

\* An idle scan goes on with the next; a capacity scan starts over while there
\* are too many.
Evict ==
    /\ Scanning
    /\ loop.quiet
    /\ ~IsAwaiting(Candidate)
    /\ \E i \in DOMAIN registry :
         registry[i] = Candidate /\ registry' = RemoveAt(registry, i)
    /\ loop' = Request(loop.at, loop.user,
                       IF loop.at = "idle" THEN Tail(loop.todo) ELSE ToScan(registry'))
    /\ UNCHANGED <<threads, executor, plan, owner, shown>>

\* move_to_end.
MoveToEnd(i) == registry' = Append(RemoveAt(registry, i), registry[i])

FindAny ==   \* mutant: the entry is not looked up by user
    /\ loop.at = "idle" /\ loop.todo = <<>>
    /\ \E i \in DOMAIN registry : MoveToEnd(i) /\ loop' = Serving(registry[i])
    /\ UNCHANGED <<threads, executor, plan, owner, shown>>

Find ==
    /\ loop.at = "idle" /\ loop.todo = <<>>
    /\ \E i \in DOMAIN registry :
         /\ owner[registry[i]] = loop.user
         /\ MoveToEnd(i)
         /\ loop' = Serving(registry[i])
    /\ UNCHANGED <<threads, executor, plan, owner, shown>>

\* The new session is in the registry when the capacity is enforced, and is
\* answered whether or not it is still there afterwards.
Make ==
    /\ loop.at = "idle" /\ loop.todo = <<>>
    /\ \A s \in Registered : owner[s] # loop.user
    /\ Made < MaxMade
    /\ owner' = Append(owner, loop.user)
    /\ executor' = Append(executor, 0)
    /\ plan' = Append(plan, 0)
    /\ registry' = Append(registry, Made + 1)
    /\ loop' = Request("cap", loop.user, ToScan(registry'))
    /\ UNCHANGED <<threads, shown>>

\* The newest session made is the one Make made.
CapacityScanned ==
    /\ loop.at = "cap" /\ loop.todo = <<>>
    /\ loop' = Serving(Made)
    /\ UNCHANGED <<threads, tables>>

-----------------------------------------------------------------------------
(* The endpoints.                                                            *)

\* 409, or 400 for a plan that is gone, was replaced, or has just expired.
RefuseRun ==
    /\ loop.at = "serve"
    /\ \/ UNCHANGED plan
       \/ ~IsRunning(loop.session) /\ plan' = [plan EXCEPT ![loop.session] = 0]
    /\ loop' = Free
    /\ UNCHANGED <<threads, registry, executor, owner, shown>>

\* A worker for the run; p is the plan the request names, 0 for none.
StartRunKeepingPlan(p) ==   \* mutant: the plan stays pending
    /\ loop.at = "serve"
    /\ ~IsRunning(loop.session)
    /\ p # 0 => plan[loop.session] = p
    /\ Started < MaxRuns
    /\ worker' = Append(worker, [at |-> "starting", user |-> loop.user,
                                 session |-> loop.session, retries |-> MaxRetries,
                                 plan |-> p])
    /\ status' = Append(status, "nothing")
    /\ loop' = Free
    /\ UNCHANGED <<approver, tables>>

StartRun(p) ==
    /\ loop.at = "serve"
    /\ ~IsRunning(loop.session)
    /\ p # 0 => plan[loop.session] = p
    /\ Started < MaxRuns
    /\ plan' = IF p = 0 THEN plan ELSE [plan EXCEPT ![loop.session] = 0]
    /\ worker' = Append(worker, [at |-> "starting", user |-> loop.user,
                                 session |-> loop.session, retries |-> MaxRetries,
                                 plan |-> p])
    /\ status' = Append(status, "nothing")
    /\ loop' = Free
    /\ UNCHANGED <<approver, registry, executor, owner, shown>>

\* plan_only, on the loop itself, and store_plan; OtherAnswer when it is refused.
PreviewPlan ==
    /\ loop.at = "serve"
    /\ ~IsRunning(loop.session)
    /\ Len(shown) < MaxPreviews
    /\ shown' = Append(shown, loop.user)
    /\ plan' = [plan EXCEPT ![loop.session] = Len(shown')]
    /\ loop' = Free
    /\ UNCHANGED <<threads, registry, executor, owner>>

CallApprover(a, kind) ==
    /\ loop.at = "serve"
    /\ approver[a] = Idle
    /\ approver' = [approver EXCEPT ![a] =
                      [at |-> "called", kind |-> kind, user |-> loop.user,
                       session |-> loop.session, run |-> 0]]
    /\ loop' = Free
    /\ UNCHANGED <<worker, status, tables>>

\* cancel() tells the executor, whose run or approval then ends as it may; status
\* and the other endpoints only read.
OtherAnswer ==
    /\ loop.at = "serve"
    /\ loop' = Free
    /\ UNCHANGED <<threads, tables>>

-----------------------------------------------------------------------------
(* run_autonomous_stream on its worker thread.                               *)

WorkerIs(r, where) == worker[r].at = where
Home(r) == worker[r].session
Leave(r) == worker' = [worker EXCEPT ![r].at = "ended", ![r].retries = 0]

\* Condensing or recording the turn raises, before there is an executor.
StartFails(r) ==
    /\ WorkerIs(r, "starting")
    /\ Leave(r)
    /\ UNCHANGED <<status, approver, tables, loop>>

Install(r) ==
    /\ WorkerIs(r, "starting")
    /\ worker' = [worker EXCEPT ![r].at = "running"]
    /\ executor' = [executor EXCEPT ![Home(r)] = r]
    /\ status' = [status EXCEPT ![r] = "running"]
    /\ UNCHANGED <<approver, registry, plan, owner, shown, loop>>

RunPausesCleared(r) ==   \* mutant: the executor is dropped after a pause too
    /\ WorkerIs(r, "running")
    /\ Leave(r)
    /\ status' = [status EXCEPT ![r] = "paused"]
    /\ executor' = [executor EXCEPT ![Home(r)] = 0]
    /\ UNCHANGED <<approver, registry, plan, owner, shown, loop>>

\* executor.run returns awaiting approval: the worker reports it and is done.
RunPauses(r) ==
    /\ WorkerIs(r, "running")
    /\ Leave(r)
    /\ status' = [status EXCEPT ![r] = "paused"]
    /\ UNCHANGED <<approver, tables, loop>>

\* It returns otherwise.
RunFinishes(r) ==
    /\ WorkerIs(r, "running")
    /\ worker' = [worker EXCEPT ![r].at = "reporting"]
    /\ status' = [status EXCEPT ![r] = "over"]
    /\ UNCHANGED <<approver, tables, loop>>

RunRetriedUncounted(r) ==   \* mutant: the limit is not looked at
    /\ WorkerIs(r, "running")
    /\ worker' = [worker EXCEPT ![r].retries = @ - 1]
    /\ executor' = [executor EXCEPT ![Home(r)] = r]
    /\ UNCHANGED <<status, approver, registry, plan, owner, shown, loop>>

\* ContextLengthError, and the history could be condensed: a new executor.
RunRetried(r) ==
    /\ WorkerIs(r, "running")
    /\ worker[r].retries > 0
    /\ worker' = [worker EXCEPT ![r].retries = @ - 1]
    /\ executor' = [executor EXCEPT ![Home(r)] = r]
    /\ UNCHANGED <<status, approver, registry, plan, owner, shown, loop>>

\* Any other error is reported, and the executor stays where it is.
RunFails(r) ==
    /\ WorkerIs(r, "running")
    /\ Leave(r)
    /\ status' = [status EXCEPT ![r] = "over"]
    /\ UNCHANGED <<approver, tables, loop>>

\* Synthesizing the answer or recording it raises.
ReportFails(r) ==
    /\ WorkerIs(r, "reporting")
    /\ Leave(r)
    /\ UNCHANGED <<status, approver, tables, loop>>

\* The report is out; the session's executor is dropped, whichever it is by now.
ReportRun(r) ==
    /\ WorkerIs(r, "reporting")
    /\ Leave(r)
    /\ executor' = [executor EXCEPT ![Home(r)] = 0]
    /\ UNCHANGED <<status, approver, registry, plan, owner, shown, loop>>

-----------------------------------------------------------------------------
(* approve() and reject() on their threads.                                  *)

ApproverIs(a, where) == approver[a] # Idle /\ approver[a].at = where
Held(a) == approver[a].run
Answer(a) == approver' = [approver EXCEPT ![a] = Idle]

\* The executor is looked up under the session's lock and used outside it.
LookUp(a) ==
    /\ ApproverIs(a, "called")
    /\ IF IsAwaiting(approver[a].session)
       THEN approver' = [approver EXCEPT ![a].at = "holds",
                                         ![a].run = executor[approver[a].session]]
       ELSE Answer(a)
    /\ UNCHANGED <<worker, status, tables, loop>>

\* StaleFileError, or the paused state went to somebody else.
ApproverRefused(a) ==
    /\ ApproverIs(a, "holds")
    /\ approver[a].kind = "approve" \/ status[Held(a)] # "paused"
    /\ Answer(a)
    /\ UNCHANGED <<worker, status, tables, loop>>

Take(a) ==
    /\ ApproverIs(a, "holds")
    /\ status[Held(a)] = "paused"
    /\ IF approver[a].kind = "approve"
       THEN /\ approver' = [approver EXCEPT ![a].at = "driving", ![a].kind = "taken"]
            /\ status' = [status EXCEPT ![Held(a)] = "running"]
       ELSE /\ approver' = [approver EXCEPT ![a].at = "clearing", ![a].kind = "taken"]
            /\ status' = [status EXCEPT ![Held(a)] = "over"]
    /\ UNCHANGED <<worker, tables, loop>>

\* The batch could not be applied, or the run paused again.
ApprovalPauses(a) ==
    /\ ApproverIs(a, "driving")
    /\ status' = [status EXCEPT ![Held(a)] = "paused"]
    /\ Answer(a)
    /\ UNCHANGED <<worker, tables, loop>>

\* It raised, or ended as cancelled: the executor stays where it is.
ApprovalEnds(a) ==
    /\ ApproverIs(a, "driving")
    /\ status' = [status EXCEPT ![Held(a)] = "over"]
    /\ Answer(a)
    /\ UNCHANGED <<worker, tables, loop>>

ApprovalFinishes(a) ==
    /\ ApproverIs(a, "driving")
    /\ status' = [status EXCEPT ![Held(a)] = "over"]
    /\ approver' = [approver EXCEPT ![a].at = "clearing"]
    /\ UNCHANGED <<worker, tables, loop>>

ClearApproved(a) ==
    /\ ApproverIs(a, "clearing")
    /\ executor' = [executor EXCEPT ![approver[a].session] = 0]
    /\ Answer(a)
    /\ UNCHANGED <<worker, status, registry, plan, owner, shown, loop>>

-----------------------------------------------------------------------------
GetSession ==
    \/ LooksRunning \/ LooksAwaiting \/ Evict \/ Find \/ Make \/ CapacityScanned

Serve ==
    \/ RefuseRun \/ (\E p \in 0..Len(shown) : StartRun(p))
    \/ PreviewPlan \/ OtherAnswer
    \/ \E a \in Approvers, kind \in {"approve", "reject"} : CallApprover(a, kind)

Work(r) ==
    /\ r \in DOMAIN worker
    /\ \/ StartFails(r) \/ Install(r)
       \/ RunPauses(r) \/ RunFinishes(r) \/ RunRetried(r) \/ RunFails(r)
       \/ ReportFails(r) \/ ReportRun(r)

Decide(a) ==
    \/ LookUp(a) \/ ApproverRefused(a) \/ Take(a)
    \/ ApprovalPauses(a) \/ ApprovalEnds(a) \/ ApprovalFinishes(a)
    \/ ClearApproved(a)

Next ==
    \/ \E u \in Users : Receive(u)
    \/ GetSession \/ Serve
    \/ \E r \in Runs : Work(r)
    \/ \E a \in Approvers : Decide(a)

Spec == Init /\ [][Next]_vars

\* The loop and the threads run; executors answer (Executor's CallsReturn).
FairSpec ==
    /\ Spec
    /\ WF_vars(GetSession \/ Serve)
    /\ \A r \in Runs : WF_vars(Work(r))
    /\ \A a \in Approvers : WF_vars(Decide(a))

-----------------------------------------------------------------------------
(* Properties.                                                               *)

\* A user only ever decides about runs of their own, and runs plans that were
\* previewed to them, however sessions are evicted and made again.
TenantsApart ==
    /\ \A a \in Approvers :
         approver[a] # Idle /\ Held(a) # 0 => worker[Held(a)].user = approver[a].user
    /\ \A r \in DOMAIN worker :
         worker[r].plan # 0 => shown[worker[r].plan] = worker[r].user

\* take_plan: one approval runs once.
PlanRunsOnce ==
    \A q, r \in DOMAIN worker :
        worker[q].plan # 0 /\ worker[q].plan = worker[r].plan => q = r

\* A paused run can be approved or rejected through its session, unless the session
\* has had another run: run, reports and approvals of one run alone never drop it.
Installed(r) == status[r] # "nothing"
PausedIsReachable ==
    \A r \in DOMAIN worker :
        /\ status[r] = "paused"
        /\ \A q \in DOMAIN worker : Home(q) = Home(r) /\ Installed(q) => q = r
        => executor[Home(r)] = r

\* A session that is running or awaiting approval is not evicted, unless what it
\* was doing changed between the two reads of _is_busy.
BusyIsKept ==
    [][\A s \in Registered \ Registered' :
          Doing(s) = loop.seen => ~IsRunning(s) /\ ~IsAwaiting(s)]_vars

\* Every request gets its answer, every run ends its stream, and every approval
\* returns: no path of the code waits for what does not come.
EveryoneIsAnswered ==
    /\ loop # Free ~> loop = Free
    /\ \A r \in Runs : r \in DOMAIN worker ~> r \in DOMAIN worker /\ WorkerIs(r, "ended")
    /\ \A a \in Approvers : approver[a] # Idle ~> approver[a] = Idle

\* docs/DEPLOYMENT.md: a session that is mid-run, or paused waiting for someone to
\* approve a diff, is never evicted.  No exemption for what changes between reads.
BusyIsNeverEvicted ==
    [][\A s \in Registered \ Registered' : ~IsRunning(s) /\ ~IsAwaiting(s)]_vars

\* "A run is already in progress" is only said while one is: some thread works on
\* the session.
RunningIsReal ==
    \A s \in 1..Made :
        IsRunning(s) =>
            \/ \E r \in DOMAIN worker : Home(r) = s /\ ~WorkerIs(r, "ended")
            \/ \E a \in Approvers : approver[a] # Idle /\ approver[a].session = s
=============================================================================
