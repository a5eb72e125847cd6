----------------------------- MODULE ApiServerProofs -----------------------------
(*****************************************************************************)
(* Theorems about ApiServer, for every set of users and of threads, every    *)
(* capacity and every bound.                                                 *)
(*****************************************************************************)
EXTENDS ApiServer, TLAPS

\* Requests, workers and approvers work on a session of their own user.
Owned ==
    /\ loop.at = "serve" => owner[loop.session] = loop.user
    /\ loop.at = "cap" => Made > 0 /\ owner[Made] = loop.user
    /\ \A r \in DOMAIN worker : worker[r].user = owner[Home(r)]
    /\ \A a \in Approvers :
         approver[a] # Idle => approver[a].user = owner[approver[a].session]

\* Executors stay in the session that built them.
Homed ==
    /\ \A s \in 1..Made : executor[s] # 0 => Home(executor[s]) = s
    /\ \A a \in Approvers : approver[a] # Idle =>
         /\ Held(a) # 0 => Home(Held(a)) = approver[a].session
         /\ approver[a].at = "called" <=> Held(a) = 0

\* A plan, pending or taken by a run, was shown to the user of its session.
PlansOwned ==
    /\ \A s \in 1..Made : plan[s] # 0 => shown[plan[s]] = owner[s]
    /\ \A r \in DOMAIN worker :
         worker[r].plan # 0 => shown[worker[r].plan] = worker[r].user

\* A plan is in one place: pending in one session or taken by one run.
PlansOnce ==
    /\ \A s, t \in 1..Made : plan[s] # 0 /\ plan[s] = plan[t] => s = t
    /\ \A s \in 1..Made, r \in DOMAIN worker : plan[s] # 0 => worker[r].plan # plan[s]
    /\ PlanRunsOnce

\* What an executor does and which thread drives it: its worker, an approver that
\* took its pause, or none.
Driven ==
    /\ \A r \in DOMAIN worker :
         /\ WorkerIs(r, "starting") => status[r] = "nothing"
         /\ WorkerIs(r, "running") => status[r] = "running"
         /\ WorkerIs(r, "reporting") => status[r] = "over"
    /\ \A s \in 1..Made : executor[s] # 0 => status[executor[s]] # "nothing"
    /\ \A a \in Approvers : approver[a] # Idle =>
         /\ Held(a) # 0 => WorkerIs(Held(a), "ended")
         /\ approver[a].at = "driving" => status[Held(a)] = "running"
         /\ approver[a].at = "clearing" => status[Held(a)] = "over"
    /\ \A a, b \in Approvers :
         ApproverIs(a, "driving") /\ ApproverIs(b, "driving") /\ Held(a) = Held(b) => a = b

\* The only run of a session: no other has had an executor there.
Alone(r) == \A q \in DOMAIN worker : Home(q) = Home(r) /\ Installed(q) => q = r

\* While it goes on, its executor is the session's.
Reachable ==
    \A r \in DOMAIN worker :
        status[r] \in {"running", "paused"} /\ Alone(r) => executor[Home(r)] = r

\* The first read of _is_busy found no run in progress.
SeenQuiet == loop.at \in {"idle", "cap"} /\ loop.quiet => loop.seen \in {"nothing", "paused"}

IInv == TypeOK /\ Owned /\ Homed /\ PlansOwned /\ PlansOnce /\ Driven /\ Reachable /\ SeenQuiet

-----------------------------------------------------------------------------
(* Lemmas on the data.                                                       *)

\* What is known of a request that is looking for its session.
LEMMA ScanParts ==
    ASSUME TypeOK, loop.at \in {"idle", "cap"}
    PROVE  /\ loop \in Scans
           /\ loop.user \in Users /\ loop.todo \in Seq(1..Made)
           /\ loop.quiet \in BOOLEAN /\ loop.seen \in States
<1>1. loop \in Scans
  BY DEF TypeOK, Free, Serves
<1>. QED BY <1>1 DEF Scans

\* And of one that has found it.
LEMMA ServeParts ==
    ASSUME TypeOK, loop.at = "serve"
    PROVE  loop.user \in Users /\ loop.session \in 1..Made
<1>1. loop \in Serves
  BY DEF TypeOK, Free, Scans
<1>. QED BY <1>1 DEF Serves

\* The fields of a run.
LEMMA JobParts ==
    ASSUME TypeOK, NEW r \in DOMAIN worker
    PROVE  /\ r \in 1..Started /\ worker[r] \in Jobs
           /\ worker[r].at \in WorkerAt /\ worker[r].user \in Users
           /\ Home(r) \in 1..Made /\ worker[r].retries \in 0..MaxRetries
           /\ worker[r].plan \in 0..Len(shown) /\ status[r] \in States
<1>1. r \in 1..Started /\ worker[r] \in Jobs
  BY DEF TypeOK, Started
<1>. QED BY <1>1 DEF Jobs, Home, TypeOK

\* The fields of a decision.
LEMMA DecisionParts ==
    ASSUME TypeOK, NEW a \in Approvers, approver[a] # Idle
    PROVE  /\ approver[a] \in Decisions
           /\ approver[a].at \in ApproverAt
           /\ approver[a].kind \in {"approve", "reject", "taken"}
           /\ approver[a].user \in Users /\ approver[a].session \in 1..Made
           /\ Held(a) \in 0..Started
<1>1. approver[a] \in Decisions
  BY DEF TypeOK
<1>. QED BY <1>1 DEF Decisions, Held

\* The values of a sequence and one more, and of two sequences.
LEMMA Appended ==
    ASSUME NEW S, NEW s \in Seq(S), NEW e \in S
    PROVE  /\ Append(s, e) \in Seq(S)
           /\ Len(Append(s, e)) = Len(s) + 1
           /\ DOMAIN Append(s, e) = 1..(Len(s) + 1)
           /\ \A k \in 1..(Len(s) + 1) :
                 Append(s, e)[k] = IF k = Len(s) + 1 THEN e ELSE s[k]
OBVIOUS

LEMMA Concatenated ==
    ASSUME NEW S, NEW s \in Seq(S), NEW t \in Seq(S)
    PROVE  /\ s \o t \in Seq(S)
           /\ Len(s \o t) = Len(s) + Len(t)
           /\ \A k \in 1..(Len(s) + Len(t)) :
                 (s \o t)[k] = IF k <= Len(s) THEN s[k] ELSE t[k - Len(s)]
OBVIOUS

\* A registry without its i-th entry.
LEMMA RemoveOne ==
    ASSUME NEW S, NEW s \in Seq(S), IsInjective(s), NEW i \in DOMAIN s
    PROVE  /\ RemoveAt(s, i) \in Seq(S)
           /\ Len(RemoveAt(s, i)) = Len(s) - 1
           /\ \A k \in 1..(Len(s) - 1) :
                 RemoveAt(s, i)[k] = IF k < i THEN s[k] ELSE s[k + 1]
           /\ IsInjective(RemoveAt(s, i))
           /\ IsInjective(Append(RemoveAt(s, i), s[i]))
<1>. DEFINE n == Len(s)
            t == RemoveAt(s, i)
            u == Append(t, s[i])
<1>1. /\ n \in Nat /\ i \in 1..n /\ DOMAIN s = 1..n
      /\ \A k \in 1..n : s[k] \in S
      /\ \A j, k \in 1..n : s[j] = s[k] => j = k
  BY DEF IsInjective
<1>2. /\ SubSeq(s, 1, i - 1) \in Seq(S) /\ Len(SubSeq(s, 1, i - 1)) = i - 1
      /\ SubSeq(s, i + 1, n) \in Seq(S) /\ Len(SubSeq(s, i + 1, n)) = n - i
  BY <1>1
<1>3. t \in Seq(S) /\ Len(t) = n - 1
  BY <1>1, <1>2, Concatenated DEF RemoveAt
<1>4. ASSUME NEW k \in 1..(n - 1)
      PROVE  t[k] = IF k < i THEN s[k] ELSE s[k + 1]
  <2>. DEFINE a == SubSeq(s, 1, i - 1)
              b == SubSeq(s, i + 1, n)
  <2>1. t = a \o b
    BY DEF RemoveAt
  <2>2. /\ \A m \in 1..(i - 1) : a[m] = s[m]
        /\ \A m \in 1..(n - i) : b[m] = s[m + i]
    BY <1>1
  <2>3. a \in Seq(S) /\ b \in Seq(S) /\ Len(a) = i - 1 /\ Len(b) = n - i
    BY <1>2
  <2>. HIDE DEF t, a, b
  <2>4. t[k] = IF k <= i - 1 THEN a[k] ELSE b[k - (i - 1)]
    BY <1>1, <2>1, <2>3, Concatenated
  <2>5. CASE k < i
    BY <1>1, <2>2, <2>4, <2>5
  <2>6. CASE k >= i
    <3>1. /\ ~(k <= i - 1) /\ k - (i - 1) \in 1..(n - i)
          /\ (k - (i - 1)) + i = k + 1
      BY <1>1, <2>6
    <3>. QED BY <2>2, <2>4, <2>6, <1>1, <3>1
  <2>. QED BY <1>1, <2>5, <2>6
<1>5. \A j, k \in 1..(n - 1) : t[j] = t[k] => j = k
  <2>. SUFFICES ASSUME NEW j \in 1..(n - 1), NEW k \in 1..(n - 1), t[j] = t[k]
                PROVE  j = k
    OBVIOUS
  <2>. DEFINE at(m) == IF m < i THEN m ELSE m + 1
  <2>1. t[j] = s[at(j)] /\ t[k] = s[at(k)]
    BY <1>4
  <2>2. at(j) \in 1..n /\ at(k) \in 1..n
    BY <1>1
  <2>3. at(j) = at(k)
    BY <1>1, <2>1, <2>2
  <2>. QED BY <1>1, <2>3
<1>6. IsInjective(t)
  BY <1>3, <1>5 DEF IsInjective
<1>7. \A k \in 1..(n - 1) : t[k] # s[i]
  BY <1>1, <1>4
<1>8. /\ DOMAIN u = 1..n
      /\ \A k \in 1..n : u[k] = IF k = n THEN s[i] ELSE t[k]
  <2>1. s[i] \in S /\ Len(t) + 1 = n
    BY <1>1, <1>3
  <2>. HIDE DEF t
  <2>. QED BY <1>3, <2>1, Appended
<1>9. IsInjective(u)
  <2>. HIDE DEF u, n, t
  <2>. SUFFICES ASSUME NEW j \in 1..n, NEW k \in 1..n, u[j] = u[k]
                PROVE  j = k
    BY <1>8 DEF IsInjective
  <2>1. u[j] = (IF j = n THEN s[i] ELSE t[j]) /\ u[k] = (IF k = n THEN s[i] ELSE t[k])
    BY <1>8
  <2>2. (j # n => j \in 1..(n - 1)) /\ (k # n => k \in 1..(n - 1))
    BY <1>1
  <2>. QED BY <1>5, <1>7, <2>1, <2>2
<1>. HIDE DEF t, u
<1>10. /\ t \in Seq(S) /\ Len(t) = Len(s) - 1
       /\ \A k \in 1..(Len(s) - 1) : t[k] = IF k < i THEN s[k] ELSE s[k + 1]
       /\ IsInjective(t) /\ IsInjective(u)
  BY <1>3, <1>4, <1>6, <1>9
<1>. QED BY <1>10 DEF t, u

\* It keeps every other entry; put at the end, the i-th stays too.
LEMMA RemovedOne ==
    ASSUME NEW S, NEW s \in Seq(S), IsInjective(s), NEW i \in DOMAIN s, NEW j \in DOMAIN s
    PROVE  /\ j # i => \E k \in DOMAIN RemoveAt(s, i) : RemoveAt(s, i)[k] = s[j]
           /\ \E k \in DOMAIN Append(RemoveAt(s, i), s[i]) :
                 Append(RemoveAt(s, i), s[i])[k] = s[j]
<1>. DEFINE n == Len(s)
            t == RemoveAt(s, i)
            u == Append(t, s[i])
            k == IF j < i THEN j ELSE j - 1
<1>1. n \in Nat /\ i \in 1..n /\ j \in 1..n /\ s[i] \in S
  OBVIOUS
<1>2. /\ t \in Seq(S) /\ Len(t) = n - 1 /\ DOMAIN t = 1..(n - 1)
      /\ \A m \in 1..(n - 1) : t[m] = IF m < i THEN s[m] ELSE s[m + 1]
  BY RemoveOne
<1>. HIDE DEF t
<1>3. /\ DOMAIN u = 1..n
      /\ \A m \in 1..n : u[m] = IF m = n THEN s[i] ELSE t[m]
  <2>1. Len(t) + 1 = n
    BY <1>1, <1>2
  <2>. QED BY <1>1, <1>2, <2>1, Appended
<1>. HIDE DEF u, n
<1>4. CASE j # i
  <2>1. k \in 1..(n - 1) /\ k \in 1..n /\ k # n
    BY <1>1, <1>4
  <2>2. s[j] = t[k]
    BY <1>1, <1>2, <1>4, <2>1
  <2>. QED BY <1>2, <1>3, <2>1, <2>2 DEF t, u
<1>5. CASE j = i
  <2>1. n \in 1..n /\ u[n] = s[j]
    BY <1>1, <1>3, <1>5
  <2>. QED BY <1>3, <1>5, <2>1 DEF t, u
<1>. QED BY <1>4, <1>5

\* A sequence with another value at i, and over a larger set; a function as one.
LEMMA Updated ==
    ASSUME NEW S, NEW s \in Seq(S), NEW i \in DOMAIN s, NEW e \in S
    PROVE  /\ [s EXCEPT ![i] = e] \in Seq(S)
           /\ Len([s EXCEPT ![i] = e]) = Len(s)
           /\ DOMAIN [s EXCEPT ![i] = e] = DOMAIN s
OBVIOUS

LEMMA Replaced ==
    ASSUME NEW D, NEW S, NEW f \in [D -> S], NEW i, NEW e \in S
    PROVE  [f EXCEPT ![i] = e] \in [D -> S]
OBVIOUS

LEMMA Widened ==
    ASSUME NEW S, NEW T, S \subseteq T, NEW s \in Seq(S)
    PROVE  s \in Seq(T)
OBVIOUS

LEMMA AsSequence ==
    ASSUME NEW S, NEW n \in Nat, NEW f \in [1..n -> S]
    PROVE  f \in Seq(S) /\ Len(f) = n
OBVIOUS

LEMMA AsFunction ==
    ASSUME NEW S, NEW s \in Seq(S)
    PROVE  s \in [1..Len(s) -> S]
OBVIOUS

LEMMA Extended ==
    ASSUME NEW S, NEW n \in Nat, NEW f \in [1..n -> S], NEW e \in S
    PROVE  /\ Append(f, e) \in [1..(n + 1) -> S]
           /\ \A k \in 1..(n + 1) : Append(f, e)[k] = IF k = n + 1 THEN e ELSE f[k]
<1>1. f \in Seq(S) /\ Len(f) = n
  BY AsSequence
<1>2. /\ Append(f, e) \in Seq(S) /\ Len(Append(f, e)) = n + 1
      /\ \A k \in 1..(n + 1) : Append(f, e)[k] = IF k = n + 1 THEN e ELSE f[k]
  BY <1>1, Appended
<1>. QED BY <1>2, AsFunction

\* The first values of a sequence, the very first and the others.
LEMMA Cut ==
    ASSUME NEW S, NEW s \in Seq(S)
    PROVE  /\ \A n \in 0..Len(s) : SubSeq(s, 1, n) \in Seq(S)
           /\ s # <<>> => Head(s) \in S /\ Tail(s) \in Seq(S)
           /\ \A i \in DOMAIN s : s[i] \in S
OBVIOUS

\* A new entry.
LEMMA Fresh ==
    ASSUME NEW S, NEW s \in Seq(S), IsInjective(s), NEW e \in S,
           \A i \in DOMAIN s : s[i] # e
    PROVE  IsInjective(Append(s, e))
<1>. DEFINE t == Append(s, e)
            n == Len(s)
<1>1. DOMAIN s = 1..n /\ n \in Nat
  OBVIOUS
<1>2. DOMAIN t = 1..(n + 1) /\ \A k \in 1..(n + 1) : t[k] = IF k = n + 1 THEN e ELSE s[k]
  BY Appended
<1>. HIDE DEF t, n
<1>3. ASSUME NEW j \in 1..(n + 1), NEW k \in 1..(n + 1), t[j] = t[k]
      PROVE  j = k
  <2>1. (j # n + 1 => j \in DOMAIN s) /\ (k # n + 1 => k \in DOMAIN s)
    BY <1>1
  <2>. QED BY <1>2, <1>3, <2>1 DEF IsInjective
<1>4. IsInjective(t)
  BY <1>2, <1>3 DEF IsInjective
<1>. QED BY <1>4 DEF t

\* The entries a capacity scan looks at.
LEMMA ScanOf ==
    ASSUME NEW S, NEW s \in Seq(S)
    PROVE  ToScan(s) \in Seq(S)
BY DEF ToScan

-----------------------------------------------------------------------------
(* Each step keeps the types.                                                *)

\* Nothing the loop is about disturbs the rest.
Rest ==
    /\ owner \in Seq(Users) /\ Made <= MaxMade
    /\ shown \in Seq(Users) /\ Len(shown) <= MaxPreviews
    /\ registry \in Seq(1..Made) /\ IsInjective(registry)
    /\ executor \in [1..Made -> 0..Started]
    /\ plan \in [1..Made -> 0..Len(shown)]
    /\ worker \in Seq(Jobs) /\ Started <= MaxRuns
    /\ status \in [1..Started -> States]
    /\ approver \in [Approvers -> {Idle} \cup Decisions]

LEMMA RestKept ==
    ASSUME TypeOK, UNCHANGED <<threads, tables>>
    PROVE  Rest'
BY DEF TypeOK, Rest, threads, tables, Made, Started, Jobs, Decisions

LEMMA TypeLoop ==
    ASSUME TypeOK, Owned,
           (\E u \in Users : Receive(u)) \/ LooksRunning \/ LooksAwaiting \/ CapacityScanned
    PROVE  TypeOK'
<1>1. Rest' /\ Made' = Made
  BY RestKept DEF Receive, LooksRunning, LooksAwaiting, CapacityScanned, threads, tables, Made
<1>2. CASE \E u \in Users : Receive(u)
  <2>1. PICK u \in Users, n \in 0..Len(registry) :
          loop' = Request("idle", u, SubSeq(registry, 1, n))
    BY <1>2 DEF Receive
  <2>2. SubSeq(registry, 1, n) \in Seq(1..Made)
    BY Cut DEF TypeOK
  <2>3. loop' \in Scans'
    BY <1>1, <2>1, <2>2 DEF Request, Scans, States
  <2>. QED BY <1>1, <2>3 DEF TypeOK, Rest
<1>3. CASE LooksRunning
  <2>1. loop.at \in {"idle", "cap"} /\ loop.todo # <<>>
    BY <1>3 DEF LooksRunning, Scanning
  <2>2. loop \in Scans /\ loop.todo \in Seq(1..Made) /\ Tail(loop.todo) \in Seq(1..Made)
    BY <2>1, ScanParts, Cut
  <2>3. Candidate \in 1..Made
    BY <2>1, <2>2, Cut DEF Candidate
  <2>4. Doing(Candidate) \in States
    BY <2>3 DEF Doing, TypeOK, States
  <2>5. loop' \in Scans'
    BY <1>1, <1>3, <2>2, <2>4 DEF LooksRunning, Scans
  <2>. QED BY <1>1, <2>5 DEF TypeOK, Rest
<1>4. CASE LooksAwaiting
  <2>1. loop.at \in {"idle", "cap"} /\ loop.todo # <<>>
    BY <1>4 DEF LooksAwaiting, Scanning
  <2>2. loop.user \in Users /\ Tail(loop.todo) \in Seq(1..Made)
    BY <2>1, ScanParts, Cut
  <2>3. loop' \in Scans'
    BY <1>1, <1>4, <2>1, <2>2 DEF LooksAwaiting, Request, Scans, States
  <2>. QED BY <1>1, <2>3 DEF TypeOK, Rest
<1>5. CASE CapacityScanned
  <2>1. loop.user \in Users /\ Made \in 1..Made
    BY <1>5, ScanParts DEF CapacityScanned, Owned, TypeOK, Made
  <2>2. loop' \in Serves'
    BY <1>1, <1>5, <2>1 DEF CapacityScanned, Serving, Serves
  <2>. QED BY <1>1, <2>2 DEF TypeOK, Rest
<1>. QED BY <1>2, <1>3, <1>4, <1>5

LEMMA TypeRegistry ==
    ASSUME TypeOK, Evict \/ Find \/ Make
    PROVE  TypeOK'
<1>1. CASE Evict
  <2>1. loop.at \in {"idle", "cap"} /\ loop.todo # <<>>
    BY <1>1 DEF Evict, Scanning
  <2>2. loop.user \in Users /\ Tail(loop.todo) \in Seq(1..Made)
    BY <2>1, ScanParts, Cut
  <2>3. registry' \in Seq(1..Made) /\ IsInjective(registry')
    BY <1>1, RemoveOne DEF Evict, TypeOK
  <2>4. UNCHANGED <<worker, status, approver, executor, plan, owner, shown>> /\ Made' = Made
    BY <1>1 DEF Evict, threads, Made
  <2>5. loop' \in Scans'
    BY <1>1, <2>1, <2>2, <2>3, <2>4, ScanOf DEF Evict, Request, Scans, States
  <2>. QED BY <2>3, <2>4, <2>5 DEF TypeOK, Made, Started, Jobs, Decisions
<1>2. CASE Find
  <2>1. PICK i \in DOMAIN registry :
          /\ registry' = Append(RemoveAt(registry, i), registry[i])
          /\ loop' = Serving(registry[i])
    BY <1>2 DEF Find, MoveToEnd
  <2>2. registry[i] \in 1..Made
    BY Cut DEF TypeOK
  <2>3. registry' \in Seq(1..Made) /\ IsInjective(registry')
    BY <2>1, <2>2, RemoveOne, Appended DEF TypeOK
  <2>4. UNCHANGED <<worker, status, approver, executor, plan, owner, shown>> /\ Made' = Made
    BY <1>2 DEF Find, threads, Made
  <2>5. loop' \in Serves'
    BY <1>2, <2>1, <2>2, <2>4, ScanParts DEF Find, Serving, Serves
  <2>. QED BY <2>3, <2>4, <2>5 DEF TypeOK, Made, Started, Jobs, Decisions
<1>3. CASE Make
  <2>1. Made \in Nat /\ loop.user \in Users
    BY <1>3, ScanParts DEF Make, TypeOK, Made
  <2>2. owner' \in Seq(Users) /\ Made' = Made + 1 /\ Made' <= MaxMade
    <3>1. owner \in Seq(Users) /\ owner' = Append(owner, loop.user) /\ Made < MaxMade
      BY <1>3 DEF TypeOK, Make
    <3>2. owner' \in Seq(Users) /\ Made' = Made + 1
      BY <2>1, <3>1, Appended DEF Made
    <3>. QED BY <2>1, <3>1, <3>2, ApiServerAssumption
  <2>3. 1..Made \subseteq 1..Made' /\ Made' \in 1..Made'
    BY <2>1, <2>2
  <2>4. registry' \in Seq(1..Made') /\ IsInjective(registry')
    <3>1. registry \in Seq(1..Made) /\ registry \in Seq(1..Made') /\ IsInjective(registry)
      BY <2>3, Widened DEF TypeOK
    <3>2. \A i \in DOMAIN registry : registry[i] # Made'
      BY <2>1, <2>2, <3>1, Cut
    <3>3. registry' = Append(registry, Made')
      BY <1>3, <2>2 DEF Make
    <3>. QED BY <2>3, <3>1, <3>2, <3>3, Fresh, Appended
  <2>5. UNCHANGED <<worker, status, approver, shown>>
    BY <1>3 DEF Make, threads
  <2>6. executor' \in [1..Made' -> 0..Started'] /\ plan' \in [1..Made' -> 0..Len(shown')]
    <3>1. Started \in Nat /\ Len(shown) \in Nat
      BY DEF TypeOK, Started
    <3>2. executor \in [1..Made -> 0..Started] /\ plan \in [1..Made -> 0..Len(shown)]
      BY DEF TypeOK
    <3>3. executor' = Append(executor, 0) /\ plan' = Append(plan, 0)
      BY <1>3 DEF Make
    <3>4. Started' = Started /\ 0 \in 0..Started /\ 0 \in 0..Len(shown)
      BY <2>5, <3>1 DEF Started
    <3>. QED BY <2>1, <2>2, <2>5, <3>2, <3>3, <3>4, Extended
  <2>7. Jobs \subseteq Jobs' /\ Decisions \subseteq Decisions'
    BY <2>3, <2>5 DEF Jobs, Decisions, Started
  <2>8. worker' \in Seq(Jobs') /\ approver' \in [Approvers -> {Idle} \cup Decisions']
    BY <2>5, <2>7, Widened DEF TypeOK
  <2>9. loop' \in Scans'
    BY <1>3, <2>1, <2>4, ScanOf DEF Make, Request, Scans, States
  <2>. QED BY <2>2, <2>4, <2>5, <2>6, <2>8, <2>9 DEF TypeOK, Started
<1>. QED BY <1>1, <1>2, <1>3

LEMMA TypeEndpoints ==
    ASSUME TypeOK, Serve
    PROVE  TypeOK'
<1>1. loop.at = "serve" /\ loop.user \in Users /\ loop.session \in 1..Made /\ loop' = Free
  <2>1. loop.at = "serve" /\ loop' = Free
    BY DEF Serve, RefuseRun, StartRun, PreviewPlan, OtherAnswer, CallApprover
  <2>. QED BY <2>1, ServeParts
<1>2. /\ Made \in Nat /\ Started \in Nat /\ Len(shown) \in Nat
      /\ owner \in Seq(Users) /\ shown \in Seq(Users) /\ worker \in Seq(Jobs)
      /\ plan \in [1..Made -> 0..Len(shown)] /\ executor \in [1..Made -> 0..Started]
      /\ status \in [1..Started -> States]
      /\ approver \in [Approvers -> {Idle} \cup Decisions]
  BY DEF TypeOK, Made, Started
<1>3. CASE RefuseRun
  <2>1. plan' \in [1..Made -> 0..Len(shown)]
    <3>1. plan' = plan \/ plan' = [plan EXCEPT ![loop.session] = 0]
      BY <1>3 DEF RefuseRun
    <3>2. 0 \in 0..Len(shown) /\ plan \in [1..Made -> 0..Len(shown)]
      BY <1>2
    <3>3. [plan EXCEPT ![loop.session] = 0] \in [1..Made -> 0..Len(shown)]
      BY <3>2, Replaced
    <3>. QED BY <3>1, <3>2, <3>3
  <2>2. UNCHANGED <<threads, registry, executor, owner, shown>>
    BY <1>3 DEF RefuseRun
  <2>. QED BY <1>1, <2>1, <2>2 DEF TypeOK, threads, Made, Started, Jobs, Decisions
<1>4. ASSUME NEW p \in 0..Len(shown), StartRun(p)
      PROVE  TypeOK'
  <2>1. UNCHANGED <<approver, registry, executor, owner, shown>> /\ Made' = Made
    BY <1>4 DEF StartRun, Made
  <2>2. plan' \in [1..Made -> 0..Len(shown)]
    <3>1. plan' = plan \/ plan' = [plan EXCEPT ![loop.session] = 0]
      BY <1>4 DEF StartRun
    <3>2. 0 \in 0..Len(shown) /\ plan \in [1..Made -> 0..Len(shown)]
      BY <1>2
    <3>3. [plan EXCEPT ![loop.session] = 0] \in [1..Made -> 0..Len(shown)]
      BY <3>2, Replaced
    <3>. QED BY <3>1, <3>2, <3>3
  <2>3. Started < MaxRuns
    BY <1>4 DEF StartRun
  <2>4. Jobs' = Jobs
    BY <2>1 DEF Jobs
  <2>5. worker' \in Seq(Jobs) /\ Started' = Started + 1
    <3>. DEFINE job == [at |-> "starting", user |-> loop.user, session |-> loop.session,
                        retries |-> MaxRetries, plan |-> p]
    <3>1. job \in Jobs
      BY <1>1, <1>4, ApiServerAssumption DEF Jobs, WorkerAt
    <3>2. worker' = Append(worker, job)
      BY <1>4 DEF StartRun
    <3>. QED BY <1>2, <3>1, <3>2, Appended DEF Started
  <2>6. status' \in [1..Started' -> States]
    <3>1. status' = Append(status, "nothing") /\ "nothing" \in States
      BY <1>4 DEF StartRun, States
    <3>. QED BY <1>2, <2>5, <3>1, Extended
  <2>7. executor \in [1..Made -> 0..Started']
    BY <1>2, <2>5
  <2>8. Decisions \subseteq Decisions'
    BY <1>2, <2>1, <2>5 DEF Decisions
  <2>9. Started' <= MaxRuns
    BY <1>2, <2>3, <2>5, ApiServerAssumption
  <2>. QED BY <1>1, <1>2, <2>1, <2>2, <2>4, <2>5, <2>6, <2>7, <2>8, <2>9 DEF TypeOK
<1>5. CASE PreviewPlan
  <2>1. shown' \in Seq(Users) /\ Len(shown') = Len(shown) + 1
    <3>1. shown' = Append(shown, loop.user)
      BY <1>5 DEF PreviewPlan
    <3>. QED BY <1>1, <1>2, <3>1, Appended
  <2>2. Len(shown') <= MaxPreviews
    BY <1>2, <1>5, <2>1, ApiServerAssumption DEF PreviewPlan
  <2>3. UNCHANGED <<threads, registry, executor, owner>> /\ Made' = Made /\ Started' = Started
    BY <1>5 DEF PreviewPlan, threads, Made, Started
  <2>4. plan' \in [1..Made -> 0..Len(shown')]
    <3>1. plan' = [plan EXCEPT ![loop.session] = Len(shown')]
      BY <1>5 DEF PreviewPlan
    <3>2. plan \in [1..Made -> 0..Len(shown')] /\ Len(shown') \in 0..Len(shown')
      BY <1>2, <2>1
    <3>. QED BY <3>1, <3>2, Replaced
  <2>5. Jobs \subseteq Jobs' /\ Decisions' = Decisions
    BY <1>2, <2>1, <2>3 DEF Jobs, Decisions
  <2>6. worker \in Seq(Jobs')
    BY <1>2, <2>5, Widened
  <2>. QED BY <1>1, <2>1, <2>2, <2>3, <2>4, <2>5, <2>6 DEF TypeOK, threads
<1>6. CASE OtherAnswer
  BY <1>1, <1>6 DEF OtherAnswer, TypeOK, threads, tables, Made, Started, Jobs, Decisions
<1>7. ASSUME NEW a \in Approvers, NEW kind \in {"approve", "reject"}, CallApprover(a, kind)
      PROVE  TypeOK'
  <2>1. UNCHANGED <<worker, status, tables>>
    BY <1>7 DEF CallApprover
  <2>2. approver' \in [Approvers -> {Idle} \cup Decisions]
    <3>. DEFINE call == [at |-> "called", kind |-> kind, user |-> loop.user,
                         session |-> loop.session, run |-> 0]
    <3>1. call \in Decisions
      BY <1>1, <1>2, <1>7 DEF Decisions, ApproverAt
    <3>2. approver' = [approver EXCEPT ![a] = call]
      BY <1>7 DEF CallApprover
    <3>. HIDE DEF call
    <3>. QED BY <1>2, <3>1, <3>2
  <2>. QED BY <1>1, <2>1, <2>2 DEF TypeOK, tables, Made, Started, Jobs, Decisions
<1>. QED BY <1>3, <1>4, <1>5, <1>6, <1>7 DEF Serve

\* A worker moves on, for the same user, session and plan.
SameJob(e, j) == e.user = j.user /\ e.session = j.session /\ e.plan = j.plan

LEMMA WorkerMoves ==
    ASSUME TypeOK, NEW r \in Runs, Work(r)
    PROVE  \E e \in Jobs : worker' = [worker EXCEPT ![r] = e] /\ SameJob(e, worker[r])
<1>1. /\ r \in DOMAIN worker /\ worker[r] \in Jobs /\ worker[r].retries \in 0..MaxRetries
      /\ MaxRetries \in Nat
  BY JobParts, ApiServerAssumption DEF Work
<1>2. CASE Leave(r)
  <2>. DEFINE e == [worker[r] EXCEPT !.at = "ended", !.retries = 0]
  <2>1. 0 \in 0..MaxRetries /\ "ended" \in WorkerAt
    BY <1>1 DEF WorkerAt
  <2>2. e \in Jobs /\ SameJob(e, worker[r])
    BY <1>1, <2>1 DEF Jobs, SameJob
  <2>3. worker' = [worker EXCEPT ![r] = e]
    BY <1>1, <1>2 DEF Leave, Jobs
  <2>. QED BY <2>2, <2>3
<1>3. CASE \E at \in WorkerAt : worker' = [worker EXCEPT ![r].at = at]
  <2>1. PICK at \in WorkerAt : worker' = [worker EXCEPT ![r].at = at]
    BY <1>3
  <2>. DEFINE e == [worker[r] EXCEPT !.at = at]
  <2>2. e \in Jobs /\ SameJob(e, worker[r])
    BY <1>1 DEF Jobs, SameJob
  <2>. QED BY <2>1, <2>2
<1>4. CASE RunRetried(r)
  <2>. DEFINE e == [worker[r] EXCEPT !.retries = @ - 1]
  <2>1. worker[r].retries - 1 \in 0..MaxRetries
    BY <1>1, <1>4 DEF RunRetried
  <2>2. e \in Jobs /\ SameJob(e, worker[r])
    BY <1>1, <2>1 DEF Jobs, SameJob
  <2>3. worker' = [worker EXCEPT ![r] = e]
    BY <1>4 DEF RunRetried
  <2>. QED BY <2>2, <2>3
<1>. QED BY <1>2, <1>3, <1>4 DEF Work, StartFails, Install, RunPauses, RunFinishes, RunFails,
            ReportFails, ReportRun, WorkerAt

\* An approver answers or moves on, for the same user and session.
SameCall(e, d) == e.user = d.user /\ e.session = d.session

LEMMA ApproverMoves ==
    ASSUME TypeOK, NEW a \in Approvers, Decide(a)
    PROVE  \/ Answer(a)
           \/ \E e \in Decisions : approver' = [approver EXCEPT ![a] = e] /\ SameCall(e, approver[a])
<1>1. approver[a] # Idle
  BY DEF Decide, LookUp, ApproverRefused, Take, ApprovalPauses, ApprovalEnds,
         ApprovalFinishes, ClearApproved, ApproverIs
<1>2. /\ approver[a] \in Decisions /\ approver[a].session \in 1..Made
      /\ executor[approver[a].session] \in 0..Started
  BY <1>1, DecisionParts DEF TypeOK
<1>3. CASE LookUp(a) /\ ~Answer(a)
  <2>. DEFINE e == [approver[a] EXCEPT !.at = "holds", !.run = executor[approver[a].session]]
  <2>1. e \in Decisions /\ SameCall(e, approver[a])
    BY <1>2 DEF Decisions, ApproverAt, SameCall
  <2>2. approver' = [approver EXCEPT ![a] = e]
    BY <1>2, <1>3 DEF LookUp, Decisions
  <2>. QED BY <2>1, <2>2
<1>4. CASE Take(a)
  <2>1. PICK at \in {"driving", "clearing"} :
          approver' = [approver EXCEPT ![a].at = at, ![a].kind = "taken"]
    BY <1>4 DEF Take
  <2>. DEFINE e == [approver[a] EXCEPT !.at = at, !.kind = "taken"]
  <2>2. e \in Decisions /\ SameCall(e, approver[a])
    BY <1>2 DEF Decisions, ApproverAt, SameCall
  <2>3. approver' = [approver EXCEPT ![a] = e]
    BY <1>2, <2>1 DEF Decisions
  <2>. QED BY <2>2, <2>3
<1>5. CASE ApprovalFinishes(a)
  <2>. DEFINE e == [approver[a] EXCEPT !.at = "clearing"]
  <2>1. e \in Decisions /\ SameCall(e, approver[a])
    BY <1>2 DEF Decisions, ApproverAt, SameCall
  <2>2. approver' = [approver EXCEPT ![a] = e]
    BY <1>5 DEF ApprovalFinishes
  <2>. QED BY <2>1, <2>2
<1>. QED BY <1>3, <1>4, <1>5
         DEF Decide, LookUp, ApproverRefused, ApprovalPauses, ApprovalEnds, ClearApproved

LEMMA TypeWork ==
    ASSUME TypeOK, NEW r \in Runs, Work(r)
    PROVE  TypeOK'
<1>1. /\ r \in DOMAIN worker /\ r \in 1..Started
      /\ worker[r] \in Jobs /\ Home(r) \in 1..Made /\ worker[r].retries \in 0..MaxRetries
      /\ MaxRetries \in Nat /\ Started \in Nat /\ worker \in Seq(Jobs)
      /\ executor \in [1..Made -> 0..Started] /\ status \in [1..Started -> States]
  BY JobParts, ApiServerAssumption DEF Work, TypeOK, Started
<1>2. UNCHANGED <<approver, registry, plan, owner, shown, loop>>
  BY DEF Work, StartFails, Install, RunPauses, RunFinishes, RunRetried, RunFails, ReportFails,
         ReportRun, tables
<1>3. \E e \in Jobs : worker' = [worker EXCEPT ![r] = e]
  BY WorkerMoves
<1>4. worker' \in Seq(Jobs) /\ Started' = Started
  BY <1>1, <1>3, Updated DEF Started
<1>5. executor' \in [1..Made -> 0..Started]
  <2>1. executor' = executor \/ \E v \in {0, r} : executor' = [executor EXCEPT ![Home(r)] = v]
    BY DEF Work, StartFails, Install, RunPauses, RunFinishes, RunRetried, RunFails,
           ReportFails, ReportRun, tables
  <2>2. 0 \in 0..Started /\ r \in 0..Started
    BY <1>1
  <2>3. \A v \in 0..Started : [executor EXCEPT ![Home(r)] = v] \in [1..Made -> 0..Started]
    BY <1>1, Replaced
  <2>. QED BY <1>1, <2>1, <2>2, <2>3
<1>6. status' \in [1..Started -> States]
  <2>1. \/ UNCHANGED status
        \/ \E v \in {"running", "paused", "over"} : status' = [status EXCEPT ![r] = v]
    BY DEF Work, StartFails, Install, RunPauses, RunFinishes, RunRetried, RunFails,
           ReportFails, ReportRun
  <2>2. \A v \in {"running", "paused", "over"} : v \in States
    BY DEF States
  <2>3. \A v \in States : [status EXCEPT ![r] = v] \in [1..Started -> States]
    BY <1>1, Replaced
  <2>. QED BY <1>1, <2>1, <2>2, <2>3
<1>. QED BY <1>2, <1>4, <1>5, <1>6 DEF TypeOK, Made, Jobs, Decisions, Scans, Serves

LEMMA TypeDecide ==
    ASSUME TypeOK, NEW a \in Approvers, Decide(a)
    PROVE  TypeOK'
<1>1. approver[a] # Idle
  BY DEF Decide, LookUp, ApproverRefused, Take, ApprovalPauses, ApprovalEnds,
         ApprovalFinishes, ClearApproved, ApproverIs
<1>2. /\ approver[a] \in Decisions /\ approver[a].session \in 1..Made /\ Held(a) \in 0..Started
      /\ approver \in [Approvers -> {Idle} \cup Decisions]
      /\ executor \in [1..Made -> 0..Started] /\ status \in [1..Started -> States]
      /\ Started \in Nat
  BY <1>1, DecisionParts DEF TypeOK, Started
<1>3. UNCHANGED <<worker, registry, plan, owner, shown, loop>>
  BY DEF Decide, LookUp, ApproverRefused, Take, ApprovalPauses, ApprovalEnds,
         ApprovalFinishes, ClearApproved, tables
<1>4. \E e \in {Idle} \cup Decisions : approver' = [approver EXCEPT ![a] = e]
  BY ApproverMoves DEF Answer
<1>5. approver' \in [Approvers -> {Idle} \cup Decisions]
  BY <1>2, <1>4
<1>6. executor' \in [1..Made -> 0..Started]
  BY <1>2 DEF Decide, LookUp, ApproverRefused, Take, ApprovalPauses, ApprovalEnds,
              ApprovalFinishes, ClearApproved, tables
<1>7. status' \in [1..Started -> States]
  BY <1>2 DEF Decide, LookUp, ApproverRefused, Take, ApprovalPauses, ApprovalEnds,
              ApprovalFinishes, ClearApproved, States
<1>. QED BY <1>3, <1>5, <1>6, <1>7 DEF TypeOK, Made, Started, Jobs, Decisions, Scans, Serves

LEMMA TypeStep ==
    ASSUME TypeOK, Owned, [Next]_vars
    PROVE  TypeOK'
<1>1. CASE UNCHANGED vars
  BY <1>1 DEF vars, threads, tables, TypeOK, Made, Started, Jobs, Decisions, Scans, Serves
<1>. QED BY <1>1, TypeLoop, TypeRegistry, TypeEndpoints, TypeWork, TypeDecide
         DEF Next, GetSession

-----------------------------------------------------------------------------
(* What the steps leave alone.                                               *)

\* A step of a run's worker.
LEMMA WorkFrame ==
    ASSUME TypeOK, NEW r \in Runs, Work(r)
    PROVE  /\ UNCHANGED <<approver, registry, plan, owner, shown, loop>>
           /\ r \in DOMAIN worker /\ DOMAIN worker' = DOMAIN worker
           /\ \A q \in DOMAIN worker :
                 /\ worker'[q].user = worker[q].user
                 /\ worker'[q].session = worker[q].session
                 /\ worker'[q].plan = worker[q].plan
                 /\ q # r => worker'[q] = worker[q] /\ status'[q] = status[q]
<1>1. r \in DOMAIN worker /\ worker \in Seq(Jobs) /\ worker[r] \in Jobs
  BY JobParts DEF Work, TypeOK
<1>2. UNCHANGED <<approver, registry, plan, owner, shown, loop>>
  BY DEF Work, StartFails, Install, RunPauses, RunFinishes, RunRetried, RunFails, ReportFails,
         ReportRun, tables
<1>3. \A q \in DOMAIN worker : q # r => status'[q] = status[q]
  <2>1. status' = status \/ \E v \in States : status' = [status EXCEPT ![r] = v]
    BY DEF Work, StartFails, Install, RunPauses, RunFinishes, RunRetried, RunFails, ReportFails,
           ReportRun, States
  <2>2. \A q \in DOMAIN worker : q \in DOMAIN status
    BY DEF TypeOK, Started
  <2>. QED BY <2>1, <2>2
<1>. QED BY <1>1, <1>2, <1>3, WorkerMoves DEF SameJob

\* A step of an approver.
LEMMA DecideFrame ==
    ASSUME TypeOK, NEW a \in Approvers, Decide(a)
    PROVE  /\ UNCHANGED <<worker, registry, plan, owner, shown, loop>>
           /\ approver[a] # Idle
           /\ \A b \in Approvers : b # a => approver'[b] = approver[b]
           /\ approver'[a] # Idle =>
                 /\ approver'[a].user = approver[a].user
                 /\ approver'[a].session = approver[a].session
<1>1. approver[a] # Idle
  BY DEF Decide, LookUp, ApproverRefused, Take, ApprovalPauses, ApprovalEnds,
         ApprovalFinishes, ClearApproved, ApproverIs
<1>2. approver[a] \in Decisions /\ approver \in [Approvers -> {Idle} \cup Decisions]
  BY <1>1, DecisionParts DEF TypeOK
<1>3. UNCHANGED <<worker, registry, plan, owner, shown, loop>>
  BY DEF Decide, LookUp, ApproverRefused, Take, ApprovalPauses, ApprovalEnds,
         ApprovalFinishes, ClearApproved, tables
<1>4. \A b \in Approvers : b # a => approver'[b] = approver[b]
  BY <1>2, ApproverMoves DEF Answer
<1>5. approver'[a] # Idle => SameCall(approver'[a], approver[a])
  BY <1>2, ApproverMoves DEF Answer
<1>. QED BY <1>1, <1>3, <1>4, <1>5 DEF SameCall

\* A run is started for the session that is served.
LEMMA StartFrame ==
    ASSUME TypeOK, NEW p \in 0..Len(shown), StartRun(p)
    PROVE  /\ UNCHANGED <<approver, registry, executor, owner, shown>> /\ loop' = Free
           /\ loop.user \in Users /\ loop.session \in 1..Made
           /\ DOMAIN worker = 1..Started /\ DOMAIN worker' = 1..(Started + 1) /\ Started \in Nat
           /\ DOMAIN worker \subseteq DOMAIN worker'
           /\ \A q \in 1..Started : worker'[q] = worker[q] /\ status'[q] = status[q]
           /\ worker'[Started + 1].at = "starting" /\ worker'[Started + 1].plan = p
           /\ worker'[Started + 1].user = loop.user
           /\ worker'[Started + 1].session = loop.session
           /\ status'[Started + 1] = "nothing"
<1>1. UNCHANGED <<approver, registry, executor, owner, shown>> /\ loop' = Free
      /\ loop.user \in Users /\ loop.session \in 1..Made
  BY ServeParts DEF StartRun
<1>2. /\ Started \in Nat /\ worker \in Seq(Jobs) /\ DOMAIN worker = 1..Started
      /\ status \in [1..Started -> States]
  BY DEF TypeOK, Started
<1>. DEFINE job == [at |-> "starting", user |-> loop.user, session |-> loop.session,
                    retries |-> MaxRetries, plan |-> p]
<1>3. job \in Jobs
  BY <1>1, ApiServerAssumption DEF Jobs, WorkerAt
<1>4. /\ DOMAIN worker' = 1..(Started + 1)
      /\ \A q \in 1..(Started + 1) : worker'[q] = IF q = Started + 1 THEN job ELSE worker[q]
  <2>1. worker' = Append(worker, job)
    BY DEF StartRun
  <2>. HIDE DEF job
  <2>. QED BY <1>2, <1>3, <2>1, Appended DEF Started
<1>5. \A q \in 1..(Started + 1) : status'[q] = IF q = Started + 1 THEN "nothing" ELSE status[q]
  <2>1. status' = Append(status, "nothing") /\ "nothing" \in States
    BY DEF StartRun, States
  <2>. QED BY <1>2, <2>1, Extended
<1>6. \A q \in 1..Started : q \in 1..(Started + 1) /\ q # Started + 1
  BY <1>2
<1>7. Started + 1 \in 1..(Started + 1)
  BY <1>2
<1>. QED BY <1>1, <1>2, <1>4, <1>5, <1>6, <1>7

\* A session is made.
LEMMA MakeFrame ==
    ASSUME TypeOK, Make
    PROVE  /\ UNCHANGED <<worker, status, approver, shown>>
           /\ Made \in Nat /\ Made' = Made + 1 /\ loop.user \in Users
           /\ loop'.at = "cap" /\ loop'.user = loop.user /\ loop'.quiet = FALSE
           /\ \A s \in 1..Made : /\ owner'[s] = owner[s] /\ executor'[s] = executor[s]
                                 /\ plan'[s] = plan[s]
           /\ owner'[Made + 1] = loop.user /\ executor'[Made + 1] = 0 /\ plan'[Made + 1] = 0
<1>1. /\ UNCHANGED <<worker, status, approver, shown>> /\ loop.user \in Users
      /\ loop'.at = "cap" /\ loop'.user = loop.user /\ loop'.quiet = FALSE
  BY ScanParts DEF Make, threads, Request
<1>2. /\ Made \in Nat /\ owner \in Seq(Users)
      /\ executor \in [1..Made -> 0..Started] /\ plan \in [1..Made -> 0..Len(shown)]
      /\ 0 \in 0..Started /\ 0 \in 0..Len(shown)
  BY DEF TypeOK, Made, Started
<1>3. owner' = Append(owner, loop.user) /\ executor' = Append(executor, 0)
      /\ plan' = Append(plan, 0)
  BY DEF Make
<1>4. /\ Made' = Made + 1
      /\ \A s \in 1..(Made + 1) : owner'[s] = IF s = Made + 1 THEN loop.user ELSE owner[s]
  BY <1>1, <1>2, <1>3, Appended DEF Made
<1>5. \A s \in 1..(Made + 1) : executor'[s] = IF s = Made + 1 THEN 0 ELSE executor[s]
  BY <1>2, <1>3, Extended
<1>6. \A s \in 1..(Made + 1) : plan'[s] = IF s = Made + 1 THEN 0 ELSE plan[s]
  BY <1>2, <1>3, Extended
<1>7. \A s \in 1..Made : s \in 1..(Made + 1) /\ s # Made + 1
  BY <1>2
<1>8. Made + 1 \in 1..(Made + 1)
  BY <1>2
<1>. QED BY <1>1, <1>2, <1>4, <1>5, <1>6, <1>7, <1>8

\* A decision is asked for.
LEMMA CallFrame ==
    ASSUME TypeOK, NEW a \in Approvers, NEW kind \in {"approve", "reject"}, CallApprover(a, kind)
    PROVE  /\ UNCHANGED <<worker, status, tables>> /\ loop' = Free
           /\ loop.user \in Users /\ loop.session \in 1..Made
           /\ \A b \in Approvers : b # a => approver'[b] = approver[b]
           /\ approver'[a] = [at |-> "called", kind |-> kind, user |-> loop.user,
                              session |-> loop.session, run |-> 0]
BY ServeParts DEF CallApprover, TypeOK

\* A request comes in, looks for its session, or is answered with nothing done.
Looking ==
    \/ \E u \in Users : Receive(u)
    \/ LooksRunning \/ LooksAwaiting \/ Evict \/ Find \/ CapacityScanned \/ OtherAnswer

LEMMA LookingFrame ==
    ASSUME Looking
    PROVE  UNCHANGED <<worker, status, approver, executor, plan, owner, shown>>
BY DEF Looking, Receive, LooksRunning, LooksAwaiting, Evict, Find, CapacityScanned, OtherAnswer,
       threads, tables

\* The steps, as the proofs below divide them.
LEMMA Steps ==
    ASSUME [Next]_vars
    PROVE  \/ Looking \/ Make \/ RefuseRun \/ PreviewPlan
           \/ \E p \in 0..Len(shown) : StartRun(p)
           \/ \E a \in Approvers, kind \in {"approve", "reject"} : CallApprover(a, kind)
           \/ \E r \in Runs : Work(r)
           \/ \E a \in Approvers : Decide(a)
           \/ UNCHANGED vars
BY DEF Next, GetSession, Serve, Looking

-----------------------------------------------------------------------------
(* Each step keeps the tenants apart.                                        *)

LEMMA OwnedStep ==
    ASSUME IInv, [Next]_vars
    PROVE  Owned'
<1>. USE DEF IInv
<1>1. /\ \A r \in DOMAIN worker : worker[r].user = owner[worker[r].session]
      /\ \A r \in DOMAIN worker : worker[r].session \in 1..Made
      /\ \A a \in Approvers : approver[a] # Idle =>
           approver[a].user = owner[approver[a].session] /\ approver[a].session \in 1..Made
  BY JobParts, DecisionParts DEF Owned, Home
<1>2. CASE Looking
  <2>1. UNCHANGED <<worker, approver, owner>> /\ Made' = Made
    BY <1>2, LookingFrame DEF Made
  <2>2. loop'.at = "serve" => owner[loop'.session] = loop'.user
    <3>1. CASE LooksRunning
      BY <3>1, ScanParts DEF LooksRunning, Scanning, Scans
    <3>2. CASE Find
      BY <3>2 DEF Find, Serving
    <3>3. CASE CapacityScanned
      BY <3>3 DEF CapacityScanned, Serving, Owned
    <3>. QED BY <1>2, <3>1, <3>2, <3>3
             DEF Looking, Receive, LooksAwaiting, Evict, OtherAnswer, Request, Scanning, Free
  <2>3. loop'.at = "cap" => loop.at = "cap" /\ loop'.user = loop.user
    <3>1. CASE LooksRunning
      BY <3>1, ScanParts DEF LooksRunning, Scanning, Scans
    <3>. QED BY <1>2, <3>1 DEF Looking, Receive, LooksAwaiting, Evict, Find, CapacityScanned,
                OtherAnswer, Request, Serving, Scanning, Free
  <2>. QED BY <1>1, <2>1, <2>2, <2>3 DEF Owned, Home
<1>3. CASE Make
  BY <1>1, <1>3, MakeFrame DEF Owned, Home
<1>4. CASE RefuseRun \/ PreviewPlan
  BY <1>1, <1>4 DEF RefuseRun, PreviewPlan, threads, Free, Owned, Home
<1>5. ASSUME NEW p \in 0..Len(shown), StartRun(p)
      PROVE  Owned'
  <2>1. owner[loop.session] = loop.user
    BY <1>5 DEF StartRun, Owned
  <2>2. UNCHANGED <<approver, owner>> /\ loop' = Free
    BY <1>5, StartFrame
  <2>3. \A r \in DOMAIN worker' : worker'[r].user = owner[worker'[r].session]
    <3>1. /\ DOMAIN worker = 1..Started /\ DOMAIN worker' = 1..(Started + 1) /\ Started \in Nat
          /\ \A q \in 1..Started : worker'[q] = worker[q]
          /\ worker'[Started + 1].user = loop.user
          /\ worker'[Started + 1].session = loop.session
      BY <1>5, StartFrame
    <3>2. \A r \in DOMAIN worker' : r \in DOMAIN worker \/ r = Started + 1
      BY <3>1
    <3>. QED BY <1>1, <2>1, <3>1, <3>2
  <2>. QED BY <1>1, <2>2, <2>3 DEF Owned, Free, Home
<1>6. ASSUME NEW a \in Approvers, NEW kind \in {"approve", "reject"}, CallApprover(a, kind)
      PROVE  Owned'
  <2>1. owner[loop.session] = loop.user
    BY <1>6 DEF CallApprover, Owned
  <2>. QED BY <1>1, <1>6, <2>1, CallFrame DEF tables, Owned, Free, Home
<1>7. ASSUME NEW r \in Runs, Work(r)
      PROVE  Owned'
  BY <1>1, <1>7, WorkFrame DEF Owned, Home, Made
<1>8. ASSUME NEW a \in Approvers, Decide(a)
      PROVE  Owned'
  BY <1>1, <1>8, DecideFrame DEF Owned, Home, Made
<1>9. CASE UNCHANGED vars
  BY <1>9 DEF vars, threads, tables, Owned, Home, Made
<1>. QED BY <1>2, <1>3, <1>4, <1>5, <1>6, <1>7, <1>8, <1>9, Steps

LEMMA HomedStep ==
    ASSUME IInv, [Next]_vars
    PROVE  Homed'
<1>. USE DEF IInv
<1>1. /\ \A s \in 1..Made : executor[s] # 0 => worker[executor[s]].session = s
      /\ \A s \in 1..Made : executor[s] # 0 => executor[s] \in DOMAIN worker
      /\ \A a \in Approvers : approver[a] # Idle =>
           /\ approver[a].run # 0 => worker[approver[a].run].session = approver[a].session
           /\ approver[a].run # 0 => approver[a].run \in DOMAIN worker
           /\ approver[a].at = "called" <=> approver[a].run = 0
           /\ approver[a].session \in 1..Made
  <2>1. DOMAIN worker = 1..Started /\ executor \in [1..Made -> 0..Started]
    BY DEF TypeOK, Started
  <2>. QED BY <2>1, DecisionParts DEF Homed, Home, Held
<1>2. CASE Looking
  BY <1>1, <1>2, LookingFrame DEF Homed, Home, Held, Made
<1>3. CASE Make
  <2>1. \A s \in 1..Made' : s \in 1..Made \/ s = Made + 1
    BY <1>3, MakeFrame
  <2>. QED BY <1>1, <1>3, <2>1, MakeFrame DEF Homed, Home, Held
<1>4. CASE RefuseRun \/ PreviewPlan
  BY <1>1, <1>4 DEF RefuseRun, PreviewPlan, threads, Homed, Home, Held, Made
<1>5. ASSUME NEW p \in 0..Len(shown), StartRun(p)
      PROVE  Homed'
  <2>1. UNCHANGED <<approver, executor, owner>>
    BY <1>5, StartFrame
  <2>2. \A q \in DOMAIN worker : worker'[q] = worker[q]
    BY <1>5, StartFrame
  <2>. QED BY <1>1, <2>1, <2>2 DEF Homed, Home, Held, Made
<1>6. ASSUME NEW a \in Approvers, NEW kind \in {"approve", "reject"}, CallApprover(a, kind)
      PROVE  Homed'
  BY <1>1, <1>6, CallFrame DEF tables, Homed, Home, Held, Made
<1>7. ASSUME NEW r \in Runs, Work(r)
      PROVE  Homed'
  <2>1. \A q \in DOMAIN worker : worker'[q].session = worker[q].session
    BY <1>7, WorkFrame
  <2>2. r \in DOMAIN worker /\ UNCHANGED <<approver, owner>>
    BY <1>7, WorkFrame
  <2>3. executor' = executor \/ \E v \in {0, r} :
          executor' = [executor EXCEPT ![worker[r].session] = v]
    BY <1>7 DEF Work, StartFails, Install, RunPauses, RunFinishes, RunRetried, RunFails,
           ReportFails, ReportRun, tables, Home
  <2>4. \A s \in 1..Made : executor'[s] # 0 => worker[executor'[s]].session = s
                                               /\ executor'[s] \in DOMAIN worker
    <3>1. CASE executor' = executor
      BY <1>1, <3>1
    <3>2. ASSUME NEW v \in {0, r}, executor' = [executor EXCEPT ![worker[r].session] = v],
                 NEW s \in 1..Made, executor'[s] # 0
          PROVE  worker[executor'[s]].session = s /\ executor'[s] \in DOMAIN worker
      <4>1. executor'[s] = IF s = worker[r].session THEN v ELSE executor[s]
        BY <3>2 DEF TypeOK
      <4>. QED BY <1>1, <2>2, <3>2, <4>1
    <3>. QED BY <2>3, <3>1, <3>2
  <2>. QED BY <1>1, <2>1, <2>2, <2>4 DEF Homed, Home, Held, Made
<1>8. ASSUME NEW a \in Approvers, Decide(a)
      PROVE  Homed'
  <2>1. approver[a] # Idle /\ UNCHANGED <<worker, owner>>
        /\ \A b \in Approvers : b # a => approver'[b] = approver[b]
    BY <1>8, DecideFrame
  <2>2. executor' = executor \/ executor' = [executor EXCEPT ![approver[a].session] = 0]
    BY <1>8 DEF Decide, LookUp, ApproverRefused, Take, ApprovalPauses, ApprovalEnds,
                ApprovalFinishes, ClearApproved, tables
  <2>3. \A s \in 1..Made : executor'[s] # 0 => worker[executor'[s]].session = s
    BY <1>1, <2>2 DEF TypeOK
  <2>4. approver \in [Approvers -> {Idle} \cup Decisions] /\ approver[a] \in Decisions
    BY <2>1, DecisionParts DEF TypeOK
  <2>5. approver'[a] # Idle =>
          /\ approver'[a].session = approver[a].session
          /\ approver'[a].at # "called" /\ approver'[a].run # 0
          /\ worker[approver'[a].run].session = approver[a].session
    <3>1. CASE LookUp(a) /\ ~Answer(a)
      <4>1. approver'[a] = [approver[a] EXCEPT !.at = "holds",
                                               !.run = executor[approver[a].session]]
        BY <2>4, <3>1 DEF LookUp, Decisions
      <4>2. executor[approver[a].session] # 0
        BY <3>1 DEF LookUp, IsAwaiting, Doing
      <4>. QED BY <1>1, <2>1, <2>4, <4>1, <4>2 DEF Decisions
    <3>2. CASE Answer(a)
      BY <2>4, <3>2 DEF Answer
    <3>3. CASE Take(a)
      BY <1>1, <2>1, <2>4, <3>3 DEF Take, ApproverIs, Decisions
    <3>4. CASE ApprovalFinishes(a)
      BY <1>1, <2>1, <2>4, <3>4 DEF ApprovalFinishes, ApproverIs, Decisions
    <3>. QED BY <1>8, <3>1, <3>2, <3>3, <3>4
             DEF Decide, LookUp, ApproverRefused, ApprovalPauses, ApprovalEnds, ClearApproved
  <2>. QED BY <1>1, <2>1, <2>3, <2>5 DEF Homed, Home, Held, Made
<1>9. CASE UNCHANGED vars
  BY <1>1, <1>9 DEF vars, threads, tables, Homed, Home, Held, Made
<1>. QED BY <1>2, <1>3, <1>4, <1>5, <1>6, <1>7, <1>8, <1>9, Steps

LEMMA PlansOwnedStep ==
    ASSUME IInv, [Next]_vars
    PROVE  PlansOwned'
<1>. USE DEF IInv
<1>1. /\ \A s \in 1..Made : plan[s] \in 0..Len(shown)
      /\ \A s \in 1..Made : plan[s] # 0 => shown[plan[s]] = owner[s]
      /\ \A r \in DOMAIN worker : worker[r].plan \in 0..Len(shown)
      /\ \A r \in DOMAIN worker :
           worker[r].plan # 0 => shown[worker[r].plan] = worker[r].user
      /\ plan \in [1..Made -> 0..Len(shown)]
  BY JobParts DEF PlansOwned, TypeOK
<1>2. CASE Looking
  BY <1>1, <1>2, LookingFrame DEF PlansOwned, Made
<1>3. CASE Make
  <2>1. \A s \in 1..Made' : s \in 1..Made \/ s = Made + 1
    BY <1>3, MakeFrame
  <2>. QED BY <1>1, <1>3, <2>1, MakeFrame DEF PlansOwned
<1>4. CASE RefuseRun
  <2>1. \A s \in 1..Made : plan'[s] \in {0, plan[s]}
    BY <1>1, <1>4 DEF RefuseRun
  <2>. QED BY <1>1, <1>4, <2>1 DEF RefuseRun, threads, PlansOwned, Made
<1>5. CASE PreviewPlan
  <2>1. loop.user \in Users /\ loop.session \in 1..Made /\ owner[loop.session] = loop.user
    BY <1>5, ServeParts DEF PreviewPlan, Owned
  <2>2. /\ Len(shown) \in Nat /\ Len(shown') = Len(shown) + 1
        /\ \A k \in 1..(Len(shown) + 1) :
             shown'[k] = IF k = Len(shown) + 1 THEN loop.user ELSE shown[k]
    <3>1. shown' = Append(shown, loop.user) /\ shown \in Seq(Users)
      BY <1>5 DEF PreviewPlan, TypeOK
    <3>. QED BY <2>1, <3>1, Appended
  <2>3. \A k \in 0..Len(shown) : k # 0 => shown'[k] = shown[k]
    BY <2>2
  <2>4. shown'[Len(shown')] = loop.user
    BY <2>2
  <2>5. plan' = [plan EXCEPT ![loop.session] = Len(shown')] /\ UNCHANGED <<worker, owner>>
    BY <1>5 DEF PreviewPlan, threads
  <2>. QED BY <1>1, <2>1, <2>3, <2>4, <2>5 DEF PlansOwned, Made
<1>6. ASSUME NEW p \in 0..Len(shown), StartRun(p)
      PROVE  PlansOwned'
  <2>1. /\ UNCHANGED <<owner, shown>> /\ Made' = Made
        /\ \A q \in DOMAIN worker : worker'[q] = worker[q]
        /\ \A q \in DOMAIN worker' : q \in DOMAIN worker \/ q = Started + 1
        /\ worker'[Started + 1].plan = p /\ worker'[Started + 1].user = loop.user
        /\ loop.session \in 1..Made
    <3>1. UNCHANGED <<owner, shown>> /\ Made' = Made /\ loop.session \in 1..Made
          /\ worker'[Started + 1].plan = p /\ worker'[Started + 1].user = loop.user
      BY <1>6, StartFrame DEF Made
    <3>2. \A q \in DOMAIN worker : worker'[q] = worker[q]
      BY <1>6, StartFrame
    <3>3. \A q \in DOMAIN worker' : q \in DOMAIN worker \/ q = Started + 1
      BY <1>6, StartFrame
    <3>. QED BY <3>1, <3>2, <3>3
  <2>2. \A s \in 1..Made : plan'[s] \in {0, plan[s]}
    BY <1>1, <1>6 DEF StartRun
  <2>3. p # 0 => shown[p] = loop.user
    BY <1>1, <1>6, <2>1 DEF StartRun, Owned
  <2>. QED BY <1>1, <2>1, <2>2, <2>3 DEF PlansOwned
<1>7. ASSUME NEW a \in Approvers, NEW kind \in {"approve", "reject"}, CallApprover(a, kind)
      PROVE  PlansOwned'
  BY <1>1, <1>7, CallFrame DEF tables, PlansOwned, Made
<1>8. ASSUME NEW r \in Runs, Work(r)
      PROVE  PlansOwned'
  BY <1>1, <1>8, WorkFrame DEF PlansOwned, Made
<1>9. ASSUME NEW a \in Approvers, Decide(a)
      PROVE  PlansOwned'
  BY <1>1, <1>9, DecideFrame DEF PlansOwned, Made
<1>10. CASE UNCHANGED vars
  BY <1>1, <1>10 DEF vars, threads, tables, PlansOwned, Made
<1>. QED BY <1>2, <1>3, <1>4, <1>5, <1>6, <1>7, <1>8, <1>9, <1>10, Steps

\* A pending plan a step drops, or one it hands to a new run, is nowhere else.
LEMMA PlansOnceStep ==
    ASSUME IInv, [Next]_vars
    PROVE  PlansOnce'
<1>. USE DEF IInv
<1>1. /\ \A s \in 1..Made : plan[s] \in 0..Len(shown)
      /\ \A s, t \in 1..Made : plan[s] # 0 /\ plan[s] = plan[t] => s = t
      /\ \A s \in 1..Made, r \in DOMAIN worker : plan[s] # 0 => worker[r].plan # plan[s]
      /\ \A r \in DOMAIN worker : worker[r].plan \in 0..Len(shown)
      /\ \A q, r \in DOMAIN worker :
           worker[q].plan # 0 /\ worker[q].plan = worker[r].plan => q = r
      /\ plan \in [1..Made -> 0..Len(shown)]
  BY JobParts DEF PlansOnce, PlanRunsOnce, TypeOK
<1>2. CASE Looking
  BY <1>1, <1>2, LookingFrame DEF PlansOnce, PlanRunsOnce, Made
<1>3. CASE Make
  <2>1. \A s \in 1..Made' : s \in 1..Made \/ s = Made + 1
    BY <1>3, MakeFrame
  <2>2. \A s \in 1..Made' : plan'[s] # 0 => s \in 1..Made /\ plan'[s] = plan[s]
    BY <1>3, <2>1, MakeFrame
  <2>3. UNCHANGED worker
    BY <1>3, MakeFrame
  <2>. QED BY <1>1, <2>2, <2>3 DEF PlansOnce, PlanRunsOnce
<1>4. CASE RefuseRun
  <2>1. \A s \in 1..Made : plan'[s] \in {0, plan[s]}
    BY <1>1, <1>4 DEF RefuseRun
  <2>. QED BY <1>1, <1>4, <2>1 DEF RefuseRun, threads, PlansOnce, PlanRunsOnce, Made
<1>5. CASE PreviewPlan
  <2>1. loop.user \in Users /\ loop.session \in 1..Made
    BY <1>5, ServeParts DEF PreviewPlan
  <2>2. Len(shown) \in Nat /\ Len(shown') = Len(shown) + 1
    <3>1. shown' = Append(shown, loop.user) /\ shown \in Seq(Users)
      BY <1>5 DEF PreviewPlan, TypeOK
    <3>. QED BY <2>1, <3>1, Appended
  <2>3. plan' = [plan EXCEPT ![loop.session] = Len(shown')] /\ UNCHANGED <<worker, owner>>
    BY <1>5 DEF PreviewPlan, threads
  <2>4. Len(shown') \notin 0..Len(shown)
    BY <2>2
  <2>5. \A s \in 1..Made : plan'[s] = IF s = loop.session THEN Len(shown') ELSE plan[s]
    BY <1>1, <2>3
  <2>. QED BY <1>1, <2>1, <2>3, <2>4, <2>5 DEF PlansOnce, PlanRunsOnce, Made
<1>6. ASSUME NEW p \in 0..Len(shown), StartRun(p)
      PROVE  PlansOnce'
  <2>1. /\ Made' = Made
        /\ \A q \in DOMAIN worker : worker'[q] = worker[q]
        /\ \A q \in DOMAIN worker' : q \in DOMAIN worker \/ q = Started + 1
        /\ worker'[Started + 1].plan = p
        /\ loop.session \in 1..Made
    <3>1. Made' = Made /\ loop.session \in 1..Made /\ worker'[Started + 1].plan = p
      BY <1>6, StartFrame DEF Made
    <3>2. \A q \in DOMAIN worker : worker'[q] = worker[q]
      BY <1>6, StartFrame
    <3>3. \A q \in DOMAIN worker' : q \in DOMAIN worker \/ q = Started + 1
      BY <1>6, StartFrame
    <3>. QED BY <3>1, <3>2, <3>3
  <2>2. \A s \in 1..Made : plan'[s] # 0 => plan'[s] = plan[s] /\ plan[s] # p
    <3>1. CASE p = 0
      BY <1>6, <3>1 DEF StartRun
    <3>2. CASE p # 0
      <4>1. plan[loop.session] = p /\ plan' = [plan EXCEPT ![loop.session] = 0]
        BY <1>6, <3>2 DEF StartRun
      <4>. QED BY <1>1, <2>1, <3>2, <4>1
    <3>. QED BY <3>1, <3>2
  <2>3. p # 0 => \A q \in DOMAIN worker : worker[q].plan # p
    BY <1>1, <1>6, <2>1 DEF StartRun
  <2>4. \A q, r \in DOMAIN worker' :
          worker'[q].plan # 0 /\ worker'[q].plan = worker'[r].plan => q = r
    BY <1>1, <2>1, <2>3
  <2>5. \A s \in 1..Made, r \in DOMAIN worker' : plan'[s] # 0 => worker'[r].plan # plan'[s]
    BY <1>1, <2>1, <2>2
  <2>6. \A s, t \in 1..Made : plan'[s] # 0 /\ plan'[s] = plan'[t] => s = t
    BY <1>1, <2>2
  <2>. QED BY <2>1, <2>4, <2>5, <2>6 DEF PlansOnce, PlanRunsOnce
<1>7. ASSUME NEW a \in Approvers, NEW kind \in {"approve", "reject"}, CallApprover(a, kind)
      PROVE  PlansOnce'
  BY <1>1, <1>7, CallFrame DEF tables, PlansOnce, PlanRunsOnce, Made
<1>8. ASSUME NEW r \in Runs, Work(r)
      PROVE  PlansOnce'
  BY <1>1, <1>8, WorkFrame DEF PlansOnce, PlanRunsOnce, Made
<1>9. ASSUME NEW a \in Approvers, Decide(a)
      PROVE  PlansOnce'
  BY <1>1, <1>9, DecideFrame DEF PlansOnce, PlanRunsOnce, Made
<1>10. CASE UNCHANGED vars
  BY <1>1, <1>10 DEF vars, threads, tables, PlansOnce, PlanRunsOnce, Made
<1>. QED BY <1>2, <1>3, <1>4, <1>5, <1>6, <1>7, <1>8, <1>9, <1>10, Steps

\* The outcome of the first look stays with the entry until it is decided.
LEMMA SeenQuietStep ==
    ASSUME IInv, [Next]_vars
    PROVE  SeenQuiet'
<1>. USE DEF IInv
<1>1. CASE LooksRunning
  <2>1. loop \in Scans /\ loop.todo \in Seq(1..Made) /\ loop.todo # <<>>
    BY <1>1, ScanParts DEF LooksRunning, Scanning
  <2>2. Candidate \in 1..Made
    BY <2>1, Cut DEF Candidate
  <2>3. Doing(Candidate) \in States
    BY <2>2 DEF Doing, TypeOK, States
  <2>. QED BY <1>1, <2>1, <2>3 DEF LooksRunning, IsRunning, States, SeenQuiet, Scans
<1>2. CASE Looking /\ ~LooksRunning
  BY <1>2 DEF Looking, Receive, LooksAwaiting, Evict, Find, CapacityScanned, OtherAnswer,
              Request, Serving, Free, SeenQuiet
<1>3. CASE Make
  BY <1>3 DEF Make, Request, SeenQuiet
<1>4. CASE RefuseRun \/ PreviewPlan \/ \E p \in 0..Len(shown) : StartRun(p)
  <2>1. loop' = Free
    BY <1>4 DEF RefuseRun, PreviewPlan, StartRun
  <2>. QED BY <2>1 DEF Free, SeenQuiet
<1>5. CASE \E a \in Approvers, kind \in {"approve", "reject"} : CallApprover(a, kind)
  BY <1>5 DEF CallApprover, Free, SeenQuiet
<1>6. CASE (\E r \in Runs : Work(r)) \/ (\E a \in Approvers : Decide(a)) \/ UNCHANGED vars
  <2>1. UNCHANGED loop
    BY <1>6, WorkFrame, DecideFrame DEF vars
  <2>. QED BY <2>1 DEF SeenQuiet
<1>. QED BY <1>1, <1>2, <1>3, <1>4, <1>5, <1>6, Steps

-----------------------------------------------------------------------------
(* Each step leaves a run to one thread, and within reach of its session.    *)

\* What the worker of r does to the state of its executor and to the session's.
LEMMA WorkEffect ==
    ASSUME TypeOK, Driven, NEW r \in Runs, Work(r)
    PROVE  /\ worker[r].at # "ended" /\ worker'[r].session = worker[r].session
           /\ worker'[r].at = "starting" => status'[r] = "nothing"
           /\ worker'[r].at = "running" => status'[r] = "running"
           /\ worker'[r].at = "reporting" => status'[r] = "over"
           /\ status[r] # "nothing" => status'[r] # "nothing"
           /\ \/ UNCHANGED executor
              \/ /\ executor' = [executor EXCEPT ![Home(r)] = r]
                 /\ status'[r] = "running"
              \/ /\ executor' = [executor EXCEPT ![Home(r)] = 0]
                 /\ status'[r] = "over"
           /\ status'[r] \in {"running", "paused"} =>
                 \/ status[r] = "running" /\ UNCHANGED executor
                 \/ executor' = [executor EXCEPT ![Home(r)] = r]
<1>1. /\ r \in DOMAIN worker /\ worker[r] \in Jobs /\ r \in 1..Started
      /\ worker \in Seq(Jobs) /\ status \in [1..Started -> States]
  BY JobParts DEF Work, TypeOK
<1>2. /\ worker[r].at = "starting" => status[r] = "nothing"
      /\ worker[r].at = "running" => status[r] = "running"
      /\ worker[r].at = "reporting" => status[r] = "over"
  BY <1>1 DEF Driven, WorkerIs
<1>3. worker'[r].session = worker[r].session
  BY <1>1, WorkFrame
<1>4. CASE StartFails(r) \/ RunPauses(r) \/ RunFails(r) \/ ReportFails(r) \/ ReportRun(r)
  <2>1. worker'[r].at = "ended" /\ worker[r].at # "ended"
    BY <1>1, <1>4 DEF StartFails, RunPauses, RunFails, ReportFails, ReportRun, Leave, WorkerIs, Jobs
  <2>. QED BY <1>1, <1>2, <1>3, <1>4, <2>1
           DEF StartFails, RunPauses, RunFails, ReportFails, ReportRun, WorkerIs, tables
<1>5. CASE Install(r)
  <2>1. worker'[r].at = "running" /\ worker[r].at # "ended"
    BY <1>1, <1>5 DEF Install, WorkerIs, Jobs
  <2>. QED BY <1>1, <1>2, <1>3, <1>5, <2>1 DEF Install, WorkerIs
<1>6. CASE RunFinishes(r)
  <2>1. worker'[r].at = "reporting" /\ worker[r].at # "ended"
    BY <1>1, <1>6 DEF RunFinishes, WorkerIs, Jobs
  <2>. QED BY <1>1, <1>2, <1>3, <1>6, <2>1 DEF RunFinishes, WorkerIs, tables
<1>7. CASE RunRetried(r)
  <2>1. worker'[r].at = "running" /\ worker[r].at = "running"
    BY <1>1, <1>7 DEF RunRetried, WorkerIs, Jobs
  <2>. QED BY <1>1, <1>2, <1>3, <1>7, <2>1 DEF RunRetried, WorkerIs
<1>. QED BY <1>4, <1>5, <1>6, <1>7 DEF Work

\* What an approver does to the run it holds and to the session's executor.
LEMMA DecideEffect ==
    ASSUME TypeOK, Homed, Driven, NEW a \in Approvers, Decide(a)
    PROVE  \/ /\ UNCHANGED <<status, executor>>
              /\ approver'[a] # Idle =>
                   /\ approver'[a].at = "holds" /\ approver'[a].run \in DOMAIN worker
                   /\ status[approver'[a].run] = "paused"
                   /\ executor[approver[a].session] = approver'[a].run
           \/ /\ approver[a].run \in DOMAIN worker /\ UNCHANGED executor
              /\ \/ status[Held(a)] = "paused" \/ ApproverIs(a, "driving")
              /\ \E v \in {"running", "paused", "over"} :
                   /\ status' = [status EXCEPT ![Held(a)] = v]
                   /\ approver'[a] # Idle =>
                        /\ approver'[a].run = approver[a].run
                        /\ \/ approver'[a].at = "driving" /\ v = "running"
                           \/ approver'[a].at = "clearing" /\ v = "over"
           \/ /\ approver[a].run \in DOMAIN worker /\ UNCHANGED status
              /\ ApproverIs(a, "clearing") /\ approver'[a] = Idle
              /\ executor' = [executor EXCEPT ![approver[a].session] = 0]
<1>1. approver[a] # Idle
  BY DecideFrame
<1>2. /\ approver \in [Approvers -> {Idle} \cup Decisions] /\ approver[a] \in Decisions
      /\ executor \in [1..Made -> 0..Started] /\ approver[a].session \in 1..Made
      /\ approver[a].run \in 0..Started /\ DOMAIN worker = 1..Started /\ Started \in Nat
  BY <1>1, DecisionParts DEF TypeOK, Held, Started
<1>3. approver[a].at # "called" => approver[a].run \in DOMAIN worker
  BY <1>1, <1>2 DEF Homed, Held
<1>4. CASE ApproverRefused(a)
  BY <1>2, <1>4 DEF ApproverRefused, Answer, tables
<1>5. CASE LookUp(a)
  <2>1. UNCHANGED <<status, executor>>
    BY <1>5 DEF LookUp, tables
  <2>2. CASE IsAwaiting(approver[a].session)
    <3>1. approver'[a].at = "holds" /\ approver'[a].run = executor[approver[a].session]
      BY <1>2, <1>5, <2>2 DEF LookUp, Decisions
    <3>2. /\ executor[approver[a].session] # 0
          /\ status[executor[approver[a].session]] = "paused"
      BY <2>2 DEF IsAwaiting, Doing
    <3>. QED BY <1>2, <2>1, <3>1, <3>2
  <2>3. CASE ~IsAwaiting(approver[a].session)
    BY <1>2, <1>5, <2>1, <2>3 DEF LookUp, Answer
  <2>. QED BY <2>2, <2>3
<1>6. CASE Take(a)
  BY <1>2, <1>3, <1>6 DEF Take, ApproverIs, Held, Decisions, tables
<1>7. CASE ApprovalPauses(a) \/ ApprovalEnds(a)
  BY <1>2, <1>3, <1>7 DEF ApprovalPauses, ApprovalEnds, Answer, ApproverIs, Held, tables
<1>8. CASE ApprovalFinishes(a)
  BY <1>2, <1>3, <1>8 DEF ApprovalFinishes, ApproverIs, Held, Decisions, tables
<1>9. CASE ClearApproved(a)
  BY <1>2, <1>3, <1>9 DEF ClearApproved, Answer, ApproverIs
<1>. QED BY <1>4, <1>5, <1>6, <1>7, <1>8, <1>9 DEF Decide

\* The references from one table to another.
LEMMA Pointers ==
    ASSUME TypeOK
    PROVE  /\ DOMAIN worker = 1..Started
           /\ \A s \in 1..Made : executor[s] # 0 => executor[s] \in DOMAIN worker
           /\ \A r \in DOMAIN worker : worker[r].session \in 1..Made /\ worker[r].at \in WorkerAt
           /\ \A a \in Approvers : approver[a] # Idle =>
                /\ approver[a].run # 0 => approver[a].run \in DOMAIN worker
                /\ approver[a].session \in 1..Made
           /\ status \in [1..Started -> States] /\ executor \in [1..Made -> 0..Started]
<1>1. /\ DOMAIN worker = 1..Started /\ Started \in Nat
      /\ status \in [1..Started -> States] /\ executor \in [1..Made -> 0..Started]
  BY DEF TypeOK, Started
<1>2. \A n \in 0..Started : n # 0 => n \in 1..Started
  BY <1>1
<1>3. \A s \in 1..Made : executor[s] # 0 => executor[s] \in DOMAIN worker
  BY <1>1, <1>2
<1>4. \A r \in DOMAIN worker : worker[r].session \in 1..Made /\ worker[r].at \in WorkerAt
  BY JobParts DEF Home
<1>5. \A a \in Approvers : approver[a] # Idle =>
        /\ approver[a].run # 0 => approver[a].run \in DOMAIN worker
        /\ approver[a].session \in 1..Made
  BY <1>1, <1>2, DecisionParts DEF Held
<1>. QED BY <1>1, <1>3, <1>4, <1>5

LEMMA DrivenStep ==
    ASSUME IInv, [Next]_vars
    PROVE  Driven'
<1>. USE DEF IInv
<1>1. /\ \A r \in DOMAIN worker :
           /\ worker[r].at = "starting" => status[r] = "nothing"
           /\ worker[r].at = "running" => status[r] = "running"
           /\ worker[r].at = "reporting" => status[r] = "over"
      /\ \A s \in 1..Made : executor[s] # 0 => status[executor[s]] # "nothing"
      /\ \A a \in Approvers : approver[a] # Idle =>
           /\ approver[a].run # 0 => worker[approver[a].run].at = "ended"
           /\ approver[a].at = "driving" => status[approver[a].run] = "running"
           /\ approver[a].at = "clearing" => status[approver[a].run] = "over"
           /\ approver[a].at = "called" <=> approver[a].run = 0
      /\ \A a, b \in Approvers :
           ApproverIs(a, "driving") /\ ApproverIs(b, "driving")
           /\ approver[a].run = approver[b].run => a = b
  BY DEF Driven, Homed, WorkerIs, Held
<1>2. CASE Looking
  BY <1>1, <1>2, LookingFrame DEF Driven, WorkerIs, Held, ApproverIs, Made
<1>3. CASE Make
  <2>1. \A s \in 1..Made' : s \in 1..Made \/ s = Made + 1
    BY <1>3, MakeFrame
  <2>. QED BY <1>1, <1>3, <2>1, MakeFrame DEF Driven, WorkerIs, Held, ApproverIs
<1>4. CASE RefuseRun \/ PreviewPlan
  BY <1>1, <1>4 DEF RefuseRun, PreviewPlan, threads, Driven, WorkerIs, Held, ApproverIs, Made
<1>5. ASSUME NEW p \in 0..Len(shown), StartRun(p)
      PROVE  Driven'
  <2>1. /\ UNCHANGED <<approver, executor, owner>>
        /\ worker'[Started + 1].at = "starting" /\ status'[Started + 1] = "nothing"
    BY <1>5, StartFrame
  <2>2. \A q \in DOMAIN worker : worker'[q] = worker[q] /\ status'[q] = status[q]
    BY <1>5, StartFrame
  <2>3. \A q \in DOMAIN worker' : q \in DOMAIN worker \/ q = Started + 1
    BY <1>5, StartFrame
  <2>. QED BY <1>1, <2>1, <2>2, <2>3, Pointers DEF Driven, WorkerIs, Held, ApproverIs, Made
<1>6. ASSUME NEW a \in Approvers, NEW kind \in {"approve", "reject"}, CallApprover(a, kind)
      PROVE  Driven'
  <2>1. UNCHANGED <<worker, status, executor, owner>>
    BY <1>6, CallFrame DEF tables
  <2>2. \A b \in Approvers : b # a => approver'[b] = approver[b]
    BY <1>6, CallFrame
  <2>3. approver'[a].at = "called" /\ approver'[a].run = 0
    BY <1>6, CallFrame
  <2>. QED BY <1>1, <2>1, <2>2, <2>3 DEF Driven, WorkerIs, Held, ApproverIs, Made
<1>7. ASSUME NEW r \in Runs, Work(r)
      PROVE  Driven'
  <2>1. /\ UNCHANGED <<approver, owner>> /\ Made' = Made
        /\ r \in DOMAIN worker /\ DOMAIN worker' = DOMAIN worker
        /\ \A q \in DOMAIN worker : q # r => worker'[q] = worker[q] /\ status'[q] = status[q]
    BY <1>7, WorkFrame DEF Made
  <2>2. /\ worker[r].at # "ended"
        /\ worker'[r].at = "starting" => status'[r] = "nothing"
        /\ worker'[r].at = "running" => status'[r] = "running"
        /\ worker'[r].at = "reporting" => status'[r] = "over"
        /\ status[r] # "nothing" => status'[r] # "nothing"
    BY <1>7, WorkEffect
  <2>3. \A s \in 1..Made : executor'[s] # 0 => status'[executor'[s]] # "nothing"
    <3>1. \A s \in 1..Made : executor[s] # 0 => status'[executor[s]] # "nothing"
      BY <1>1, <2>1, <2>2, Pointers
    <3>2. CASE UNCHANGED executor
      BY <3>1, <3>2
    <3>3. CASE executor' = [executor EXCEPT ![Home(r)] = r] /\ status'[r] = "running"
      BY <3>1, <3>3, Pointers
    <3>4. CASE executor' = [executor EXCEPT ![Home(r)] = 0]
      BY <3>1, <3>4, Pointers
    <3>. QED BY <1>7, <3>2, <3>3, <3>4, WorkEffect
  <2>4. \A a \in Approvers : approver[a] # Idle /\ approver[a].run # 0 =>
          /\ approver[a].run # r /\ approver[a].run \in DOMAIN worker
          /\ worker'[approver[a].run] = worker[approver[a].run]
          /\ status'[approver[a].run] = status[approver[a].run]
    BY <1>1, <2>1, <2>2, Pointers
  <2>. QED BY <1>1, <2>1, <2>2, <2>3, <2>4 DEF Driven, WorkerIs, Held, ApproverIs
<1>8. ASSUME NEW a \in Approvers, Decide(a)
      PROVE  Driven'
  <2>1. /\ UNCHANGED <<worker, owner>> /\ Made' = Made /\ approver[a] # Idle
        /\ \A b \in Approvers : b # a => approver'[b] = approver[b]
    BY <1>8, DecideFrame DEF Made
  <2>2. CASE /\ UNCHANGED <<status, executor>>
             /\ approver'[a] # Idle =>
                   /\ approver'[a].at = "holds" /\ approver'[a].run \in DOMAIN worker
                   /\ status[approver'[a].run] = "paused"
    <3>1. approver'[a] # Idle => worker[approver'[a].run].at = "ended"
      BY <1>1, <2>2, Pointers DEF WorkerAt
    <3>. QED BY <1>1, <2>1, <2>2, <3>1 DEF Driven, WorkerIs, Held, ApproverIs
  <2>3. CASE /\ approver[a].run \in DOMAIN worker /\ UNCHANGED executor
             /\ \/ status[Held(a)] = "paused" \/ ApproverIs(a, "driving")
             /\ \E v \in {"running", "paused", "over"} :
                   /\ status' = [status EXCEPT ![Held(a)] = v]
                   /\ approver'[a] # Idle =>
                        /\ approver'[a].run = approver[a].run
                        /\ \/ approver'[a].at = "driving" /\ v = "running"
                           \/ approver'[a].at = "clearing" /\ v = "over"
    <3>1. PICK v \in {"running", "paused", "over"} :
             /\ status' = [status EXCEPT ![approver[a].run] = v]
             /\ approver'[a] # Idle =>
                  /\ approver'[a].run = approver[a].run
                  /\ \/ approver'[a].at = "driving" /\ v = "running"
                     \/ approver'[a].at = "clearing" /\ v = "over"
      BY <2>3 DEF Held
    <3>2. approver[a].run \in DOMAIN worker /\ approver[a].run # 0
          /\ worker[approver[a].run].at = "ended"
      BY <1>1, <2>1, <2>3, Pointers
    <3>3. \A q \in DOMAIN worker : status'[q] = IF q = approver[a].run THEN v ELSE status[q]
      BY <3>1, Pointers
    <3>4. \A b \in Approvers : b # a /\ approver[b] # Idle
             /\ approver[b].at \in {"driving", "clearing"} =>
             /\ approver[b].run # approver[a].run /\ approver[b].run \in DOMAIN worker
             /\ status'[approver[b].run] = status[approver[b].run]
      <4>. SUFFICES ASSUME NEW b \in Approvers, b # a, approver[b] # Idle,
                           approver[b].at \in {"driving", "clearing"}
                    PROVE  approver[b].run # approver[a].run /\ approver[b].run \in DOMAIN worker
        BY <3>3
      <4>1. approver[b].run \in DOMAIN worker
        BY <1>1, Pointers
      <4>2. CASE status[approver[a].run] = "paused"
        BY <1>1, <4>1, <4>2
      <4>3. CASE ApproverIs(a, "driving")
        BY <1>1, <2>1, <4>1, <4>3 DEF ApproverIs
      <4>. QED BY <2>3, <4>2, <4>3, <4>1 DEF Held
    <3>5. \A s \in 1..Made : executor'[s] # 0 => status'[executor'[s]] # "nothing"
      BY <1>1, <2>3, <3>3, Pointers
    <3>6. \A r \in DOMAIN worker :
            /\ worker[r].at = "starting" => status'[r] = "nothing"
            /\ worker[r].at = "running" => status'[r] = "running"
            /\ worker[r].at = "reporting" => status'[r] = "over"
      BY <1>1, <3>2, <3>3
    <3>7. \A b \in Approvers : approver'[b] # Idle =>
            /\ approver'[b].run # 0 => worker[approver'[b].run].at = "ended"
            /\ approver'[b].at = "driving" => status'[approver'[b].run] = "running"
            /\ approver'[b].at = "clearing" => status'[approver'[b].run] = "over"
      BY <1>1, <2>1, <3>1, <3>2, <3>3, <3>4
    <3>8. \A b, c \in Approvers :
            approver'[b] # Idle /\ approver'[b].at = "driving"
            /\ approver'[c] # Idle /\ approver'[c].at = "driving"
            /\ approver'[b].run = approver'[c].run => b = c
      <4>. SUFFICES ASSUME NEW b \in Approvers, NEW c \in Approvers,
                           approver'[b] # Idle, approver'[b].at = "driving",
                           approver'[c] # Idle, approver'[c].at = "driving",
                           approver'[b].run = approver'[c].run
                    PROVE  b = c
        OBVIOUS
      <4>1. CASE b = a \/ c = a
        BY <2>1, <3>1, <3>4, <4>1
      <4>2. CASE b # a /\ c # a
        <5>1. ApproverIs(b, "driving") /\ ApproverIs(c, "driving")
              /\ approver[b].run = approver[c].run
          BY <2>1, <4>2 DEF ApproverIs
        <5>. QED BY <1>1, <5>1
      <4>. QED BY <4>1, <4>2
    <3>. QED BY <2>1, <3>5, <3>6, <3>7, <3>8 DEF Driven, WorkerIs, Held, ApproverIs
  <2>4. CASE /\ UNCHANGED status /\ approver'[a] = Idle
             /\ executor' = [executor EXCEPT ![approver[a].session] = 0]
    <3>1. \A s \in 1..Made : executor'[s] # 0 => status[executor'[s]] # "nothing"
      BY <1>1, <2>4, Pointers
    <3>. QED BY <1>1, <2>1, <2>4, <3>1 DEF Driven, WorkerIs, Held, ApproverIs
  <2>. QED BY <1>8, <2>2, <2>3, <2>4, DecideEffect
<1>9. CASE UNCHANGED vars
  BY <1>1, <1>9 DEF vars, threads, tables, Driven, WorkerIs, Held, ApproverIs, Made
<1>. QED BY <1>2, <1>3, <1>4, <1>5, <1>6, <1>7, <1>8, <1>9, Steps

LEMMA ReachableStep ==
    ASSUME IInv, [Next]_vars
    PROVE  Reachable'
<1>. USE DEF IInv
<1>. DEFINE Lone(r) == \A q \in DOMAIN worker :
                         worker[q].session = worker[r].session /\ status[q] # "nothing" => q = r
<1>1. \A r \in DOMAIN worker :
        status[r] \in {"running", "paused"} /\ Lone(r) => executor[worker[r].session] = r
  BY DEF Reachable, Alone, Installed, Home
<1>2. CASE Looking
  BY <1>1, <1>2, LookingFrame DEF Reachable, Alone, Installed, Home
<1>3. CASE Make
  BY <1>1, <1>3, MakeFrame, Pointers DEF Reachable, Alone, Installed, Home
<1>4. CASE RefuseRun \/ PreviewPlan
  BY <1>1, <1>4 DEF RefuseRun, PreviewPlan, threads, Reachable, Alone, Installed, Home
<1>5. ASSUME NEW p \in 0..Len(shown), StartRun(p)
      PROVE  Reachable'
  <2>1. UNCHANGED executor /\ status'[Started + 1] = "nothing"
    BY <1>5, StartFrame
  <2>2. \A q \in DOMAIN worker : q \in DOMAIN worker' /\ worker'[q] = worker[q]
                                 /\ status'[q] = status[q]
    BY <1>5, StartFrame
  <2>3. \A q \in DOMAIN worker' : q \in DOMAIN worker \/ q = Started + 1
    BY <1>5, StartFrame
  <2>. QED BY <1>1, <2>1, <2>2, <2>3 DEF Reachable, Alone, Installed, Home
<1>6. ASSUME NEW a \in Approvers, NEW kind \in {"approve", "reject"}, CallApprover(a, kind)
      PROVE  Reachable'
  BY <1>1, <1>6, CallFrame DEF tables, Reachable, Alone, Installed, Home
<1>7. ASSUME NEW r \in Runs, Work(r)
      PROVE  Reachable'
  <2>1. /\ r \in DOMAIN worker /\ DOMAIN worker' = DOMAIN worker
        /\ \A q \in DOMAIN worker : worker'[q].session = worker[q].session
        /\ \A q \in DOMAIN worker : q # r => status'[q] = status[q]
    BY <1>7, WorkFrame
  <2>2. status[r] # "nothing" => status'[r] # "nothing"
    BY <1>7, WorkEffect
  <2>. SUFFICES ASSUME NEW q \in DOMAIN worker, status'[q] \in {"running", "paused"},
                       \A x \in DOMAIN worker : worker[x].session = worker[q].session
                                                /\ status'[x] # "nothing" => x = q
                PROVE  executor'[worker[q].session] = q
    BY <2>1 DEF Reachable, Alone, Installed, Home
  <2>3. Lone(q)
    BY <2>1, <2>2
  <2>4. worker[q].session \in 1..Made /\ worker[r].session \in 1..Made
    BY <2>1, Pointers
  <2>5. CASE q = r
    <3>1. \/ status[r] = "running" /\ UNCHANGED executor
          \/ executor' = [executor EXCEPT ![worker[r].session] = r]
      BY <1>7, <2>5, WorkEffect DEF Home
    <3>. QED BY <1>1, <2>1, <2>3, <2>4, <2>5, <3>1, Pointers
  <2>6. CASE q # r
    <3>1. executor[worker[q].session] = q
      BY <1>1, <2>1, <2>3, <2>6
    <3>2. CASE UNCHANGED executor
      BY <3>1, <3>2
    <3>3. CASE \E v : executor' = [executor EXCEPT ![worker[r].session] = v]
                      /\ status'[r] # "nothing"
      <4>1. worker[r].session # worker[q].session
        BY <2>1, <2>6, <3>3
      <4>. QED BY <2>4, <3>1, <3>3, <4>1, Pointers
    <3>. QED BY <1>7, <3>2, <3>3, WorkEffect DEF Home
  <2>. QED BY <2>5, <2>6
<1>8. ASSUME NEW a \in Approvers, Decide(a)
      PROVE  Reachable'
  <2>1. UNCHANGED worker /\ approver[a] # Idle
    BY <1>8, DecideFrame
  <2>2. CASE UNCHANGED <<status, executor>>
    BY <1>1, <2>1, <2>2 DEF Reachable, Alone, Installed, Home
  <2>3. CASE /\ approver[a].run \in DOMAIN worker /\ UNCHANGED executor
             /\ \/ status[Held(a)] = "paused" \/ ApproverIs(a, "driving")
             /\ \E v \in {"running", "paused", "over"} : status' = [status EXCEPT ![Held(a)] = v]
    <3>1. PICK v \in {"running", "paused", "over"} :
            status' = [status EXCEPT ![approver[a].run] = v]
      BY <2>3 DEF Held
    <3>2. status[approver[a].run] \in {"running", "paused"}
      BY <2>3 DEF Held, ApproverIs, Driven
    <3>3. \A q \in DOMAIN worker : status'[q] = IF q = approver[a].run THEN v ELSE status[q]
      BY <3>1, Pointers
    <3>. QED BY <1>1, <2>1, <2>3, <3>2, <3>3 DEF Reachable, Alone, Installed, Home
  <2>4. CASE /\ approver[a].run \in DOMAIN worker /\ UNCHANGED status
             /\ ApproverIs(a, "clearing")
             /\ executor' = [executor EXCEPT ![approver[a].session] = 0]
    <3>1. status[approver[a].run] = "over" /\ worker[approver[a].run].session = approver[a].session
      <4>1. approver[a].run # 0
        BY <2>4, Pointers
      <4>. QED BY <2>1, <2>4, <4>1 DEF ApproverIs, Driven, Homed, Held, Home
    <3>2. approver[a].session \in 1..Made
      BY <2>1, Pointers
    <3>3. ASSUME NEW q \in DOMAIN worker, status[q] \in {"running", "paused"}, Lone(q)
          PROVE  executor'[worker[q].session] = q
      <4>1. worker[q].session # approver[a].session
        BY <2>4, <3>1, <3>3
      <4>. QED BY <1>1, <2>4, <3>2, <3>3, <4>1, Pointers
    <3>. QED BY <2>1, <2>4, <3>3 DEF Reachable, Alone, Installed, Home
  <2>. QED BY <1>8, <2>2, <2>3, <2>4, DecideEffect
<1>9. CASE UNCHANGED vars
  BY <1>1, <1>9 DEF vars, threads, tables, Reachable, Alone, Installed, Home
<1>. QED BY <1>2, <1>3, <1>4, <1>5, <1>6, <1>7, <1>8, <1>9, Steps

-----------------------------------------------------------------------------
(* The inductive invariant and what follows from it.                         *)

LEMMA InitHolds ==
    ASSUME Init
    PROVE  IInv
<1>1. /\ owner = <<>> /\ shown = <<>> /\ registry = <<>> /\ worker = <<>> /\ loop = Free
      /\ executor = <<>> /\ plan = <<>> /\ status = <<>>
      /\ approver = [a \in Approvers |-> Idle]
  BY DEF Init
<1>2. /\ Made = 0 /\ Started = 0 /\ Len(shown) = 0
      /\ 1..Made = {} /\ 1..Started = {} /\ DOMAIN worker = {}
  BY <1>1 DEF Made, Started
<1>3. TypeOK
  <2>1. \A S : <<>> \in Seq(S) /\ <<>> \in [{} -> S]
    OBVIOUS
  <2>2. IsInjective(registry)
    BY <1>1 DEF IsInjective
  <2>3. Made <= MaxMade /\ Len(shown) <= MaxPreviews /\ Started <= MaxRuns
    BY <1>2, ApiServerAssumption
  <2>4. approver \in [Approvers -> {Idle} \cup Decisions]
    BY <1>1
  <2>. QED BY <1>1, <1>2, <2>1, <2>2, <2>3, <2>4 DEF TypeOK
<1>4. \A a \in Approvers : approver[a] = Idle
  BY <1>1
<1>5. loop.at = "free"
  BY <1>1 DEF Free
<1>6. Owned /\ Homed /\ PlansOwned /\ PlansOnce /\ SeenQuiet
  BY <1>2, <1>4, <1>5 DEF Owned, Homed, PlansOwned, PlansOnce, PlanRunsOnce, SeenQuiet
<1>7. Driven /\ Reachable
  BY <1>2, <1>4 DEF Driven, Reachable, ApproverIs
<1>. QED BY <1>3, <1>6, <1>7 DEF IInv

THEOREM Inductive == Spec => []IInv
<1>1. Init => IInv
  BY InitHolds
<1>2. IInv /\ [Next]_vars => IInv'
  <2>. SUFFICES ASSUME IInv, [Next]_vars
                PROVE  IInv'
    OBVIOUS
  <2>1. TypeOK'
    BY TypeStep DEF IInv
  <2>. QED BY <2>1, OwnedStep, HomedStep, PlansOwnedStep, PlansOnceStep, DrivenStep,
              ReachableStep, SeenQuietStep DEF IInv
<1>. QED BY <1>1, <1>2, PTL DEF Spec

\* The tables, the requests and the threads keep their types.
THEOREM TypeCorrect == Spec => []TypeOK
<1>1. IInv => TypeOK
  BY DEF IInv
<1>. QED BY <1>1, Inductive, PTL

\* Whatever the users do and however sessions are evicted and made again, a user
\* decides only about runs of their own and runs only plans shown to them.
THEOREM Apart == Spec => []TenantsApart
<1>1. IInv => TenantsApart
  <2>. SUFFICES ASSUME IInv
                PROVE  TenantsApart
    OBVIOUS
  <2>1. ASSUME NEW a \in Approvers, approver[a] # Idle, Held(a) # 0
        PROVE  worker[Held(a)].user = approver[a].user
    <3>1. Held(a) \in DOMAIN worker
      BY <2>1, Pointers DEF IInv, Held
    <3>2. worker[Held(a)].user = owner[Home(Held(a))]
      BY <3>1 DEF IInv, Owned
    <3>3. Home(Held(a)) = approver[a].session
      BY <2>1 DEF IInv, Homed
    <3>. QED BY <2>1, <3>2, <3>3 DEF IInv, Owned
  <2>2. \A r \in DOMAIN worker :
          worker[r].plan # 0 => shown[worker[r].plan] = worker[r].user
    BY DEF IInv, PlansOwned
  <2>. QED BY <2>1, <2>2 DEF TenantsApart
<1>. QED BY <1>1, Inductive, PTL

\* take_plan: a previewed plan is run by one run at most.
THEOREM OncePerPlan == Spec => []PlanRunsOnce
<1>1. IInv => PlanRunsOnce
  BY DEF IInv, PlansOnce
<1>. QED BY <1>1, Inductive, PTL

\* A paused run that has its session to itself can be approved and rejected.
THEOREM PausedStaysReachable == Spec => []PausedIsReachable
<1>1. IInv => PausedIsReachable
  BY DEF IInv, Reachable, Alone, PausedIsReachable
<1>. QED BY <1>1, Inductive, PTL

\* _evict_locked and _is_busy: what leaves the registry was neither running nor
\* waiting when it was looked at the second time, unless it changed in between.
THEOREM BusyKept == Spec => BusyIsKept
<1>1. ASSUME IInv, Next, NEW s \in Registered \ Registered', Doing(s) = loop.seen
      PROVE  ~IsRunning(s) /\ ~IsAwaiting(s)
  <2>1. registry \in Seq(1..Made) /\ IsInjective(registry)
    BY <1>1 DEF IInv, TypeOK
  <2>2. CASE Evict
    <3>1. PICK i \in DOMAIN registry :
            registry[i] = Candidate /\ registry' = RemoveAt(registry, i)
      BY <2>2 DEF Evict
    <3>2. s = Candidate
      <4>1. PICK j \in DOMAIN registry : s = registry[j]
        BY <1>1 DEF Registered
      <4>2. j # i => \E k \in DOMAIN registry' : registry'[k] = registry[j]
        BY <2>1, <3>1, RemovedOne
      <4>. QED BY <1>1, <3>1, <4>1, <4>2 DEF Registered
    <3>3. loop.seen \in {"nothing", "paused"} /\ ~IsAwaiting(s)
      BY <1>1, <2>2, <3>2 DEF Evict, Scanning, IInv, SeenQuiet
    <3>. QED BY <1>1, <3>3 DEF IsAwaiting, IsRunning
  <2>3. CASE Find
    <3>1. PICK i \in DOMAIN registry :
            registry' = Append(RemoveAt(registry, i), registry[i])
      BY <2>3 DEF Find, MoveToEnd
    <3>2. Registered \subseteq Registered'
      <4>1. \A j \in DOMAIN registry : \E k \in DOMAIN registry' : registry'[k] = registry[j]
        BY <2>1, <3>1, RemovedOne
      <4>. QED BY <4>1 DEF Registered
    <3>. QED BY <1>1, <3>2
  <2>4. CASE Make
    <3>1. registry' = Append(registry, Made + 1)
      BY <2>4 DEF Make
    <3>2. \A i \in DOMAIN registry : i \in DOMAIN registry' /\ registry'[i] = registry[i]
      BY <2>1, <3>1
    <3>. QED BY <1>1, <3>2 DEF Registered
  <2>5. CASE UNCHANGED registry
    BY <1>1, <2>5 DEF Registered
  <2>6. Evict \/ Find \/ Make \/ UNCHANGED registry
    <3>1. CASE Looking
      BY <3>1 DEF Looking, Receive, LooksRunning, LooksAwaiting, CapacityScanned, OtherAnswer,
                  tables
    <3>2. CASE Serve
      BY <3>2 DEF Serve, RefuseRun, StartRun, PreviewPlan, OtherAnswer, CallApprover, tables
    <3>. QED BY <1>1, <3>1, <3>2, WorkFrame, DecideFrame DEF IInv, Next, GetSession, Looking
  <2>. QED BY <2>2, <2>3, <2>4, <2>5, <2>6
<1>2. ASSUME IInv, [Next]_vars
      PROVE  [\A s \in Registered \ Registered' :
                Doing(s) = loop.seen => ~IsRunning(s) /\ ~IsAwaiting(s)]_vars
  BY <1>1, <1>2
<1>. QED BY <1>2, Inductive, PTL DEF Spec, BusyIsKept
=============================================================================
