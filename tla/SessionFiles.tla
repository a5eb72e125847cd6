---------------------------- MODULE SessionFiles ----------------------------
(***************************************************************************)
(* The persistent sessions of agent/session_manager.py: one JSON file per  *)
(* session, changed by the threads that serve /api/sessions. Every change  *)
(* reads the file, edits the record and saves it through a temporary file  *)
(* and os.replace, under the RLock of the manager; the manager itself is   *)
(* built on first use by whichever thread comes first. The process may be  *)
(* killed at any step: files stay, locks, the manager and the last stamp   *)
(* do not.                                                                 *)
(***************************************************************************)
EXTENDS Naturals, Sequences, FiniteSets, FiniteSetsExt, SequencesExt

CONSTANTS Threads,   \* request threads
          Ids,       \* session ids, uuid4: never reused
          None,      \* no file, no record, no owner
          MaxOps,    \* bound: requests
          MaxClock,  \* bound: ticks of the system clock
          MaxCrashes \* bound: crashes of the process

VARIABLES files,     \* the session files: a record or None
          tmp,       \* <id>.json.<pid>.tmp of the running process
          used,      \* ids handed out by create_session
          managers,  \* how many SessionManager objects this process built
          default,   \* _default_manager: 0 is None
          owner,     \* who holds the RLock of each manager
          pc,        \* what each thread does next
          req,       \* its request: operation, id and number
          mine,      \* the manager it got
          rec,       \* the record it is about to save
          clock,     \* datetime.now()
          lastStamp, \* _last_stamp
          ops, crashes,
          appended,  \* ghost: messages whose append returned, of live sessions
          deleted    \* ghost: sessions whose delete returned

vars == <<files, tmp, used, managers, default, owner, pc, req, mine, rec,
          clock, lastStamp, ops, crashes, appended, deleted>>

Managers == 1 .. Cardinality(Threads)
Operations == {"create", "append", "rename", "get", "delete"}
NoRequest == [op |-> "get", id |-> None, n |-> 0]

TypeOK ==
  /\ \A i \in Ids : files[i] # None =>
       files[i].updated \in Nat /\ IsInjective(files[i].messages)
  /\ used \subseteq Ids
  /\ default \in 0 .. managers
  /\ managers \in 0 .. Cardinality(Threads)
  /\ owner \in [Managers -> Threads \union {None}]
  /\ pc \in [Threads -> {"idle", "build", "call", "read", "write", "replace",
                         "not_found", "crashed"}]

Init ==
  /\ files = [i \in Ids |-> None]
  /\ tmp = [i \in Ids |-> None]
  /\ used = {}
  /\ managers = 0
  /\ default = 0
  /\ owner = [m \in Managers |-> None]
  /\ pc = [t \in Threads |-> "idle"]
  /\ req = [t \in Threads |-> NoRequest]
  /\ mine = [t \in Threads |-> 0]
  /\ rec = [t \in Threads |-> None]
  /\ clock = 1
  /\ lastStamp = 0
  /\ ops = 0
  /\ crashes = 0
  /\ appended = [i \in Ids |-> {}]
  /\ deleted = {}

----------------------------------------------------------------------------
Go(t, next) == pc' = [pc EXCEPT ![t] = next]
Free(t) == owner[mine[t]] = None
Lock(t) == owner' = [owner EXCEPT ![mine[t]] = t]
Unlock(t) == owner' = [owner EXCEPT ![mine[t]] = None]

(* _now: the clock, or one step past the last stamp when it has not moved.  *)
Now == IF clock <= lastStamp THEN lastStamp + 1 ELSE clock

(* The ids a client can name: a session is listed once its file is there.  *)
Known == {i \in Ids : files[i] # None} \union deleted

(* A request arrives and asks for the manager; a thread that finds none    *)
(* waits for _default_manager_lock.                                        *)
Request(t) ==
  /\ pc[t] \in {"idle", "not_found", "crashed"}
  /\ ops < MaxOps
  /\ \E op \in Operations :
       \E i \in IF op = "create" THEN Ids \ used ELSE Known :
         /\ req' = [req EXCEPT ![t] = [op |-> op, id |-> i, n |-> ops]]
         /\ used' = used \union {i}
  /\ ops' = ops + 1
  /\ mine' = [mine EXCEPT ![t] = default]
  /\ Go(t, IF default = 0 THEN "build" ELSE "call")
  /\ UNCHANGED <<files, tmp, managers, default, owner, rec, clock, lastStamp,
                 crashes, appended, deleted>>

(* Under the lock: another thread may have built it while this one waited. *)
GetSessionManager(t) ==
  /\ pc[t] = "build"
  /\ managers' = IF default = 0 THEN managers + 1 ELSE managers
  /\ default' = IF default = 0 THEN managers + 1 ELSE default
  /\ mine' = [mine EXCEPT ![t] = default']
  /\ Go(t, "call")
  /\ UNCHANGED <<files, tmp, used, owner, req, rec, clock, lastStamp, ops,
                 crashes, appended, deleted>>

(* create_session: the record and its stamp are made before the lock is    *)
(* taken by _save.                                                         *)
CreateSession(t) ==
  /\ pc[t] = "call"
  /\ req[t].op = "create"
  /\ rec' = [rec EXCEPT ![t] = [messages |-> <<>>, updated |-> Now]]
  /\ lastStamp' = Now
  /\ Go(t, "write")
  /\ UNCHANGED <<files, tmp, used, managers, default, owner, req, mine, clock,
                 ops, crashes, appended, deleted>>

Changed(t) ==
  LET old == files[req[t].id]
  IN  [messages |-> IF req[t].op = "append"
                    THEN Append(old.messages, req[t].n) ELSE old.messages,
       updated |-> Now]

ChangeUnlocked(t) ==  \* mutant: only _save takes the lock
  /\ pc[t] = "call"
  /\ req[t].op \in {"append", "rename"}
  /\ files[req[t].id] # None
  /\ rec' = [rec EXCEPT ![t] = Changed(t)]
  /\ lastStamp' = Now
  /\ Go(t, "write")
  /\ UNCHANGED <<files, tmp, used, managers, default, owner, req, mine, clock,
                 ops, crashes, appended, deleted>>

(* append_message, rename_session and update_metadata: the lock is held    *)
(* from the read to the end of the save.                                   *)
Change(t) ==
  /\ pc[t] = "call"
  /\ req[t].op \in {"append", "rename"}
  /\ Free(t)
  /\ files[req[t].id] # None
  /\ rec' = [rec EXCEPT ![t] = Changed(t)]
  /\ lastStamp' = Now
  /\ Lock(t)
  /\ Go(t, "write")
  /\ UNCHANGED <<files, tmp, used, managers, default, req, mine, clock, ops,
                 crashes, appended, deleted>>

(* KeyError: the endpoint answers 404.                                     *)
NotFound(t) ==
  /\ pc[t] = "call"
  /\ req[t].op \in {"append", "rename", "get"}
  /\ req[t].op # "get" => Free(t)
  /\ files[req[t].id] = None
  /\ Go(t, "not_found")
  /\ UNCHANGED <<files, tmp, used, managers, default, owner, req, mine, rec,
                 clock, lastStamp, ops, crashes, appended, deleted>>

(* get_session looks for the file before it takes the lock ...             *)
GetSession(t) ==
  /\ pc[t] = "call"
  /\ req[t].op = "get"
  /\ files[req[t].id] # None
  /\ Go(t, "read")
  /\ UNCHANGED <<files, tmp, used, managers, default, owner, req, mine, rec,
                 clock, lastStamp, ops, crashes, appended, deleted>>

(* ... and reads it after: a session deleted in between is a               *)
(* FileNotFoundError, which no endpoint expects.                           *)
ReadSession(t) ==
  /\ pc[t] = "read"
  /\ Free(t)
  /\ Go(t, IF files[req[t].id] = None THEN "crashed" ELSE "idle")
  /\ UNCHANGED <<files, tmp, used, managers, default, owner, req, mine, rec,
                 clock, lastStamp, ops, crashes, appended, deleted>>

DeleteSession(t) ==
  /\ pc[t] = "call"
  /\ req[t].op = "delete"
  /\ Free(t)
  /\ files' = [files EXCEPT ![req[t].id] = None]
  /\ deleted' = deleted \union {req[t].id}
  /\ appended' = [appended EXCEPT ![req[t].id] = {}]
  /\ Go(t, "idle")
  /\ UNCHANGED <<tmp, used, managers, default, owner, req, mine, rec, clock,
                 lastStamp, ops, crashes>>

(* _save: the temporary file, then os.replace; either may fail, the         *)
(* temporary file is removed and the error ends the request.               *)
WriteTmp(t) ==
  /\ pc[t] = "write"
  /\ owner[mine[t]] \in {None, t}
  /\ Lock(t)
  /\ tmp' = [tmp EXCEPT ![req[t].id] = rec[t]]
  /\ Go(t, "replace")
  /\ UNCHANGED <<files, used, managers, default, req, mine, rec, clock,
                 lastStamp, ops, crashes, appended, deleted>>

Replace(t) ==
  LET i == req[t].id
  IN  /\ pc[t] = "replace"
      /\ files' = [files EXCEPT ![i] = tmp[i]]
      /\ tmp' = [tmp EXCEPT ![i] = None]
      /\ appended' = [appended EXCEPT ![i] =
           IF req[t].op = "append" THEN @ \union {req[t].n} ELSE @]
      /\ rec' = [rec EXCEPT ![t] = None]
      /\ Unlock(t)
      /\ Go(t, "idle")
      /\ UNCHANGED <<used, managers, default, req, mine, clock, lastStamp, ops,
                     crashes, deleted>>

SaveFails(t) ==
  /\ pc[t] \in {"write", "replace"}
  /\ owner[mine[t]] \in {None, t}
  /\ tmp' = [tmp EXCEPT ![req[t].id] = None]
  /\ rec' = [rec EXCEPT ![t] = None]
  /\ Unlock(t)
  /\ Go(t, "crashed")
  /\ UNCHANGED <<files, used, managers, default, req, mine, clock, lastStamp,
                 ops, crashes, appended, deleted>>

----------------------------------------------------------------------------
Tick ==
  /\ clock < MaxClock
  /\ clock' = clock + 1
  /\ UNCHANGED <<files, tmp, used, managers, default, owner, pc, req, mine,
                 rec, lastStamp, ops, crashes, appended, deleted>>

(* The process is killed and started again: a new pid, so other temporary  *)
(* files, and long enough for the clock to pass every stamp it made.       *)
Restart ==
  /\ crashes < MaxCrashes
  /\ crashes' = crashes + 1
  /\ clock' = Max({clock, lastStamp}) + 1
  /\ lastStamp' = 0
  /\ managers' = 0
  /\ default' = 0
  /\ tmp' = [i \in Ids |-> None]
  /\ owner' = [m \in Managers |-> None]
  /\ pc' = [t \in Threads |-> "idle"]
  /\ req' = [t \in Threads |-> NoRequest]
  /\ mine' = [t \in Threads |-> 0]
  /\ rec' = [t \in Threads |-> None]
  /\ UNCHANGED <<files, used, ops, appended, deleted>>

Step(t) ==
  \/ Request(t) \/ GetSessionManager(t) \/ CreateSession(t) \/ Change(t)
  \/ NotFound(t) \/ GetSession(t) \/ ReadSession(t) \/ DeleteSession(t)
  \/ WriteTmp(t) \/ Replace(t) \/ SaveFails(t)

Next == (\E t \in Threads : Step(t)) \/ Tick \/ Restart

Spec == Init /\ [][Next]_vars

----------------------------------------------------------------------------
(* A message whose append returned is in the file of its session, whatever *)
(* other threads rename, append or save meanwhile and wherever the process *)
(* is killed: no update is lost (the RLock around read, change and save).  *)
AppendsKept ==
  \A i \in Ids :
    appended[i] # {} => files[i] # None /\ appended[i] \subseteq ToSet(files[i].messages)

(* No two sessions carry the same stamp, within one tick of the clock or    *)
(* across them, so list_sessions sorted by updated_at has one order: the   *)
(* session changed last comes first (_now).                                *)
StampsDiffer ==
  \A i, j \in Ids :
    i # j /\ files[i] # None /\ files[j] # None => files[i].updated # files[j].updated

(* A deleted session stays deleted: no rename or append that had read it    *)
(* before the delete writes it back.                                       *)
DeletedStaysDeleted == \A i \in deleted : files[i] = None

(* What the session list and the histories show is what was saved.         *)
SessionsAreKept == AppendsKept /\ DeletedStaysDeleted /\ StampsDiffer
=============================================================================
