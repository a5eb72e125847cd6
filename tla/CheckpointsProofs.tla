-------------------------- MODULE CheckpointsProofs ---------------------------
(*****************************************************************************)
(* Theorems about Checkpoints, for any workers, files and retention, and any  *)
(* number of commits, writes by others and crashes.                          *)
(*****************************************************************************)
EXTENDS Checkpoints, FiniteSetTheorems, SequenceTheorems, TLAPS

\* Marks name commits that there are, in the sidecar and on their way to it.
Named == (1 .. Len(history)) \X {"label", "deleted"}
Operations ==
    [at : Steps, id : 0 .. Len(history), removed : SUBSET Paths, marks : SUBSET Named,
     file : {"tmp", "sidecar", "gone"}, made : 0 .. Len(history), saved : BOOLEAN,
     clean : BOOLEAN]

Typed ==
    /\ files \in Tree /\ index \in Tree
    /\ history \in Seq(Tree) /\ Len(history) <= MaxCommits
    /\ sidecar \in (SUBSET Named) \cup {Torn}
    /\ tmp \in (SUBSET Named) \cup {Torn, Missing}
    /\ lock \in BOOLEAN /\ raced \in BOOLEAN
    /\ writes \in 0 .. MaxWrites /\ crashes \in 0 .. MaxCrashes
    /\ op \in [Workers -> Operations]

\* The commit a create made is the last one and holds the workspace and the index,
\* and nothing that reaches the sidecar before it is used deletes it.
Recorded(w) ==
    /\ op[w].made = Len(history)
    /\ history[op[w].made] = files /\ index = files
    /\ <<op[w].made, "deleted">> \notin Load(sidecar)
    /\ tmp \in SUBSET Named => <<op[w].made, "deleted">> \notin tmp
    /\ <<op[w].made, "deleted">> \notin op[w].marks

\* What a restore is going to remove is all that is there and not in its
\* checkpoint, and nothing of the checkpoint.
Doomed(w) ==
    /\ Present(files) \ Present(history[op[w].id]) \subseteq op[w].removed
    /\ op[w].removed \cap Present(history[op[w].id]) = {}

CheckedOut(w) == \A p \in Present(history[op[w].id]) : files[p] = history[op[w].id][p]

Good(w) ==
    /\ op[w].at \in {"idle", "commit", "checkout", "unlink"} => op[w].made = 0
    /\ op[w].at \in {"checkout", "unlink"} => op[w].id \in 1 .. Len(history)
    /\ op[w].clean =>
         /\ op[w].made # 0 => Recorded(w)
         /\ At(w, "commit") => index = files
         /\ op[w].at \in {"checkout", "unlink"} => Doomed(w)
         /\ At(w, "unlink") => CheckedOut(w)

\* Updates of the sidecar that have not overlapped: one at a time, with all the
\* marks there are, through a temporary file that is its own.
OneUpdate ==
    ~raced =>
        /\ \A v, w \in Workers : Updating(v) /\ Updating(w) => v = w
        /\ \A w \in Workers : Updating(w) =>
             /\ Load(sidecar) \subseteq op[w].marks
             /\ At(w, "fill") => op[w].file = "tmp" /\ tmp = Torn
             /\ At(w, "replace") => tmp = op[w].marks

IInv == Typed /\ (\A w \in Workers : Good(w)) /\ OneUpdate

-----------------------------------------------------------------------------
(* What the steps have in common.  The proofs need a half-written file and no  *)
(* file to be told from any set of marks.                                    *)

Distinct == Torn \notin SUBSET Marks /\ Missing \notin SUBSET Marks

\* The history grows at its end, and by a tree that is not its last one.
Grows == \/ history' = history
         \/ /\ history' = Append(history, index)
            /\ Len(history) < MaxCommits /\ index # HeadTree

LEMMA Growth ==
    ASSUME Typed, MaxCommits \in Nat, Grows
    PROVE  /\ history' \in Seq(Tree) /\ Len(history') <= MaxCommits
           /\ Len(history) \in Nat /\ Len(history') \in Nat /\ Len(history) <= Len(history')
           /\ \A i \in 1 .. Len(history) : history'[i] = history[i]
           /\ 1 .. Len(history) \subseteq 1 .. Len(history')
           /\ 0 .. Len(history) \subseteq 0 .. Len(history')
           /\ history' # history =>
                Len(history') = Len(history) + 1 /\ history'[Len(history')] = index
<1>1. history \in Seq(Tree) /\ index \in Tree /\ Len(history) <= MaxCommits /\ Len(history) \in Nat
  BY LenProperties DEF Typed
<1>2. CASE history' = history
  BY <1>1, <1>2
<1>3. CASE history' = Append(history, index) /\ Len(history) < MaxCommits
  <2>1. /\ history' \in Seq(Tree) /\ Len(history') = Len(history) + 1
        /\ \A i \in 1 .. Len(history) : history'[i] = history[i]
        /\ history'[Len(history) + 1] = index
    BY <1>1, <1>3, AppendProperties
  <2>. QED BY <1>1, <1>3, <2>1
<1>. QED BY <1>2, <1>3 DEF Grows

LEMMA Wider ==
    ASSUME Typed, MaxCommits \in Nat, Grows
    PROVE  /\ Named \subseteq Named' /\ Named' \subseteq Marks
           /\ \A o \in Operations : o \in Operations'
<1>1. /\ Len(history') <= MaxCommits /\ Len(history') \in Nat
      /\ 1 .. Len(history) \subseteq 1 .. Len(history')
      /\ 0 .. Len(history) \subseteq 0 .. Len(history')
  BY Growth
<1>2. 1 .. Len(history') \subseteq 1 .. MaxCommits
  BY <1>1
<1>3. Named \subseteq Named' /\ Named' \subseteq Marks
  BY <1>1, <1>2 DEF Named, Marks
<1>4. SUBSET Named \subseteq SUBSET Named'
  BY <1>3
<1>. HIDE DEF Named
<1>5. ASSUME NEW o \in Operations PROVE o \in Operations'
  <2>1. o \in [at : Steps, id : 0 .. Len(history'), removed : SUBSET Paths, marks : SUBSET Named',
               file : {"tmp", "sidecar", "gone"}, made : 0 .. Len(history'), saved : BOOLEAN,
               clean : BOOLEAN]
    BY <1>1, <1>4, <1>5 DEF Operations
  <2>. QED BY <2>1 DEF Operations
<1>. QED BY <1>3, <1>5

\* No update begins or goes on: what there was of them is as it was.
LEMMA SameUpdates ==
    ASSUME OneUpdate, UNCHANGED metadata,
           \A v \in Workers : op'[v].at \in {"open", "fill", "replace"} =>
             op'[v].at = op[v].at /\ op'[v].marks = op[v].marks /\ op'[v].file = op[v].file
    PROVE  OneUpdate'
<1>1. sidecar' = sidecar /\ tmp' = tmp /\ raced' = raced
  BY DEF metadata
<1>2. Load(sidecar)' = Load(sidecar)
  BY <1>1 DEF Load
<1>. QED BY <1>1, <1>2 DEF OneUpdate, Updating, At

\* A worker that nobody disturbs finds all that it relied on.
LEMMA Undisturbed ==
    ASSUME IInv, Distinct, MaxCommits \in Nat, Grows, UNCHANGED <<files, index>>,
           sidecar' = sidecar, tmp' \in {tmp, Torn}, NEW v \in Workers, op'[v] = op[v]
    PROVE  Good(v)'
<1>1. Good(v) /\ op[v] \in Operations /\ Typed
  BY DEF IInv, Typed
<1>2. /\ Len(history) \in Nat /\ Len(history') \in Nat /\ Len(history) <= Len(history')
      /\ \A i \in 1 .. Len(history) : history'[i] = history[i]
      /\ 1 .. Len(history) \subseteq 1 .. Len(history')
  BY <1>1, Growth
<1>3. op[v].at \in {"checkout", "unlink"} =>
        op[v].id \in 1 .. Len(history) /\ history'[op[v].id] = history[op[v].id]
  BY <1>1, <1>2 DEF Good
<1>4. ASSUME op[v].clean, op[v].made # 0 PROVE Recorded(v)'
  <2>1. Recorded(v) /\ op[v].made \in 1 .. Len(history)
    BY <1>1, <1>2, <1>4 DEF Good, Operations
  <2>2. history' = history
    <3>1. HeadTree = index
      BY <1>2, <2>1 DEF Recorded, HeadTree
    <3>. QED BY <3>1 DEF Grows
  <2>3. tmp' \in SUBSET Named' => <<op[v].made, "deleted">> \notin tmp'
    <3>1. Torn \notin SUBSET Named
      BY <1>1, Wider DEF Distinct
    <3>2. Named' = Named
      BY <2>2 DEF Named
    <3>. QED BY <2>1, <3>1, <3>2 DEF Recorded
  <2>. QED BY <2>1, <2>2, <2>3 DEF Recorded, Load
<1>5. ASSUME op[v].at \in {"checkout", "unlink"}, op[v].clean
      PROVE  Doomed(v)' /\ (At(v, "unlink") => CheckedOut(v)')
  BY <1>1, <1>3, <1>5 DEF Good, Doomed, CheckedOut, Present, At
<1>. QED BY <1>1, <1>2, <1>3, <1>4, <1>5 DEF Good, At

\* A worker that somebody disturbs relies on nothing any more.
LEMMA Disturbed ==
    ASSUME IInv, history' = history, NEW v \in Workers,
           op'[v] \in {[op[v] EXCEPT !.clean = FALSE], Moved(op[v])}
    PROVE  Good(v)' /\ op'[v] \in Operations'
<1>1. Good(v) /\ op[v] \in Operations
  BY DEF IInv, Typed
<1>2. /\ op'[v] \in Operations /\ op'[v].at = op[v].at /\ op'[v].made = op[v].made
      /\ op'[v].id = op[v].id /\ ~op'[v].clean
  BY <1>1 DEF Operations, Moved
<1>3. Operations' = Operations
  BY DEF Operations, Named
<1>4. Good(v)'
  BY <1>1, <1>2 DEF Good
<1>. QED BY <1>2, <1>3, <1>4

\* The rest of a state: the counters and the stale lock.
Ranges == lock \in BOOLEAN /\ raced \in BOOLEAN /\ writes \in 0 .. MaxWrites
            /\ crashes \in 0 .. MaxCrashes

LEMMA QuietStep ==
    ASSUME IInv, Distinct, MaxCommits \in Nat, Grows, UNCHANGED <<files, index>>,
           sidecar' = sidecar, tmp' \in {tmp, Torn}, Ranges',
           NEW w \in Workers, NEW new, Quietly(w, new), new \in Operations', Good(w)', OneUpdate'
    PROVE  IInv'
<1>1. Typed /\ op \in [Workers -> Operations]
  BY DEF IInv, Typed
<1>2. Named \subseteq Named' /\ \A o \in Operations : o \in Operations'
  BY <1>1, Wider
<1>3. op' \in [Workers -> Operations'] /\ \A v \in Workers \ {w} : op'[v] = op[v]
  BY <1>1, <1>2 DEF Quietly
<1>4. SUBSET Named \subseteq SUBSET Named'
  BY <1>2
<1>5. Typed'
  <2>1. history' \in Seq(Tree) /\ Len(history') <= MaxCommits
    BY <1>1, Growth
  <2>. QED BY <1>1, <1>3, <1>4, <2>1 DEF Typed, Ranges
<1>6. \A v \in Workers \ {w} : Good(v)'
  BY <1>3, Undisturbed
<1>. QED BY <1>5, <1>6 DEF IInv

LEMMA DisturbStep ==
    ASSUME IInv, history' = history, files' \in Tree, index' \in Tree,
           sidecar' \in (SUBSET Named) \cup {Torn},
           tmp' \in (SUBSET Named) \cup {Torn, Missing}, Ranges',
           NEW w \in Workers, op' = [v \in Workers |-> op'[v]],
           \A v \in Workers \ {w} : op'[v] \in {[op[v] EXCEPT !.clean = FALSE], Moved(op[v])},
           op'[w] \in Operations, Good(w)', OneUpdate'
    PROVE  IInv'
<1>1. Named' = Named /\ Operations' = Operations
  BY DEF Named, Operations
<1>2. \A v \in Workers \ {w} : Good(v)' /\ op'[v] \in Operations
  BY <1>1, Disturbed
<1>3. \A v \in Workers : Good(v)' /\ op'[v] \in Operations
  BY <1>2
<1>4. op' \in [Workers -> Operations']
  BY <1>1, <1>3
<1>5. Typed'
  BY <1>1, <1>4 DEF Typed, IInv, Ranges
<1>. QED BY <1>3, <1>5 DEF IInv

\* Steps of a worker that is not, or no longer, updating the sidecar.
LEMMA QuietAway ==
    ASSUME IInv, Distinct, MaxCommits \in Nat, Grows, UNCHANGED <<files, index, metadata>>,
           lock' \in BOOLEAN, writes' \in 0 .. MaxWrites, crashes' \in 0 .. MaxCrashes,
           NEW w \in Workers, NEW new, Quietly(w, new), new \in Operations',
           new.at \notin {"open", "fill", "replace"}, Good(w)'
    PROVE  IInv'
<1>1. sidecar' = sidecar /\ tmp' = tmp /\ raced' = raced
  BY DEF metadata
<1>2. op'[w] = new /\ \A v \in Workers \ {w} : op'[v] = op[v]
  BY DEF Quietly, IInv, Typed
<1>3. OneUpdate'
  BY <1>2, SameUpdates DEF IInv
<1>4. Ranges'
  BY <1>1 DEF Ranges, IInv, Typed
<1>. QED BY <1>1, <1>3, <1>4, QuietStep

LEMMA DisturbAway ==
    ASSUME IInv, UNCHANGED <<history, lock, crashes, metadata>>, files' \in Tree, index' \in Tree,
           writes' \in 0 .. MaxWrites, NEW w \in Workers, NEW new, Disturbing(w, new),
           new \in Operations, new.at \notin {"open", "fill", "replace"}, Good(w)'
    PROVE  IInv'
<1>1. sidecar' = sidecar /\ tmp' = tmp /\ raced' = raced
  BY DEF metadata
<1>2. /\ op' = [v \in Workers |-> op'[v]] /\ op'[w] = new
      /\ \A v \in Workers \ {w} : op'[v] = [op[v] EXCEPT !.clean = FALSE]
  BY DEF Disturbing
<1>3. \A v \in Workers \ {w} :
        op'[v].at = op[v].at /\ op'[v].marks = op[v].marks /\ op'[v].file = op[v].file
  <2>1. \A v \in Workers : op[v] \in Operations
    BY DEF IInv, Typed
  <2>. QED BY <1>2, <2>1 DEF Operations
<1>4. OneUpdate'
  BY <1>2, <1>3, SameUpdates DEF IInv
<1>5. Ranges' /\ sidecar' \in (SUBSET Named) \cup {Torn} /\ tmp' \in (SUBSET Named) \cup {Torn, Missing}
  BY <1>1 DEF Ranges, IInv, Typed
<1>. QED BY <1>2, <1>4, <1>5, DisturbStep

\* What an action finds.
LEMMA Finding ==
    ASSUME IInv, NEW w \in Workers
    PROVE  /\ op[w] \in Operations /\ Good(w) /\ Typed
           /\ history \in Seq(Tree) /\ Len(history) \in Nat
           /\ writes \in 0 .. MaxWrites /\ crashes \in 0 .. MaxCrashes /\ lock \in BOOLEAN
           /\ files \in Tree /\ index \in Tree
           /\ \A new : Quietly(w, new) \/ Disturbing(w, new) => op'[w] = new
           /\ \A new : Grows /\ history' = history /\ new \in Operations => new \in Operations'
           /\ Idle \in Operations /\ Idle.made = 0 /\ Idle.clean = TRUE /\ Idle.at = "idle"
<1>1. Len(history) \in Nat
  BY LenProperties DEF IInv, Typed
<1>2. op \in [Workers -> Operations]
  BY DEF IInv, Typed
<1>3. \A new : Quietly(w, new) \/ Disturbing(w, new) => op'[w] = new
  BY <1>2 DEF Quietly, Disturbing
<1>4. history' = history => Operations' = Operations
  BY DEF Operations, Named
<1>5. Idle \in Operations /\ Idle.made = 0 /\ Idle.clean = TRUE /\ Idle.at = "idle"
  BY <1>1 DEF Idle, Operations, Steps
<1>. QED BY <1>1, <1>2, <1>3, <1>4, <1>5 DEF IInv, Typed

\* An operation that has made no commit and is not in the middle of a git command.
LEMMA Harmless ==
    ASSUME NEW w \in Workers, op'[w].made = 0, op'[w].at \in {"idle", "apply", "open"}
    PROVE  Good(w)'
BY DEF Good, At

-----------------------------------------------------------------------------
(* The actions: create and its git commands.                                 *)

Bounds == Distinct /\ MaxCommits \in Nat /\ MaxWrites \in Nat /\ MaxCrashes \in Nat

LEMMA StageKeeps ==
    ASSUME IInv, Bounds, NEW w \in Workers, Stage(w)
    PROVE  IInv'
<1>. DEFINE new == [Idle EXCEPT !.at = "commit"]
<1>1. /\ Disturbing(w, new) /\ index' = files /\ files' = files
      /\ UNCHANGED <<history, lock, crashes, metadata>> /\ writes' = writes
  BY DEF Stage
<1>2. Idle \in Operations /\ op'[w] = new /\ files \in Tree /\ writes \in 0 .. MaxWrites
  BY <1>1, Finding
<1>3. /\ new \in Operations /\ new.at = "commit" /\ new.made = 0
  BY <1>2 DEF Operations, Idle, Steps
<1>4. Good(w)'
  BY <1>1, <1>2, <1>3 DEF Good, At
<1>. QED BY <1>1, <1>2, <1>3, <1>4, DisturbAway

LEMMA StageFailsKeeps ==
    ASSUME IInv, Bounds, NEW w \in Workers, StageFails(w)
    PROVE  IInv'
<1>. DEFINE new == [Idle EXCEPT !.at = "apply"]
<1>1. Quietly(w, new) /\ UNCHANGED <<repository, metadata>>
  BY DEF StageFails
<1>2. Grows /\ UNCHANGED <<files, index, metadata>> /\ lock' = lock /\ writes' = writes /\ crashes' = crashes
  BY <1>1 DEF Grows, repository
<1>3. op'[w] = new /\ new \in Operations /\ new.at = "apply" /\ new.made = 0
  BY <1>1, Finding DEF Operations, Idle, Steps
<1>4. new \in Operations'
  BY <1>2, <1>3, Wider DEF Bounds, IInv
<1>. QED BY <1>1, <1>2, <1>3, <1>4, Harmless, Finding, QuietAway DEF Bounds

LEMMA CommitFailsKeeps ==
    ASSUME IInv, Bounds, NEW w \in Workers, CommitFails(w)
    PROVE  IInv'
<1>. DEFINE new == [Idle EXCEPT !.at = "apply"]
<1>1. Quietly(w, new) /\ UNCHANGED <<repository, metadata>>
  BY DEF CommitFails
<1>2. Grows /\ UNCHANGED <<files, index, metadata>> /\ lock' = lock /\ writes' = writes /\ crashes' = crashes
  BY <1>1 DEF Grows, repository
<1>3. op'[w] = new /\ new \in Operations /\ new.at = "apply" /\ new.made = 0
  BY <1>1, Finding DEF Operations, Idle, Steps
<1>4. new \in Operations'
  BY <1>2, <1>3, Wider DEF Bounds, IInv
<1>. QED BY <1>1, <1>2, <1>3, <1>4, Harmless, Finding, QuietAway DEF Bounds

\* A new commit is no marked one: marks name commits that there are.
LEMMA CommitKeeps ==
    ASSUME IInv, Bounds, NEW w \in Workers, Commit(w)
    PROVE  IInv'
<1>1. /\ op[w] \in Operations /\ Good(w) /\ Typed /\ Len(history) \in Nat
      /\ writes \in 0 .. MaxWrites /\ crashes \in 0 .. MaxCrashes /\ lock \in BOOLEAN
  BY Finding
<1>2. /\ UNCHANGED <<files, index, lock, writes, crashes, metadata>> /\ At(w, "commit")
      /\ op[w].made = 0 /\ (op[w].clean => index = files)
  BY <1>1 DEF Commit, Good, At
<1>3. CASE index = HeadTree
  <2>. DEFINE new == [op[w] EXCEPT !.at = "apply", !.saved = TRUE]
  <2>1. Quietly(w, new) /\ Grows
    BY <1>3 DEF Commit, Grows
  <2>2. op'[w] = new /\ new \in Operations /\ new.at = "apply" /\ new.made = 0
    BY <1>1, <1>2, <2>1, Finding DEF Operations, Steps
  <2>3. new \in Operations'
    BY <1>1, <2>1, <2>2, Wider DEF Bounds
  <2>. QED BY <1>1, <1>2, <2>1, <2>2, <2>3, Harmless, QuietAway DEF Bounds
<1>4. CASE index # HeadTree
  <2>. DEFINE new == [op[w] EXCEPT !.at = "retain", !.saved = TRUE, !.made = Len(history')]
  <2>1. Quietly(w, new) /\ history' = Append(history, index) /\ Len(history) < MaxCommits /\ Grows
    BY <1>4 DEF Commit, Grows
  <2>2. Len(history') = Len(history) + 1 /\ history'[Len(history')] = index
    BY <1>1, <2>1, AppendProperties DEF Typed
  <2>3. op'[w] = new /\ op[w] \in Operations'
    BY <1>1, <2>1, Finding, Wider DEF Bounds
  <2>4. new \in Operations' /\ new.at = "retain" /\ new.made = Len(history')
          /\ new.clean = op[w].clean /\ new.marks = op[w].marks
    <3>1. Len(history') \in 0 .. Len(history')
      BY <1>1, <2>2
    <3>2. op[w] \in [at : Steps, id : 0 .. Len(history'), removed : SUBSET Paths,
                     marks : SUBSET Named', file : {"tmp", "sidecar", "gone"},
                     made : 0 .. Len(history'), saved : BOOLEAN, clean : BOOLEAN]
      BY <2>3 DEF Operations
    <3>3. new \in [at : Steps, id : 0 .. Len(history'), removed : SUBSET Paths,
                   marks : SUBSET Named', file : {"tmp", "sidecar", "gone"},
                   made : 0 .. Len(history'), saved : BOOLEAN, clean : BOOLEAN]
      BY <3>1, <3>2 DEF Steps
    <3>. QED BY <3>2, <3>3 DEF Operations
  <2>5. <<Len(history'), "deleted">> \notin Named
    BY <1>1, <2>2 DEF Named
  <2>6. op[w].clean => Recorded(w)'
    <3>1. <<Len(history'), "deleted">> \notin Load(sidecar)
      BY <1>1, <2>5 DEF Load, Typed
    <3>2. tmp \in SUBSET Named' => <<Len(history'), "deleted">> \notin tmp
      <4>1. tmp \in SUBSET Named \/ tmp \in {Torn, Missing}
        BY <1>1 DEF Typed
      <4>2. Torn \notin SUBSET Named' /\ Missing \notin SUBSET Named'
        BY <1>1, <2>1, Wider DEF Bounds, Distinct
      <4>. QED BY <2>5, <4>1, <4>2
    <3>3. <<Len(history'), "deleted">> \notin op[w].marks
      BY <1>1, <2>5 DEF Operations
    <3>4. sidecar' = sidecar /\ tmp' = tmp
      BY <1>2 DEF metadata
    <3>. QED BY <1>2, <2>2, <2>3, <2>4, <3>1, <3>2, <3>3, <3>4 DEF Recorded, Load
  <2>7. Good(w)'
    BY <2>3, <2>4, <2>6 DEF Good, At
  <2>. QED BY <1>1, <1>2, <2>1, <2>4, <2>7, QuietAway DEF Bounds
<1>. QED BY <1>3, <1>4

-----------------------------------------------------------------------------
(* The updates of the sidecar.                                               *)

\* A worker that begins to update knows all the marks; if another is at it, the
\* updates overlap.
LEMMA StartKeeps ==
    ASSUME IInv, Bounds, NEW w \in Workers, NEW marks, StartUpdate(w, marks),
           marks \in SUBSET Named, Load(sidecar) \subseteq marks,
           op[w].at \in {"idle", "retain"},
           op[w].clean => <<op[w].made, "deleted">> \notin marks
    PROVE  IInv'
<1>. DEFINE new == [op[w] EXCEPT !.at = "open", !.marks = marks]
<1>1. /\ op[w] \in Operations /\ Good(w) /\ Typed
      /\ writes \in 0 .. MaxWrites /\ crashes \in 0 .. MaxCrashes /\ lock \in BOOLEAN
      /\ op \in [Workers -> Operations] /\ OneUpdate
  BY Finding DEF Typed, IInv
<1>2. /\ UNCHANGED <<files, index, history, lock, writes, crashes, sidecar, tmp>>
      /\ Quietly(w, new) /\ Grows
      /\ raced' = (raced \/ \E v \in Workers \ {w} : Updating(v))
  BY DEF StartUpdate, repository, Grows
<1>3. op'[w] = new /\ \A v \in Workers \ {w} : op'[v] = op[v]
  BY <1>1, <1>2 DEF Quietly
<1>4. /\ new \in Operations /\ new.at = "open" /\ new.marks = marks
      /\ new.made = op[w].made /\ new.clean = op[w].clean
  BY <1>1 DEF Operations, Steps
<1>5. new \in Operations'
  BY <1>1, <1>2, <1>4, Wider DEF Bounds
<1>6. Named' = Named
  BY <1>2 DEF Named
<1>7. ASSUME op[w].clean, op[w].made # 0 PROVE Recorded(w)'
  <2>1. Recorded(w)
    BY <1>1, <1>7 DEF Good
  <2>. QED BY <1>2, <1>3, <1>4, <1>6, <1>7, <2>1 DEF Recorded, Load
<1>8. Good(w)'
  BY <1>3, <1>4, <1>7 DEF Good, At
<1>9. OneUpdate'
  <2>. SUFFICES ASSUME ~raced' PROVE OneUpdate'
    BY DEF OneUpdate
  <2>1. ~raced /\ \A v \in Workers \ {w} : ~Updating(v)
    BY <1>2
  <2>2. \A v \in Workers \ {w} : ~Updating(v)'
    BY <1>3, <2>1 DEF Updating, At
  <2>3. ~At(w, "fill")' /\ ~At(w, "replace")'
    BY <1>3, <1>4 DEF At
  <2>4. Load(sidecar') \subseteq op'[w].marks
    BY <1>2, <1>3, <1>4 DEF Load
  <2>. QED BY <2>2, <2>3, <2>4 DEF OneUpdate, Load
<1>10. Ranges'
  <2>1. raced' \in BOOLEAN
    BY <1>2
  <2>. QED BY <1>1, <1>2, <2>1 DEF Ranges
<1>. QED BY <1>1, <1>2, <1>5, <1>8, <1>9, <1>10, QuietStep DEF Bounds

LEMMA DeleteKeeps ==
    ASSUME IInv, Bounds, NEW w \in Workers, NEW c \in Ids, Delete(w, c)
    PROVE  IInv'
<1>. DEFINE marks == Load(sidecar) \cup {<<c, "deleted">>}
<1>1. /\ op[w] \in Operations /\ Good(w) /\ Typed /\ Len(history) \in Nat
      /\ DOMAIN history = 1 .. Len(history)
  BY Finding, LenProperties
<1>2. At(w, "idle") /\ StartUpdate(w, marks) /\ c \in 1 .. Len(history)
  BY <1>1 DEF Delete, Ids
<1>3. marks \in SUBSET Named /\ Load(sidecar) \subseteq marks
  BY <1>1, <1>2 DEF Typed, Load, Named
<1>4. op[w].made = 0 /\ <<op[w].made, "deleted">> \notin Named
  BY <1>1, <1>2 DEF Good, At, Named
<1>. HIDE DEF marks
<1>. QED BY <1>2, <1>3, <1>4, StartKeeps DEF At

LEMMA RenameKeeps ==
    ASSUME IInv, Bounds, NEW w \in Workers, NEW c \in Ids, Rename(w, c)
    PROVE  IInv'
<1>. DEFINE marks == Load(sidecar) \cup {<<c, "label">>}
<1>1. /\ op[w] \in Operations /\ Good(w) /\ Typed /\ Len(history) \in Nat
      /\ DOMAIN history = 1 .. Len(history)
  BY Finding, LenProperties
<1>2. At(w, "idle") /\ StartUpdate(w, marks) /\ c \in 1 .. Len(history)
  BY <1>1 DEF Rename, Ids
<1>3. marks \in SUBSET Named /\ Load(sidecar) \subseteq marks
  BY <1>1, <1>2 DEF Typed, Load, Named
<1>4. op[w].made = 0 /\ <<op[w].made, "deleted">> \notin Named
  BY <1>1, <1>2 DEF Good, At, Named
<1>. HIDE DEF marks
<1>. QED BY <1>2, <1>3, <1>4, StartKeeps DEF At

\* Nothing visible is newer than the last commit, so retention spares it.
LEMMA Spared ==
    ASSUME Typed, MaxCount \in Nat \ {0}
    PROVE  Len(history) \notin Excess /\ Excess \subseteq 1 .. Len(history)
<1>1. Len(history) \in Nat /\ DOMAIN history = 1 .. Len(history)
  BY LenProperties DEF Typed
<1>2. Visible \subseteq 1 .. Len(history)
  BY <1>1 DEF Visible, Ids
<1>3. Newer(Len(history)) = {}
  <2>1. \A d \in Visible : ~(d > Len(history))
    BY <1>1, <1>2
  <2>. QED BY <2>1 DEF Newer
<1>4. Cardinality(Newer(Len(history))) = 0
  BY <1>3, FS_EmptySet
<1>5. ~(0 >= MaxCount)
  OBVIOUS
<1>. QED BY <1>2, <1>4, <1>5 DEF Excess

LEMMA RetainKeeps ==
    ASSUME IInv, Bounds, MaxCount \in Nat \ {0}, NEW w \in Workers, Retain(w)
    PROVE  IInv'
<1>1. /\ op[w] \in Operations /\ Good(w) /\ Typed /\ Len(history) \in Nat
      /\ DOMAIN history = 1 .. Len(history) /\ At(w, "retain")
      /\ writes \in 0 .. MaxWrites /\ crashes \in 0 .. MaxCrashes /\ lock \in BOOLEAN
  BY Finding, LenProperties DEF Retain
<1>2. PICK age \in 0 .. (Len(history) - 1) :
         LET hide == Excess \cup {c \in Visible : c <= age /\ c # op[w].made}
         IN  IF hide = {}
             THEN /\ Quietly(w, [op[w] EXCEPT !.at = "apply"])
                  /\ UNCHANGED <<repository, metadata>>
             ELSE StartUpdate(w, Load(sidecar) \cup (hide \X {"deleted"}))
  BY DEF Retain
<1>. DEFINE hide == Excess \cup {c \in Visible : c <= age /\ c # op[w].made}
            marks == Load(sidecar) \cup (hide \X {"deleted"})
            new == [op[w] EXCEPT !.at = "apply"]
<1>3. CASE hide = {}
  <2>1. Quietly(w, new) /\ UNCHANGED <<repository, metadata>>
    BY <1>2, <1>3
  <2>2. Grows /\ UNCHANGED <<files, index, metadata>> /\ lock' = lock /\ writes' = writes
          /\ crashes' = crashes /\ history' = history
    BY <2>1 DEF Grows, repository
  <2>3. /\ op'[w] = new /\ new \in Operations /\ new.at = "apply" /\ new.made = op[w].made
        /\ new.clean = op[w].clean /\ new.marks = op[w].marks
    BY <1>1, <2>1, Finding DEF Operations, Steps
  <2>4. new \in Operations'
    BY <1>1, <2>2, <2>3, Wider DEF Bounds
  <2>5. op[w].clean /\ op[w].made # 0 => Recorded(w)'
    BY <1>1, <2>2, <2>3 DEF Good, Recorded, metadata, Load, Named
  <2>6. Good(w)'
    BY <2>3, <2>5 DEF Good, At
  <2>. QED BY <1>1, <2>1, <2>2, <2>3, <2>4, <2>6, QuietAway DEF Bounds
<1>4. CASE hide # {}
  <2>1. StartUpdate(w, marks)
    BY <1>2, <1>4
  <2>2. hide \subseteq 1 .. Len(history)
    BY <1>1, Spared DEF Visible, Ids
  <2>3. marks \in SUBSET Named /\ Load(sidecar) \subseteq marks
    BY <1>1, <2>2 DEF Typed, Load, Named
  <2>4. ASSUME op[w].clean PROVE <<op[w].made, "deleted">> \notin marks
    <3>1. CASE op[w].made = 0
      <4>1. <<op[w].made, "deleted">> \notin Named
        BY <3>1 DEF Named
      <4>. QED BY <2>3, <4>1
    <3>2. CASE op[w].made # 0
      <4>1. op[w].made = Len(history) /\ <<op[w].made, "deleted">> \notin Load(sidecar)
        BY <1>1, <2>4, <3>2 DEF Good, Recorded
      <4>2. op[w].made \notin hide
        BY <1>1, <4>1, Spared
      <4>. QED BY <4>1, <4>2
    <3>. QED BY <3>1, <3>2
  <2>. HIDE DEF marks
  <2>. QED BY <1>1, <2>1, <2>3, <2>4, StartKeeps DEF At
<1>. QED BY <1>3, <1>4

LEMMA OpenTmpKeeps ==
    ASSUME IInv, Bounds, NEW w \in Workers, OpenTmp(w)
    PROVE  IInv'
<1>. DEFINE new == [op[w] EXCEPT !.at = "fill", !.file = "tmp"]
<1>1. /\ op[w] \in Operations /\ Good(w) /\ Typed /\ OneUpdate
      /\ writes \in 0 .. MaxWrites /\ crashes \in 0 .. MaxCrashes /\ lock \in BOOLEAN
      /\ op \in [Workers -> Operations] /\ raced \in BOOLEAN
  BY Finding DEF Typed, IInv
<1>2. /\ UNCHANGED <<files, index, history, lock, writes, crashes, sidecar, raced>>
      /\ Quietly(w, new) /\ Grows /\ tmp' = Torn /\ At(w, "open")
  BY DEF OpenTmp, repository, Grows
<1>3. op'[w] = new /\ \A v \in Workers \ {w} : op'[v] = op[v]
  BY <1>1, <1>2 DEF Quietly
<1>4. /\ new \in Operations /\ new.at = "fill" /\ new.marks = op[w].marks /\ new.file = "tmp"
      /\ new.made = op[w].made /\ new.clean = op[w].clean
  BY <1>1 DEF Operations, Steps
<1>5. new \in Operations' /\ Torn \notin SUBSET Named
  BY <1>1, <1>2, <1>4, Wider DEF Bounds, Distinct
<1>6. Named' = Named
  BY <1>2 DEF Named
<1>7. ASSUME op[w].clean, op[w].made # 0 PROVE Recorded(w)'
  <2>1. Recorded(w)
    BY <1>1, <1>7 DEF Good
  <2>. QED BY <1>2, <1>3, <1>4, <1>5, <1>6, <2>1 DEF Recorded, Load
<1>8. Good(w)'
  BY <1>3, <1>4, <1>7 DEF Good, At
<1>9. OneUpdate'
  <2>1. Updating(w)
    BY <1>2 DEF Updating, At
  <2>2. \A v \in Workers : Updating(v)' <=> Updating(v)
    BY <1>3, <1>4, <2>1 DEF Updating
  <2>3. ASSUME ~raced PROVE \A v \in Workers : Updating(v) => v = w
    BY <1>1, <2>1, <2>3 DEF OneUpdate
  <2>. QED BY <1>1, <1>2, <1>3, <1>4, <2>1, <2>2, <2>3 DEF OneUpdate, At, Load
<1>. QED BY <1>1, <1>2, <1>5, <1>8, <1>9, QuietStep DEF Bounds, Ranges

LEMMA FillTmpKeeps ==
    ASSUME IInv, Bounds, NEW w \in Workers, FillTmp(w)
    PROVE  IInv'
<1>. DEFINE new == [op[w] EXCEPT !.at = "replace"]
<1>1. /\ op[w] \in Operations /\ Good(w) /\ Typed /\ OneUpdate
      /\ op \in [Workers -> Operations]
      /\ Torn \notin SUBSET Named /\ Missing \notin SUBSET Named /\ op[w].marks \in SUBSET Named
  <2>1. /\ op[w] \in Operations /\ Good(w) /\ Typed /\ OneUpdate /\ op \in [Workers -> Operations]
    BY Finding DEF Typed, IInv
  <2>2. Named \subseteq Marks
    BY <2>1 DEF Typed, Named, Marks, Bounds
  <2>. QED BY <2>1, <2>2 DEF Operations, Bounds, Distinct
<1>2. /\ UNCHANGED <<files, index, history, lock, writes, crashes, raced>>
      /\ Disturbing(w, new) /\ At(w, "fill")
  BY DEF FillTmp, repository
<1>3. \/ op[w].file = "tmp" /\ tmp' \in {op[w].marks, Torn} /\ (tmp = Torn => tmp' = op[w].marks)
         /\ sidecar' = sidecar
      \/ op[w].file # "tmp" /\ sidecar' \in {sidecar, op[w].marks, Torn} /\ tmp' = tmp
  BY DEF FillTmp, Written
<1>4. /\ op'[w] = new /\ op' = [v \in Workers |-> op'[v]]
      /\ \A v \in Workers \ {w} : op'[v] = [op[v] EXCEPT !.clean = FALSE]
  BY <1>2 DEF Disturbing
<1>5. /\ new \in Operations /\ new.at = "replace" /\ new.marks = op[w].marks
      /\ new.made = op[w].made /\ new.clean = op[w].clean
  BY <1>1 DEF Operations, Steps
<1>6. Named' = Named
  BY <1>2 DEF Named
<1>7. ASSUME op[w].clean, op[w].made # 0 PROVE Recorded(w)'
  <2>1. Recorded(w)
    BY <1>1, <1>7 DEF Good
  <2>2. <<op[w].made, "deleted">> \notin Load(sidecar')
    BY <1>3, <2>1 DEF Recorded, Load
  <2>3. tmp' \in SUBSET Named => <<op[w].made, "deleted">> \notin tmp'
    BY <1>1, <1>3, <2>1 DEF Recorded
  <2>4. Load(sidecar)' = Load(sidecar')
    BY DEF Load
  <2>. QED BY <1>2, <1>4, <1>5, <1>6, <2>1, <2>2, <2>3, <2>4 DEF Recorded
<1>8. Good(w)'
  BY <1>4, <1>5, <1>7 DEF Good, At
<1>9. OneUpdate'
  <2>1. Updating(w)
    BY <1>2 DEF Updating, At
  <2>2. \A v \in Workers : (Updating(v)' <=> Updating(v)) /\ (v # w => op'[v].at = op[v].at)
    BY <1>1, <1>4, <1>5, <2>1 DEF Updating, Operations
  <2>3. ASSUME ~raced PROVE \A v \in Workers : Updating(v) => v = w
    BY <1>1, <2>1, <2>3 DEF OneUpdate
  <2>4. ASSUME ~raced PROVE tmp' = new.marks /\ sidecar' = sidecar /\ Load(sidecar) \subseteq new.marks
    BY <1>1, <1>2, <1>3, <1>5, <2>1, <2>4 DEF OneUpdate
  <2>. QED BY <1>2, <1>4, <1>5, <2>1, <2>2, <2>3, <2>4 DEF OneUpdate, At, Load
<1>10. sidecar' \in (SUBSET Named) \cup {Torn} /\ tmp' \in (SUBSET Named) \cup {Torn, Missing}
  BY <1>1, <1>3 DEF Typed
<1>11. files' \in Tree /\ index' \in Tree /\ Ranges'
  BY <1>1, <1>2 DEF Typed, Ranges
<1>. QED BY <1>2, <1>4, <1>5, <1>8, <1>9, <1>10, <1>11, DisturbStep

LEMMA Updated ==
    ASSUME NEW o \in Operations
    PROVE  /\ AfterUpdate(o) \in Operations /\ AfterUpdate(o).made = o.made
           /\ AfterUpdate(o).at \in {"idle", "apply"} /\ (o.made = 0 => AfterUpdate(o) = Idle)
           /\ o.made # 0 =>
                AfterUpdate(o).at = "apply" /\ AfterUpdate(o).clean = o.clean
                  /\ AfterUpdate(o).marks = {}
<1>1. CASE o.made = 0
  BY <1>1 DEF AfterUpdate, Idle, Operations, Steps
<1>2. CASE o.made # 0
  BY <1>2 DEF AfterUpdate, Operations, Steps
<1>. QED BY <1>1, <1>2

LEMMA ReplaceKeeps ==
    ASSUME IInv, Bounds, NEW w \in Workers, Replace(w)
    PROVE  IInv'
<1>. DEFINE new == AfterUpdate(op[w])
<1>1. /\ op[w] \in Operations /\ Good(w) /\ Typed /\ OneUpdate
      /\ op \in [Workers -> Operations]
  BY Finding DEF Typed, IInv
<1>2. /\ UNCHANGED <<files, index, history, lock, writes, crashes, raced>>
      /\ At(w, "replace") /\ tmp # Missing /\ sidecar' = tmp /\ tmp' = Missing
  BY DEF Replace, repository
<1>3. /\ op'[w] = new /\ op' = [v \in Workers |-> op'[v]]
      /\ \A v \in Workers \ {w} : op'[v] \in {[op[v] EXCEPT !.clean = FALSE], Moved(op[v])}
  BY DEF Replace
<1>4. /\ new \in Operations /\ new.made = op[w].made /\ new.at \in {"idle", "apply"}
      /\ new.made = 0 => new = Idle
      /\ new.made # 0 => new.at = "apply" /\ new.clean = op[w].clean /\ new.marks = {}
  BY <1>1, Updated
<1>5. Named' = Named /\ Missing \notin SUBSET Named
  <2>1. Named \subseteq Marks
    BY <1>1 DEF Typed, Named, Marks, Bounds
  <2>. QED BY <1>2, <2>1 DEF Named, Bounds, Distinct
<1>6. ASSUME op[w].clean, op[w].made # 0 PROVE Recorded(w)'
  <2>1. Recorded(w)
    BY <1>1, <1>6 DEF Good
  <2>2. <<op[w].made, "deleted">> \notin Load(tmp)
    BY <1>1, <1>2, <2>1 DEF Recorded, Load, Typed
  <2>3. Load(sidecar)' = Load(tmp)
    BY <1>2 DEF Load
  <2>4. /\ op'[w].made = op[w].made /\ op'[w].marks = {} /\ tmp' \notin SUBSET Named
        /\ <<op'[w].made, "deleted">> \notin Load(sidecar)'
    BY <1>2, <1>3, <1>4, <1>5, <1>6, <2>2, <2>3
  <2>. QED BY <1>2, <1>5, <2>1, <2>4 DEF Recorded
<1>7. Good(w)'
  <2>1. CASE op[w].made = 0
    BY <1>3, <1>4, <2>1, Harmless, Finding
  <2>2. CASE op[w].made # 0
    BY <1>3, <1>4, <1>6, <2>2 DEF Good, At
  <2>. QED BY <2>1, <2>2
<1>8. OneUpdate'
  <2>1. Updating(w)
    BY <1>2 DEF Updating, At
  <2>2. \A v \in Workers \ {w} : op'[v].at = op[v].at
    <3>. SUFFICES ASSUME NEW v \in Workers \ {w} PROVE op'[v].at = op[v].at
      OBVIOUS
    <3>1. op[v] \in Operations /\ op'[v] \in {[op[v] EXCEPT !.clean = FALSE], Moved(op[v])}
      BY <1>1, <1>3
    <3>. QED BY <3>1 DEF Operations, Moved
  <2>3. ASSUME ~raced PROVE \A v \in Workers : ~Updating(v)'
    <3>1. ~Updating(w)'
      BY <1>3, <1>4 DEF Updating
    <3>2. \A v \in Workers : Updating(v) => v = w
      BY <1>1, <2>1, <2>3 DEF OneUpdate
    <3>. QED BY <2>2, <3>1, <3>2 DEF Updating
  <2>. QED BY <1>2, <2>3 DEF OneUpdate
<1>9. sidecar' \in (SUBSET Named) \cup {Torn} /\ tmp' \in (SUBSET Named) \cup {Torn, Missing}
  BY <1>1, <1>2 DEF Typed
<1>10. files' \in Tree /\ index' \in Tree /\ Ranges'
  BY <1>1, <1>2 DEF Typed, Ranges
<1>. QED BY <1>2, <1>3, <1>4, <1>7, <1>8, <1>9, <1>10, DisturbStep

LEMMA ReplaceFailsKeeps ==
    ASSUME IInv, Bounds, NEW w \in Workers, ReplaceFails(w)
    PROVE  IInv'
<1>. DEFINE new == AfterUpdate(op[w])
<1>1. /\ op[w] \in Operations /\ Good(w) /\ Typed
      /\ writes \in 0 .. MaxWrites /\ crashes \in 0 .. MaxCrashes /\ lock \in BOOLEAN
  BY Finding
<1>2. /\ Quietly(w, new) /\ UNCHANGED <<files, index, metadata>> /\ lock' = lock /\ Grows
      /\ writes' = writes /\ crashes' = crashes /\ history' = history
  BY DEF ReplaceFails, repository, Grows
<1>3. /\ new \in Operations /\ new.made = op[w].made /\ new.at \in {"idle", "apply"}
      /\ new.made = 0 => new = Idle
      /\ new.made # 0 => new.at = "apply" /\ new.clean = op[w].clean /\ new.marks = {}
  BY <1>1, Updated
<1>4. op'[w] = new /\ new \in Operations'
  BY <1>1, <1>2, <1>3, Finding, Wider DEF Bounds
<1>5. ASSUME op[w].clean, op[w].made # 0 PROVE Recorded(w)'
  <2>1. Recorded(w)
    BY <1>1, <1>5 DEF Good
  <2>2. op'[w].made = op[w].made /\ op'[w].marks = {}
    BY <1>3, <1>4, <1>5
  <2>3. Load(sidecar)' = Load(sidecar) /\ tmp' = tmp /\ Named' = Named
    BY <1>2 DEF metadata, Load, Named
  <2>. QED BY <1>2, <2>1, <2>2, <2>3 DEF Recorded
<1>6. Good(w)'
  <2>1. CASE op[w].made = 0
    BY <1>3, <1>4, <2>1, Harmless
  <2>2. CASE op[w].made # 0
    BY <1>3, <1>4, <1>5, <2>2 DEF Good, At
  <2>. QED BY <2>1, <2>2
<1>. HIDE DEF new
<1>. QED BY <1>1, <1>2, <1>3, <1>4, <1>6, QuietAway DEF Bounds

-----------------------------------------------------------------------------
(* Restores, approved writes, everybody else.                                *)

LEMMA PreviewKeeps ==
    ASSUME IInv, Bounds, NEW w \in Workers, NEW c \in Ids, Preview(w, c)
    PROVE  IInv'
<1>. DEFINE new == [Idle EXCEPT !.at = "checkout", !.id = c, !.removed = AddedSince(c)]
<1>1. /\ Len(history) \in Nat /\ DOMAIN history = 1 .. Len(history) /\ Typed
      /\ writes \in 0 .. MaxWrites /\ crashes \in 0 .. MaxCrashes /\ lock \in BOOLEAN
      /\ Idle \in Operations
  BY Finding, LenProperties
<1>2. /\ Quietly(w, new) /\ UNCHANGED <<files, index, metadata>> /\ lock' = lock /\ Grows
      /\ writes' = writes /\ crashes' = crashes /\ history' = history
  BY DEF Preview, repository, Grows
<1>3. /\ c \in 0 .. Len(history) /\ c \in 1 .. Len(history)
      /\ AddedSince(c) \in SUBSET Paths
  BY <1>1 DEF Ids, AddedSince, Present
<1>4. /\ new \in Operations /\ new.at = "checkout" /\ new.id = c /\ new.made = 0
      /\ new.removed = AddedSince(c)
  BY <1>1, <1>3 DEF Operations, Idle, Steps
<1>5. op'[w] = new /\ new \in Operations'
  BY <1>1, <1>2, <1>4, Finding, Wider DEF Bounds
<1>6. Doomed(w)'
  BY <1>2, <1>4, <1>5 DEF Doomed, AddedSince, Present
<1>7. Good(w)'
  BY <1>2, <1>3, <1>4, <1>5, <1>6 DEF Good, At
<1>. HIDE DEF new
<1>. QED BY <1>1, <1>2, <1>4, <1>5, <1>7, QuietAway DEF Bounds

LEMMA OverlayShape ==
    ASSUME NEW t \in Tree, NEW u \in Tree, NEW S \in SUBSET Paths
    PROVE  /\ Overlay(t, S, u) \in Tree
           /\ \A p \in S : Overlay(t, S, u)[p] = t[p]
           /\ Present(Overlay(t, S, u)) \subseteq S \cup Present(u)
BY DEF Overlay, Tree, Present

\* What git checks out is what the checkpoint holds, and only that is added.
LEMMA CheckoutKeeps ==
    ASSUME IInv, Bounds, NEW w \in Workers, Checkout(w)
    PROVE  IInv'
<1>. DEFINE new == [op[w] EXCEPT !.at = "unlink"]
            tree == history[op[w].id]
<1>1. /\ op[w] \in Operations /\ Good(w) /\ history \in Seq(Tree)
      /\ writes \in 0 .. MaxWrites /\ files \in Tree /\ index \in Tree
  BY Finding
<1>2. /\ Disturbing(w, new) /\ UNCHANGED <<history, lock, crashes, metadata>> /\ At(w, "checkout")
      /\ writes' = writes
      /\ files' = Overlay(tree, Present(tree), files) /\ index' = Overlay(tree, Present(tree), index)
  BY DEF Checkout

<1>3. op[w].id \in 1 .. Len(history) /\ (op[w].clean => Doomed(w)) /\ op[w].made = 0
  BY <1>1, <1>2 DEF Good, At
<1>4. tree \in Tree /\ Present(tree) \in SUBSET Paths
  BY <1>1, <1>3, ElementOfSeq DEF Present
<1>. HIDE DEF tree
<1>5. /\ files' \in Tree /\ index' \in Tree
      /\ \A p \in Present(tree) : files'[p] = tree[p]
      /\ Present(files') \subseteq Present(tree) \cup Present(files)
  BY <1>1, <1>2, <1>4, OverlayShape
<1>6. /\ new \in Operations /\ new.at = "unlink" /\ new.id = op[w].id /\ new.made = 0
      /\ new.removed = op[w].removed /\ new.clean = op[w].clean
  BY <1>1, <1>3 DEF Operations, Steps
<1>7. op'[w] = new
  BY <1>2, Finding
<1>8. history' = history /\ history[op[w].id] = tree
  BY <1>2 DEF tree
<1>9. op[w].clean => Doomed(w)' /\ CheckedOut(w)'
  <2>1. Present(files)' = Present(files')
    BY DEF Present
  <2>2. op'[w].id = op[w].id /\ op'[w].removed = op[w].removed
    BY <1>6, <1>7
  <2>3. history'[op'[w].id] = tree
    BY <1>8, <2>2
  <2>4. op[w].clean => CheckedOut(w)'
    BY <1>5, <2>3 DEF CheckedOut, Present
  <2>5. op[w].clean => Doomed(w)'
    BY <1>3, <1>5, <1>8, <2>2, <2>3 DEF Doomed, Present
  <2>. QED BY <2>4, <2>5
<1>10. Good(w)'
  BY <1>3, <1>6, <1>7, <1>8, <1>9 DEF Good, At
<1>. HIDE DEF new
<1>. QED BY <1>1, <1>2, <1>5, <1>6, <1>10, DisturbAway

LEMMA CheckoutRefusedKeeps ==
    ASSUME IInv, Bounds, NEW w \in Workers, CheckoutRefused(w)
    PROVE  IInv'
<1>1. Quietly(w, Idle) /\ UNCHANGED <<repository, metadata>>
  BY DEF CheckoutRefused, Done
<1>2. Grows /\ UNCHANGED <<files, index, metadata>> /\ lock' = lock /\ writes' = writes /\ crashes' = crashes
  BY <1>1 DEF Grows, repository
<1>3. op'[w] = Idle /\ Idle \in Operations /\ Idle.at = "idle" /\ Idle.made = 0
  BY <1>1, Finding
<1>4. Idle \in Operations'
  BY <1>2, <1>3, Wider DEF Bounds, IInv
<1>. QED BY <1>1, <1>2, <1>3, <1>4, Harmless, Finding, QuietAway DEF Bounds

LEMMA CheckoutFailsKeeps ==
    ASSUME IInv, Bounds, NEW w \in Workers, CheckoutFails(w)
    PROVE  IInv'
<1>. DEFINE tree == history[op[w].id]
<1>1. /\ op[w] \in Operations /\ Good(w) /\ history \in Seq(Tree)
      /\ writes \in 0 .. MaxWrites /\ files \in Tree /\ index \in Tree
  BY Finding
<1>2. /\ Disturbing(w, Idle) /\ UNCHANGED <<index, history, lock, crashes, metadata>>
      /\ At(w, "checkout") /\ writes' = writes
  BY DEF CheckoutFails
<1>3. PICK some \in SUBSET Present(tree) : files' = Overlay(tree, some, files)
  BY DEF CheckoutFails
<1>4. tree \in Tree /\ some \in SUBSET Paths
  BY <1>1, <1>2, <1>3, ElementOfSeq DEF Present, Good, At
<1>5. files' \in Tree
  BY <1>1, <1>3, <1>4, OverlayShape
<1>6. op'[w] = Idle /\ Idle \in Operations /\ Idle.at = "idle" /\ Idle.made = 0
  BY <1>2, Finding
<1>. QED BY <1>1, <1>2, <1>5, <1>6, Harmless, DisturbAway

LEMMA RestoreDoneKeeps ==
    ASSUME IInv, Bounds, NEW w \in Workers, RestoreDone(w)
    PROVE  IInv'
<1>1. Quietly(w, Idle) /\ UNCHANGED <<repository, metadata>>
  BY DEF RestoreDone, Done
<1>2. Grows /\ UNCHANGED <<files, index, metadata>> /\ lock' = lock /\ writes' = writes /\ crashes' = crashes
  BY <1>1 DEF Grows, repository
<1>3. op'[w] = Idle /\ Idle \in Operations /\ Idle.at = "idle" /\ Idle.made = 0
  BY <1>1, Finding
<1>4. Idle \in Operations'
  BY <1>2, <1>3, Wider DEF Bounds, IInv
<1>. QED BY <1>1, <1>2, <1>3, <1>4, Harmless, Finding, QuietAway DEF Bounds

LEMMA CrashKeeps ==
    ASSUME IInv, Bounds, NEW w \in Workers, Crash(w)
    PROVE  IInv'
<1>1. /\ Quietly(w, Idle) /\ UNCHANGED <<files, index, history, writes, metadata>>
      /\ crashes < MaxCrashes /\ crashes' = crashes + 1 /\ lock' \in {lock, TRUE}
  BY DEF Crash, Done
<1>2. Grows /\ UNCHANGED <<files, index, metadata>> /\ writes' = writes
  BY <1>1 DEF Grows
<1>3. op'[w] = Idle /\ Idle \in Operations /\ Idle.at = "idle" /\ Idle.made = 0
  BY <1>1, Finding
<1>4. Idle \in Operations'
  BY <1>2, <1>3, Wider DEF Bounds, IInv
<1>5. lock' \in BOOLEAN /\ crashes' \in 0 .. MaxCrashes /\ writes' \in 0 .. MaxWrites
  <2>1. crashes \in 0 .. MaxCrashes /\ lock \in BOOLEAN /\ writes \in 0 .. MaxWrites
    BY Finding
  <2>2. crashes' \in 0 .. MaxCrashes /\ writes' \in 0 .. MaxWrites
    BY <1>1, <2>1 DEF Bounds
  <2>3. lock' \in BOOLEAN
    BY <1>1, <2>1
  <2>. QED BY <2>2, <2>3
<1>. QED BY <1>1, <1>2, <1>3, <1>4, <1>5, Harmless, QuietAway DEF Bounds

\* Taking a file away that the checkpoint does not have leaves what is still to be
\* taken away.
LEMMA UnlinkKeeps ==
    ASSUME IInv, Bounds, NEW w \in Workers, Unlink(w)
    PROVE  IInv'
<1>1. /\ op[w] \in Operations /\ Good(w) /\ history \in Seq(Tree) /\ Typed
      /\ writes \in 0 .. MaxWrites /\ crashes \in 0 .. MaxCrashes /\ lock \in BOOLEAN
      /\ files \in Tree /\ index \in Tree
  BY Finding
<1>2. /\ At(w, "unlink") /\ UNCHANGED <<index, history, lock, writes, crashes, metadata>>
  BY DEF Unlink
<1>3. PICK p \in op[w].removed :
         \/ /\ files' = [files EXCEPT ![p] = Absent]
            /\ Disturbing(w, [op[w] EXCEPT !.removed = @ \ {p}])
         \/ /\ UNCHANGED files
            /\ Quietly(w, [op[w] EXCEPT !.removed = @ \ {p}, !.clean = FALSE])
  BY DEF Unlink
<1>4. op[w].id \in 1 .. Len(history) /\ op[w].made = 0
      /\ (op[w].clean => Doomed(w) /\ CheckedOut(w)) /\ p \in Paths
  BY <1>1, <1>2 DEF Good, At, Operations
<1>5. CASE files' = [files EXCEPT ![p] = Absent]
             /\ Disturbing(w, [op[w] EXCEPT !.removed = @ \ {p}])
  <2>. DEFINE new == [op[w] EXCEPT !.removed = @ \ {p}]
  <2>1. op'[w] = new /\ Disturbing(w, new)
    BY <1>5, Finding
  <2>2. /\ new \in Operations /\ new.at = "unlink" /\ new.id = op[w].id /\ new.made = 0
        /\ new.clean = op[w].clean /\ new.removed = op[w].removed \ {p}
    BY <1>1, <1>2, <1>4 DEF Operations, At
  <2>. HIDE DEF new
  <2>3. files' \in Tree /\ \A q \in Paths : files'[q] = IF q = p THEN Absent ELSE files[q]
    BY <1>1, <1>4, <1>5 DEF Tree
  <2>4. history' = history /\ history'[op'[w].id] = history[op[w].id]
    BY <1>2, <2>1, <2>2
  <2>5. op[w].clean => Doomed(w)'
    BY <1>4, <2>1, <2>2, <2>3, <2>4 DEF Doomed, Present
  <2>6. op[w].clean => CheckedOut(w)'
    BY <1>4, <2>1, <2>2, <2>3, <2>4 DEF Doomed, CheckedOut, Present
  <2>7. Good(w)'
    BY <1>4, <2>1, <2>2, <2>4, <2>5, <2>6 DEF Good, At
  <2>. QED BY <1>1, <1>2, <2>1, <2>2, <2>3, <2>7, DisturbAway
<1>6. CASE UNCHANGED files /\ Quietly(w, [op[w] EXCEPT !.removed = @ \ {p}, !.clean = FALSE])
  <2>. DEFINE new == [op[w] EXCEPT !.removed = @ \ {p}, !.clean = FALSE]
  <2>1. Quietly(w, new) /\ Grows /\ op'[w] = new
    BY <1>2, <1>6, Finding DEF Grows
  <2>2. /\ new \in Operations /\ new.at = "unlink" /\ new.id = op[w].id /\ new.made = 0
        /\ ~new.clean
    BY <1>1, <1>2, <1>4 DEF Operations, At
  <2>. HIDE DEF new
  <2>3. new \in Operations'
    BY <1>1, <2>1, <2>2, Wider DEF Bounds
  <2>4. Good(w)'
    BY <1>2, <1>4, <2>1, <2>2 DEF Good, At
  <2>. QED BY <1>1, <1>2, <1>6, <2>1, <2>2, <2>3, <2>4, QuietAway DEF Bounds
<1>. QED BY <1>3, <1>5, <1>6

LEMMA ApplyKeeps ==
    ASSUME IInv, Bounds, NEW w \in Workers, Apply(w)
    PROVE  IInv'
<1>1. /\ Disturbing(w, Idle) /\ UNCHANGED <<index, history, lock, crashes, metadata>>
      /\ \/ UNCHANGED <<files, writes>>
         \/ /\ writes < MaxWrites /\ writes' = writes + 1
            /\ \E p \in Paths, t \in Texts \cup {Absent} : files' = [files EXCEPT ![p] = t]
  BY DEF Apply
<1>2. files \in Tree /\ index \in Tree /\ writes \in 0 .. MaxWrites
  BY Finding
<1>3. files' \in Tree
  BY <1>1, <1>2 DEF Tree
<1>4. writes' \in 0 .. MaxWrites
  BY <1>1, <1>2 DEF Bounds
<1>5. op'[w] = Idle /\ Idle \in Operations /\ Idle.at = "idle" /\ Idle.made = 0
  BY <1>1, Finding
<1>. QED BY <1>1, <1>2, <1>3, <1>4, <1>5, Harmless, DisturbAway

LEMMA OthersWriteKeeps ==
    ASSUME IInv, Bounds, OthersWrite
    PROVE  IInv'
<1>1. /\ UNCHANGED <<index, history, lock, crashes, metadata>>
      /\ writes < MaxWrites /\ writes' = writes + 1
      /\ \E p \in Paths, t \in Texts \cup {Absent} : files' = [files EXCEPT ![p] = t]
      /\ op' = [v \in Workers |-> [op[v] EXCEPT !.clean = FALSE]]
  BY DEF OthersWrite
<1>2. Typed /\ OneUpdate /\ op \in [Workers -> Operations] /\ Named' = Named /\ Operations' = Operations
  BY <1>1 DEF IInv, Typed, Named, Operations
<1>3. \A v \in Workers : op'[v] = [op[v] EXCEPT !.clean = FALSE]
  BY <1>1
<1>4. \A v \in Workers : Good(v)' /\ op'[v] \in Operations
  <2>1. \A v \in Workers : Good(v)' /\ op'[v] \in Operations'
    BY <1>1, <1>3, Disturbed
  <2>. QED BY <1>2, <2>1
<1>5. \A v \in Workers :
        op'[v].at = op[v].at /\ op'[v].marks = op[v].marks /\ op'[v].file = op[v].file
  <2>. TAKE v \in Workers
  <2>1. op[v] \in Operations /\ op'[v] = [op[v] EXCEPT !.clean = FALSE]
    BY <1>2, <1>3
  <2>. QED BY <2>1 DEF Operations
<1>6. OneUpdate'
  BY <1>1, <1>2, <1>5, SameUpdates
<1>7. files' \in Tree
  BY <1>1, <1>2 DEF Typed, Tree
<1>8. writes' \in 0 .. MaxWrites
  BY <1>1, <1>2 DEF Typed, Bounds
<1>9. op' \in [Workers -> Operations]
  BY <1>1, <1>4
<1>10. Typed'
  BY <1>1, <1>2, <1>7, <1>8, <1>9 DEF Typed, metadata
<1>. QED BY <1>4, <1>6, <1>10 DEF IInv

LEMMA DeleteLockKeeps ==
    ASSUME IInv, DeleteLock
    PROVE  IInv'
<1>1. UNCHANGED <<files, index, history, op, writes, crashes, sidecar, tmp, raced>> /\ lock' = FALSE
  BY DEF DeleteLock, metadata
<1>2. Typed'
  BY <1>1 DEF IInv, Typed, Named, Operations
<1>3. ASSUME NEW w \in Workers PROVE Good(w)'
  <2>1. Good(w)
    BY DEF IInv
  <2>2. Recorded(w)' = Recorded(w) /\ Doomed(w)' = Doomed(w) /\ CheckedOut(w)' = CheckedOut(w)
    BY <1>1 DEF Recorded, Doomed, CheckedOut, Load, Named, Present
  <2>. QED BY <1>1, <2>1, <2>2 DEF Good, At
<1>4. OneUpdate'
  BY <1>1 DEF IInv, OneUpdate, Updating, At, Load
<1>. QED BY <1>2, <1>3, <1>4 DEF IInv

LEMMA StutterKeeps ==
    ASSUME IInv, UNCHANGED vars
    PROVE  IInv'
<1>1. UNCHANGED <<files, index, history, op, writes, crashes, sidecar, tmp, raced, lock>>
  BY DEF vars
<1>2. Typed'
  BY <1>1 DEF IInv, Typed, Named, Operations
<1>3. ASSUME NEW w \in Workers PROVE Good(w)'
  <2>1. Good(w)
    BY DEF IInv
  <2>2. Recorded(w)' = Recorded(w) /\ Doomed(w)' = Doomed(w) /\ CheckedOut(w)' = CheckedOut(w)
    BY <1>1 DEF Recorded, Doomed, CheckedOut, Load, Named, Present
  <2>. QED BY <1>1, <2>1, <2>2 DEF Good, At
<1>4. OneUpdate'
  BY <1>1 DEF IInv, OneUpdate, Updating, At, Load
<1>. QED BY <1>2, <1>3, <1>4 DEF IInv

LEMMA InitHolds ==
    ASSUME Init, Bounds
    PROVE  IInv
<1>1. /\ files \in Tree /\ index = Empty /\ history = <<>> /\ sidecar = {} /\ tmp = Missing
      /\ lock = FALSE /\ op = [w \in Workers |-> Idle] /\ writes = 0 /\ crashes = 0 /\ raced = FALSE
  BY DEF Init
<1>2. Empty \in Tree /\ history \in Seq(Tree) /\ Len(history) = 0
  BY <1>1, EmptySeq DEF Empty, Tree
<1>3. Idle \in Operations
  BY <1>2 DEF Operations, Idle, Steps
<1>4. Typed
  <2>1. 0 \in 0 .. MaxWrites /\ 0 \in 0 .. MaxCrashes /\ 0 <= MaxCommits
    BY DEF Bounds
  <2>2. op \in [Workers -> Operations]
    BY <1>1, <1>3
  <2>. QED BY <1>1, <1>2, <2>1, <2>2 DEF Typed
<1>5. \A w \in Workers : op[w].at = "idle" /\ op[w].made = 0
  BY <1>1 DEF Idle
<1>6. \A w \in Workers : Good(w)
  BY <1>5 DEF Good, At
<1>7. OneUpdate
  BY <1>5 DEF OneUpdate, Updating
<1>. QED BY <1>4, <1>6, <1>7 DEF IInv

-----------------------------------------------------------------------------
(* The theorems.                                                             *)

LEMMA NextKeeps ==
    ASSUME IInv, Bounds, MaxCount \in Nat \ {0}, [Next]_vars
    PROVE  IInv'
<1>1. CASE UNCHANGED vars
  BY <1>1, StutterKeeps
<1>2. CASE OthersWrite \/ DeleteLock
  BY <1>2, OthersWriteKeeps, DeleteLockKeeps
<1>3. ASSUME NEW w \in Workers,
             \/ Stage(w) \/ StageFails(w) \/ Commit(w) \/ CommitFails(w) \/ Retain(w)
             \/ \E c \in Ids : Delete(w, c) \/ Rename(w, c) \/ Preview(w, c)
             \/ OpenTmp(w) \/ FillTmp(w) \/ Replace(w) \/ ReplaceFails(w)
             \/ Checkout(w) \/ CheckoutRefused(w) \/ CheckoutFails(w)
             \/ Unlink(w) \/ RestoreDone(w) \/ Apply(w) \/ Crash(w)
      PROVE  IInv'
  <2>1. CASE Stage(w) \/ StageFails(w) \/ Commit(w) \/ CommitFails(w) \/ Retain(w)
    BY <2>1, StageKeeps, StageFailsKeeps, CommitKeeps, CommitFailsKeeps, RetainKeeps
  <2>2. CASE \E c \in Ids : Delete(w, c) \/ Rename(w, c) \/ Preview(w, c)
    BY <2>2, DeleteKeeps, RenameKeeps, PreviewKeeps
  <2>3. CASE OpenTmp(w) \/ FillTmp(w) \/ Replace(w) \/ ReplaceFails(w)
    BY <2>3, OpenTmpKeeps, FillTmpKeeps, ReplaceKeeps, ReplaceFailsKeeps
  <2>4. CASE Checkout(w) \/ CheckoutRefused(w) \/ CheckoutFails(w)
    BY <2>4, CheckoutKeeps, CheckoutRefusedKeeps, CheckoutFailsKeeps
  <2>5. CASE Unlink(w) \/ RestoreDone(w) \/ Apply(w) \/ Crash(w)
    BY <2>5, UnlinkKeeps, RestoreDoneKeeps, ApplyKeeps, CrashKeeps
  <2>. QED BY <1>3, <2>1, <2>2, <2>3, <2>4, <2>5
<1>. QED BY <1>1, <1>2, <1>3 DEF Next

\* The inductive invariant: what workers that nobody has disturbed rely on, and
\* one update of the sidecar at a time until two have overlapped.
THEOREM Inductive ==
    ASSUME Bounds, MaxCount \in Nat \ {0}
    PROVE  Spec => []IInv
<1>1. Init => IInv
  BY InitHolds
<1>2. IInv /\ [Next]_vars => IInv'
  BY NextKeeps
<1>. QED BY <1>1, <1>2, PTL DEF Spec

LEMMA Listed == ASSUME IInv PROVE UndoIsReady
<1>. SUFFICES ASSUME NEW w \in Workers, At(w, "apply"), op[w].clean, op[w].made # 0
              PROVE  op[w].made \in Visible /\ history[op[w].made] = files
  BY DEF UndoIsReady
<1>1. Recorded(w) /\ op[w] \in Operations /\ Typed
  BY Finding DEF Good
<1>2. Len(history) \in Nat /\ DOMAIN history = 1 .. Len(history)
  BY <1>1, Finding, LenProperties
<1>3. op[w].made \in Ids
  BY <1>1, <1>2 DEF Ids, Recorded, Operations
<1>. QED BY <1>1, <1>3 DEF Recorded, Visible, Hidden

\* When the approved batch is about to be written, the checkpoint made for it
\* (create in checkpoints.py) is listed and holds the workspace as it is.
THEOREM UndoReady ==
    ASSUME Bounds, MaxCount \in Nat \ {0}
    PROVE  Spec => []UndoIsReady
<1>1. IInv => UndoIsReady
  BY Listed
<1>. QED BY <1>1, Inductive, PTL

\* What the steps of the others do to a worker: they disturb it, no more.
Step(v) ==
    \/ Stage(v) \/ StageFails(v) \/ Commit(v) \/ CommitFails(v) \/ Retain(v)
    \/ \E c \in Ids : Delete(v, c) \/ Rename(v, c) \/ Preview(v, c)
    \/ OpenTmp(v) \/ FillTmp(v) \/ Replace(v) \/ ReplaceFails(v)
    \/ Checkout(v) \/ CheckoutRefused(v) \/ CheckoutFails(v)
    \/ Unlink(v) \/ RestoreDone(v) \/ Apply(v) \/ Crash(v)

LEMMA Bystander ==
    ASSUME IInv, NEW v \in Workers, NEW w \in Workers \ {v}, Step(v)
    PROVE  op'[w].at = op[w].at
<1>1. op[w] \in Operations /\ op \in [Workers -> Operations]
  BY DEF IInv, Typed
<1>2. /\ \A new : Quietly(v, new) => op'[w] = op[w]
      /\ \A new : Disturbing(v, new) => op'[w] = [op[w] EXCEPT !.clean = FALSE]
  BY <1>1 DEF Quietly, Disturbing
<1>3. op'[w] \in {op[w], [op[w] EXCEPT !.clean = FALSE], Moved(op[w])}
  <2>1. CASE Stage(v) \/ FillTmp(v) \/ Checkout(v) \/ CheckoutFails(v) \/ Unlink(v) \/ Apply(v)
    BY <1>2, <2>1 DEF Stage, FillTmp, Checkout, CheckoutFails, Unlink, Apply
  <2>2. CASE Replace(v)
    BY <2>2 DEF Replace
  <2>3. CASE Commit(v) \/ CommitFails(v) \/ StageFails(v) \/ OpenTmp(v) \/ ReplaceFails(v)
    BY <1>2, <2>3 DEF Commit, CommitFails, StageFails, OpenTmp, ReplaceFails
  <2>4. CASE Retain(v)
    BY <1>2, <2>4 DEF Retain, StartUpdate
  <2>5. CASE \E c \in Ids : Delete(v, c) \/ Rename(v, c) \/ Preview(v, c)
    BY <1>2, <2>5 DEF Delete, Rename, Preview, StartUpdate
  <2>6. CASE CheckoutRefused(v) \/ RestoreDone(v) \/ Crash(v)
    BY <1>2, <2>6 DEF CheckoutRefused, RestoreDone, Crash, Done
  <2>. QED BY <2>1, <2>2, <2>3, <2>4, <2>5, <2>6 DEF Step
<1>. QED BY <1>1, <1>3 DEF Operations, Moved

\* A restore that nobody interferes with ends with exactly the checkpoint's files.
LEMMA ExactStep ==
    ASSUME IInv, Next, NEW w \in Workers, At(w, "unlink"), op'[w].at = "idle",
           crashes' = crashes, op[w].clean
    PROVE  files' = history[op[w].id]
<1>1. /\ op[w] \in Operations /\ Good(w) /\ history \in Seq(Tree) /\ files \in Tree
      /\ op \in [Workers -> Operations] /\ op[w].at = "unlink" /\ crashes \in Nat
  BY Finding DEF At, IInv, Typed
<1>2. ~OthersWrite /\ ~DeleteLock
  <2>1. ASSUME OthersWrite PROVE FALSE
    <3>1. op'[w] = [op[w] EXCEPT !.clean = FALSE]
      BY <2>1 DEF OthersWrite
    <3>. QED BY <1>1, <3>1 DEF Operations
  <2>2. ASSUME DeleteLock PROVE FALSE
    <3>1. op' = op
      BY <2>2 DEF DeleteLock
    <3>. QED BY <1>1, <3>1
  <2>. QED BY <2>1, <2>2
<1>3. PICK v \in Workers : Step(v)
  BY <1>2 DEF Next, Step
<1>4. v = w
  BY <1>1, <1>3, Bystander
<1>5. RestoreDone(w)
  <2>1. ~Unlink(w)
    <3>1. ASSUME Unlink(w) PROVE op'[w].at = op[w].at
      <4>1. PICK S : \/ op'[w] = [op[w] EXCEPT !.removed = S]
                     \/ op'[w] = [op[w] EXCEPT !.removed = S, !.clean = FALSE]
        BY <1>1, <3>1 DEF Unlink, Disturbing, Quietly
      <4>. QED BY <1>1, <4>1 DEF Operations
    <3>. QED BY <1>1, <3>1
  <2>2. ~Crash(w)
    <3>1. ASSUME Crash(w) PROVE crashes' = crashes + 1
      BY <3>1 DEF Crash
    <3>2. crashes # crashes + 1
      BY <1>1
    <3>. QED BY <3>1, <3>2
  <2>. QED BY <1>1, <1>3, <1>4, <2>1, <2>2
       DEF Step, At, Stage, StageFails, Commit, CommitFails, Retain, Delete, Rename, Preview,
           OpenTmp, FillTmp, Replace, ReplaceFails, Checkout, CheckoutRefused, CheckoutFails,
           RestoreDone, Apply
<1>6. files' = files /\ op[w].removed = {}
  BY <1>5 DEF RestoreDone, repository
<1>. DEFINE tree == history[op[w].id]
<1>7. tree \in Tree
  BY <1>1, ElementOfSeq DEF Good
<1>8. \A p \in Paths : files[p] = tree[p]
  BY <1>1, <1>6 DEF Good, Doomed, CheckedOut, Present
<1>. QED BY <1>1, <1>6, <1>7, <1>8 DEF Tree

\* A restore that nobody interferes with leaves exactly the checkpoint's files
\* (restore in checkpoints.py).
THEOREM Exact ==
    ASSUME Bounds, MaxCount \in Nat \ {0}
    PROVE  Spec => RestoreIsExact
<1>1. IInv /\ [Next]_vars =>
        [\A w \in Workers :
            At(w, "unlink") /\ op'[w].at = "idle" /\ crashes' = crashes /\ op[w].clean
              => files' = history[op[w].id]]_vars
  BY ExactStep
<1>. QED BY <1>1, Inductive, PTL DEF RestoreIsExact, Spec

\* Updates that do not overlap keep the marks.
LEMMA MarkedStep ==
    ASSUME IInv, Bounds, Next, ~raced'
    PROVE  Load(sidecar) \subseteq Load(sidecar')
<1>1. CASE \E v \in Workers : Replace(v) \/ FillTmp(v)
  <2>1. PICK v \in Workers : Replace(v) \/ FillTmp(v)
    BY <1>1
  <2>2. /\ op[v] \in Operations /\ Typed /\ Updating(v) /\ ~raced
        /\ Torn \notin SUBSET Marks /\ Named \subseteq Marks
    <3>1. op[v] \in Operations /\ Typed
      BY Finding
    <3>2. Updating(v) /\ ~raced
      BY <2>1 DEF Replace, FillTmp, Updating, At
    <3>3. Torn \notin SUBSET Marks /\ Named \subseteq Marks
      BY <3>1 DEF Typed, Named, Marks, Bounds, Distinct
    <3>. QED BY <3>1, <3>2, <3>3
  <2>3. CASE Replace(v)
    <3>1. sidecar' = op[v].marks /\ Load(sidecar) \subseteq op[v].marks
      BY <2>2, <2>3 DEF Replace, IInv, OneUpdate
    <3>2. op[v].marks # Torn
      BY <2>2 DEF Operations
    <3>. QED BY <3>1, <3>2 DEF Load
  <2>4. CASE FillTmp(v)
    BY <2>2, <2>4 DEF FillTmp, IInv, OneUpdate
  <2>. QED BY <2>1, <2>3, <2>4
<1>2. CASE ~\E v \in Workers : Replace(v) \/ FillTmp(v)
  <2>1. sidecar' = sidecar
    BY <1>2
    DEF Next, Stage, StageFails, Commit, CommitFails, Retain, Delete, Rename, Preview, OpenTmp,
        ReplaceFails, Checkout, CheckoutRefused, CheckoutFails, Unlink, RestoreDone, Apply, Crash,
        OthersWrite, DeleteLock, StartUpdate, metadata
  <2>. QED BY <2>1
<1>. QED BY <1>1, <1>2

\* A deletion mark or a label, once saved, stays across crashes at any step, as
\* long as updates of the sidecar do not overlap (_save_metadata in checkpoints.py).
THEOREM Marked ==
    ASSUME Bounds, MaxCount \in Nat \ {0}
    PROVE  Spec => MarksStay
<1>1. IInv /\ [Next]_vars => [~raced' => Load(sidecar) \subseteq Load(sidecar')]_vars
  BY MarkedStep
<1>. QED BY <1>1, Inductive, PTL DEF MarksStay, Spec

LEMMA Types == ASSUME Bounds, IInv PROVE TypeOK
<1>1. Typed /\ Named \subseteq Marks
  BY DEF IInv, Typed, Named, Marks, Bounds
<1>. HIDE DEF Named
<1>2. \A w \in Workers : op[w] \in Operations
  BY <1>1 DEF Typed
<1>3. sidecar \in (SUBSET Marks) \cup {Torn} /\ tmp \in (SUBSET Marks) \cup {Torn, Missing}
  BY <1>1 DEF Typed
<1>4. ASSUME NEW w \in Workers
      PROVE  /\ op[w].at \in Steps
             /\ op[w].id \in 0..Len(history) /\ op[w].made \in 0..Len(history)
             /\ op[w].removed \subseteq Paths /\ op[w].marks \subseteq Marks
             /\ op[w].file \in {"tmp", "sidecar", "gone"}
             /\ op[w].saved \in BOOLEAN /\ op[w].clean \in BOOLEAN
  BY <1>1, <1>2 DEF Operations
<1>. QED BY <1>1, <1>3, <1>4 DEF Typed, TypeOK

\* The state has its types: what is read from the repository, the sidecar and its
\* temporary file is one of the things they can hold.
THEOREM TypeCorrect ==
    ASSUME Bounds, MaxCount \in Nat \ {0}
    PROVE  Spec => []TypeOK
<1>1. IInv => TypeOK
  BY Types
<1>. QED BY <1>1, Inductive, PTL
=============================================================================
