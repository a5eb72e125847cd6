------------------------------ MODULE Checkpoints ------------------------------
(*****************************************************************************)
(* src/src/tools/checkpoints.py: snapshots of a workspace in a shadow git    *)
(* repository, with a JSON sidecar of labels and deletion marks.  Several    *)
(* threads or processes use one store at once (HTTP requests, a run that     *)
(* checkpoints before it writes, a second client).  A git command is one     *)
(* step; so is one write of the sidecar's temporary file, one rename, one    *)
(* unlink.  Paths are the files that no ignore rule matches.                 *)
(*****************************************************************************)
EXTENDS Naturals, Sequences, FiniteSets

CONSTANTS
    Workers,       \* threads with an operation on the store
    Paths,
    Texts,
    Absent,        \* what a path holds when there is no file
    Torn,          \* a sidecar that is no JSON, as a write leaves it half way
    Missing,       \* no temporary file
    MaxCount,      \* Settings.CHECKPOINT_MAX_COUNT, at least 1
    MaxCommits,    \* bound: commits ever made
    MaxWrites,     \* bound: writes to the workspace by others, and by approvals
    MaxCrashes     \* bound: crashes

VARIABLES
    files,     \* the workspace
    index,     \* the shadow repository's index
    history,   \* the trees of its commits, oldest first
    sidecar,   \* metadata.json: marks, or Torn
    tmp,       \* metadata.json.tmp: marks, Torn or Missing
    lock,      \* a stale index.lock
    op,        \* each worker's operation
    writes, crashes,
    raced      \* ghost: two updates of the sidecar have overlapped

vars == <<files, index, history, sidecar, tmp, lock, op, writes, crashes, raced>>

Tree == [Paths -> Texts \cup {Absent}]
Empty == [p \in Paths |-> Absent]
Ids == DOMAIN history
Present(tree) == {p \in Paths : tree[p] # Absent}
HeadTree == IF history = <<>> THEN Empty ELSE history[Len(history)]

\* The sidecar holds marks: a commit is renamed or deleted.
Marks == (1..MaxCommits) \X {"label", "deleted"}
Load(content) == IF content = Torn THEN {} ELSE content
Hidden == {c \in Ids : <<c, "deleted">> \in Load(sidecar)}
Visible == Ids \ Hidden

\* at: the next step; id, removed: the restore's checkpoint and its report;
\* marks: the update of the sidecar; file: what the name the update was written
\* under has become; made: the commit of a create, 0 for none; saved: create did
\* not fail; clean (ghost): nobody else has interfered.
Idle == [at |-> "idle", id |-> 0, removed |-> {}, marks |-> {}, file |-> "tmp",
         made |-> 0, saved |-> FALSE, clean |-> TRUE]

Steps == {"idle", "commit", "retain", "open", "fill", "replace", "apply",
          "checkout", "unlink"}

TypeOK ==
    /\ files \in Tree /\ index \in Tree
    /\ history \in Seq(Tree) /\ Len(history) <= MaxCommits
    /\ sidecar \in (SUBSET Marks) \cup {Torn}
    /\ tmp \in (SUBSET Marks) \cup {Torn, Missing}
    /\ lock \in BOOLEAN /\ raced \in BOOLEAN
    /\ writes \in 0..MaxWrites /\ crashes \in 0..MaxCrashes
    /\ \A w \in Workers :
         /\ op[w].at \in Steps
         /\ op[w].id \in 0..Len(history) /\ op[w].made \in 0..Len(history)
         /\ op[w].removed \subseteq Paths
         /\ op[w].marks \subseteq Marks
         /\ op[w].file \in {"tmp", "sidecar", "gone"}
         /\ op[w].saved \in BOOLEAN /\ op[w].clean \in BOOLEAN

Init ==
    /\ files \in Tree
    /\ index = Empty
    /\ history = <<>>
    /\ sidecar = {}
    /\ tmp = Missing
    /\ lock = FALSE
    /\ op = [w \in Workers |-> Idle]
    /\ writes = 0
    /\ crashes = 0
    /\ raced = FALSE

At(w, step) == op[w].at = step

\* w goes on with its operation as new; the others have been interfered with.
Disturbing(w, new) ==
    op' = [v \in Workers |-> IF v = w THEN new ELSE [op[v] EXCEPT !.clean = FALSE]]
Quietly(w, new) == op' = [op EXCEPT ![w] = new]
Done(w) == Quietly(w, Idle)

repository == <<files, index, history, lock, writes, crashes>>
metadata == <<sidecar, tmp, raced>>

-----------------------------------------------------------------------------
(* Git commands.  One that writes the index needs index.lock.                *)

AtGit(w) == op[w].at \in {"commit", "checkout"}
Contended(w) == lock \/ \E v \in Workers \ {w} : AtGit(v)

\* create: git add -A.
Stage(w) ==
    /\ At(w, "idle")
    /\ ~lock
    /\ index' = files
    /\ Disturbing(w, [Idle EXCEPT !.at = "commit"])
    /\ UNCHANGED <<files, history, lock, writes, crashes, metadata>>

\* The approval that called create goes on without a checkpoint.
StageFails(w) ==
    /\ At(w, "idle")
    /\ Contended(w)
    /\ Quietly(w, [Idle EXCEPT !.at = "apply"])
    /\ UNCHANGED <<repository, metadata>>

\* git commit; nothing to commit is no failure and skips retention.
Commit(w) ==
    /\ At(w, "commit")
    /\ ~lock
    /\ IF index = HeadTree
       THEN /\ Quietly(w, [op[w] EXCEPT !.at = "apply", !.saved = TRUE])
            /\ UNCHANGED history
       ELSE /\ Len(history) < MaxCommits
            /\ history' = Append(history, index)
            /\ Quietly(w, [op[w] EXCEPT !.at = "retain", !.saved = TRUE,
                                        !.made = Len(history')])
    /\ UNCHANGED <<files, index, lock, writes, crashes, metadata>>

CommitFails(w) ==
    /\ At(w, "commit")
    /\ Contended(w)
    /\ Quietly(w, [Idle EXCEPT !.at = "apply"])
    /\ UNCHANGED <<repository, metadata>>

-----------------------------------------------------------------------------
(* The sidecar: load, change, write a temporary file, rename it over.        *)

Updating(w) == op[w].at \in {"open", "fill", "replace"}
StartUpdate(w, marks) ==
    /\ Quietly(w, [op[w] EXCEPT !.at = "open", !.marks = marks])
    /\ raced' = (raced \/ \E v \in Workers \ {w} : Updating(v))
    /\ UNCHANGED <<repository, sidecar, tmp>>

\* _apply_retention: the visible commits beyond MaxCount, and the aged ones,
\* which are the oldest and never the one just made.
Newer(c) == {d \in Visible : d > c}
Excess == {c \in Visible : Cardinality(Newer(c)) >= MaxCount}

RetainOldest(w) ==   \* mutant: the log is taken to be oldest first
    /\ At(w, "retain")
    /\ StartUpdate(w, Load(sidecar) \cup
         ({c \in Visible : Cardinality({d \in Visible : d < c}) >= MaxCount} \X {"deleted"}))

Retain(w) ==
    /\ At(w, "retain")
    /\ \E age \in 0..(Len(history) - 1) :
         LET hide == Excess \cup {c \in Visible : c <= age /\ c # op[w].made}
         IN  IF hide = {}
             THEN /\ Quietly(w, [op[w] EXCEPT !.at = "apply"])
                  /\ UNCHANGED <<repository, metadata>>
             ELSE StartUpdate(w, Load(sidecar) \cup (hide \X {"deleted"}))

\* delete() and rename() of a checkpoint that exists and is not deleted.
Delete(w, c) ==
    /\ At(w, "idle")
    /\ c \in Visible
    /\ StartUpdate(w, Load(sidecar) \cup {<<c, "deleted">>})

Rename(w, c) ==
    /\ At(w, "idle")
    /\ c \in Visible
    /\ StartUpdate(w, Load(sidecar) \cup {<<c, "label">>})

\* Opening for writing truncates, or makes, the temporary file.
OpenTmp(w) ==
    /\ At(w, "open")
    /\ tmp' = Torn
    /\ Quietly(w, [op[w] EXCEPT !.at = "fill", !.file = "tmp"])
    /\ UNCHANGED <<repository, sidecar, raced>>

\* What is in a file after w writes into it: its text, unless another writer's
\* longer one was there already.
Written(w, old) == IF old = Torn THEN {op[w].marks} ELSE {op[w].marks, Torn}

\* The file was opened by a name that somebody may have renamed or replaced since.
FillTmp(w) ==
    /\ At(w, "fill")
    /\ \/ op[w].file = "tmp" /\ tmp' \in Written(w, tmp) /\ UNCHANGED sidecar
       \/ op[w].file = "sidecar" /\ sidecar' \in Written(w, sidecar) /\ UNCHANGED tmp
       \/ op[w].file = "gone" /\ UNCHANGED <<tmp, sidecar>>
    /\ Disturbing(w, [op[w] EXCEPT !.at = "replace"])
    /\ UNCHANGED <<repository, raced>>

\* Retention's caller goes on; delete and rename are over.
AfterUpdate(o) == IF o.made = 0 THEN Idle
                  ELSE [o EXCEPT !.at = "apply", !.marks = {}, !.file = "tmp"]

Moved(o) == [o EXCEPT !.file = IF o.file = "tmp" THEN "sidecar" ELSE "gone",
                      !.clean = FALSE]
Replace(w) ==
    /\ At(w, "replace")
    /\ tmp # Missing
    /\ sidecar' = tmp
    /\ tmp' = Missing
    /\ op' = [v \in Workers |-> IF v = w THEN AfterUpdate(op[w])
                                ELSE IF At(v, "fill") THEN Moved(op[v])
                                ELSE [op[v] EXCEPT !.clean = FALSE]]
    /\ UNCHANGED <<repository, raced>>

\* Another update has renamed the file: delete and rename raise, retention logs.
ReplaceFails(w) ==
    /\ At(w, "replace")
    /\ tmp = Missing
    /\ Quietly(w, AfterUpdate(op[w]))
    /\ UNCHANGED <<repository, metadata>>

-----------------------------------------------------------------------------
(* restore(), the approved writes, and everybody else.                       *)

\* _files_added_since: tracked or not, and not in the checkpoint.
AddedSince(c) == (Present(index) \cup Present(files)) \ Present(history[c])

PreviewTracked(w, c) ==   \* mutant: files that git does not track are left out
    /\ At(w, "idle")
    /\ c \in Visible
    /\ Quietly(w, [Idle EXCEPT !.at = "checkout", !.id = c,
                               !.removed = Present(index) \ Present(history[c])])
    /\ UNCHANGED <<repository, metadata>>

Preview(w, c) ==
    /\ At(w, "idle")
    /\ c \in Visible
    /\ Quietly(w, [Idle EXCEPT !.at = "checkout", !.id = c, !.removed = AddedSince(c)])
    /\ UNCHANGED <<repository, metadata>>

Overlay(tree, paths, under) == [p \in Paths |-> IF p \in paths THEN tree[p] ELSE under[p]]

\* git checkout <id> -- . writes the checkpoint's files and leaves the others.
Checkout(w) ==
    /\ At(w, "checkout")
    /\ ~lock
    /\ LET tree == history[op[w].id]
       IN  /\ Present(tree) # {}
           /\ files' = Overlay(tree, Present(tree), files)
           /\ index' = Overlay(tree, Present(tree), index)
    /\ Disturbing(w, [op[w] EXCEPT !.at = "unlink"])
    /\ UNCHANGED <<history, lock, writes, crashes, metadata>>

\* The lock, or a checkpoint without files, which "." matches nothing in.
CheckoutRefused(w) ==
    /\ At(w, "checkout")
    /\ Contended(w) \/ Present(history[op[w].id]) = {}
    /\ Done(w)
    /\ UNCHANGED <<repository, metadata>>

\* It stops half way.
CheckoutFails(w) ==
    /\ At(w, "checkout")
    /\ ~lock
    /\ \E some \in SUBSET Present(history[op[w].id]) :
         files' = Overlay(history[op[w].id], some, files)
    /\ Disturbing(w, Idle)
    /\ UNCHANGED <<index, history, lock, writes, crashes, metadata>>

\* A file that cannot be removed is logged and stays.
Unlink(w) ==
    /\ At(w, "unlink")
    /\ \E p \in op[w].removed :
         \/ /\ files' = [files EXCEPT ![p] = Absent]
            /\ Disturbing(w, [op[w] EXCEPT !.removed = @ \ {p}])
         \/ /\ UNCHANGED files
            /\ Quietly(w, [op[w] EXCEPT !.removed = @ \ {p}, !.clean = FALSE])
    /\ UNCHANGED <<index, history, lock, writes, crashes, metadata>>

RestoreDone(w) ==
    /\ At(w, "unlink")
    /\ op[w].removed = {}
    /\ Done(w)
    /\ UNCHANGED <<repository, metadata>>

\* The approved batch reaches the disk.  (A create on demand writes nothing.)
Apply(w) ==
    /\ At(w, "apply")
    /\ \/ UNCHANGED <<files, writes>>
       \/ /\ writes < MaxWrites
          /\ writes' = writes + 1
          /\ \E p \in Paths, t \in Texts \cup {Absent} : files' = [files EXCEPT ![p] = t]
    /\ Disturbing(w, Idle)
    /\ UNCHANGED <<index, history, lock, crashes, metadata>>

\* The user, an editor, a build.
OthersWrite ==
    /\ writes < MaxWrites
    /\ writes' = writes + 1
    /\ \E p \in Paths, t \in Texts \cup {Absent} : files' = [files EXCEPT ![p] = t]
    /\ op' = [v \in Workers |-> [op[v] EXCEPT !.clean = FALSE]]
    /\ UNCHANGED <<index, history, lock, crashes, metadata>>

\* The process dies between two steps, or inside a git command, which leaves its lock.
Crash(w) ==
    /\ ~At(w, "idle")
    /\ crashes < MaxCrashes
    /\ crashes' = crashes + 1
    /\ lock' \in IF AtGit(w) THEN {lock, TRUE} ELSE {lock}
    /\ Done(w)
    /\ UNCHANGED <<files, index, history, writes, metadata>>

\* The user follows the error message and deletes index.lock.
DeleteLock ==
    /\ lock
    /\ lock' = FALSE
    /\ UNCHANGED <<files, index, history, op, writes, crashes, metadata>>

Next ==
    \/ \E w \in Workers :
         \/ Stage(w) \/ StageFails(w) \/ Commit(w) \/ CommitFails(w) \/ Retain(w)
         \/ \E c \in Ids : Delete(w, c) \/ Rename(w, c) \/ Preview(w, c)
         \/ OpenTmp(w) \/ FillTmp(w) \/ Replace(w) \/ ReplaceFails(w)
         \/ Checkout(w) \/ CheckoutRefused(w) \/ CheckoutFails(w)
         \/ Unlink(w) \/ RestoreDone(w) \/ Apply(w) \/ Crash(w)
    \/ OthersWrite \/ DeleteLock

Spec == Init /\ [][Next]_vars

-----------------------------------------------------------------------------
(* Properties.                                                               *)

\* When the approved batch is about to be written, the checkpoint made for it is
\* listed and holds the workspace as it is: neither staging nor retention lost it.
UndoIsReady ==
    \A w \in Workers :
        At(w, "apply") /\ op[w].clean /\ op[w].made # 0 =>
            op[w].made \in Visible /\ history[op[w].made] = files

\* A restore that nobody interferes with leaves exactly the checkpoint's files:
\* those created since are gone, tracked or not.
RestoreIsExact ==
    [][\A w \in Workers :
          At(w, "unlink") /\ op'[w].at = "idle" /\ crashes' = crashes /\ op[w].clean
              => files' = history[op[w].id]]_vars

\* A deletion mark or a label, once saved, stays, across crashes at any step: the
\* sidecar is never found half written.  Updates that overlap are exempt.
MarksStay == [][~raced' => Load(sidecar) \subseteq Load(sidecar')]_vars
=============================================================================
