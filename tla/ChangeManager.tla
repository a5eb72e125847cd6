------------------------------ MODULE ChangeManager ------------------------------
(*****************************************************************************)
(* ChangeManager of src/src/tools/patch_manager.py: editing tools stage      *)
(* edits, `apply_all` writes the whole batch file by file, and `discard_all` *)
(* drops it.  Between any two steps of `apply_all` somebody else (an editor, *)
(* `git checkout`, another tool) may write any file of the workspace, and    *)
(* every file operation of `apply_all` may fail.                             *)
(*****************************************************************************)
EXTENDS PendingEdits

CONSTANTS
    Empty,        \* the text of an empty file
    Partial,      \* a text cut off by a write that failed half way
    Faults,       \* which faults the environment may inject, see FaultKinds
    MaxPending,   \* bound: edits staged at a time
    MaxExternal   \* bound: writes by somebody else

\* "tear": a failing write leaves a half-written file; "undo": a write of the
\* rollback may fail too; "disturb": somebody else may write while apply_all runs.
FaultKinds == {"tear", "undo", "disturb"}

ASSUME ChangeManagerAssumption ==
    /\ Empty \in Contents
    /\ Partial \in Contents
    /\ Faults \subseteq FaultKinds
    /\ MaxPending \in Nat
    /\ MaxExternal \in Nat

VARIABLES
    disk,        \* the workspace: what each path holds
    pending,     \* ChangeManager._pending
    outcome,     \* how the last call returned: "raised" with the edits kept, or not
    phase,       \* where apply_all is; "idle" when it is not running
    snapshots,   \* apply_all's local `snapshots`
    applied,     \* how many edits of the batch it has written (local `applied`)
    undone,      \* how many of those its rollback has processed
    external     \* writes by somebody else so far

\* Ghost variables, reset when apply_all returns: what went wrong outside the
\* code's control since its staleness check.
VARIABLES
    foreign,     \* paths somebody else wrote since that check
    torn,        \* paths left half written by the write that failed
    unrestored   \* paths whose write failed during the rollback

locals == <<snapshots, applied, undone, foreign, torn, unrestored>>
vars == <<disk, pending, outcome, phase, locals, external>>

TypeOK ==
    /\ disk \in [Paths -> Image]
    /\ pending \in Seq(Edit)
    /\ phase \in {"idle", "checked", "writing", "rollback"}
    /\ snapshots \in UNION {[S -> Text] : S \in SUBSET Paths}
    /\ applied \in Nat
    /\ undone \in Nat
    /\ outcome \in {"returned", "stale", "raised"}
    /\ external \in 0..MaxExternal
    /\ foreign \subseteq Paths
    /\ torn \subseteq Paths
    /\ unrestored \subseteq Paths

NoSnapshots == [p \in {} |-> None]

Init ==
    /\ disk \in [Paths -> Image]
    /\ pending = <<>>
    /\ outcome = "returned"
    /\ external = 0
    /\ phase = "idle"
    /\ snapshots = NoSnapshots
    /\ applied = 0
    /\ undone = 0
    /\ foreign = {}
    /\ torn = {}
    /\ unrestored = {}

\* apply_all returns or raises: its local variables are gone.
Return(how) ==
    /\ outcome' = how
    /\ phase' = "idle"
    /\ snapshots' = NoSnapshots
    /\ applied' = 0
    /\ undone' = 0
    /\ foreign' = {}
    /\ torn' = {}
    /\ unrestored' = {}

-----------------------------------------------------------------------------
(* Staging.  Tools read the file as it is on disk, never as an earlier edit  *)
(* of the batch would leave it.                                              *)

Stage(edits) ==
    /\ phase = "idle"
    /\ Len(pending) + Len(edits) <= MaxPending
    /\ pending' = pending \o edits
    /\ outcome' = "returned"
    /\ UNCHANGED <<disk, phase, locals, external>>

EditOf(path, original, updated) ==
    [path |-> path, original |-> original, updated |-> updated]

\* write_file, append_file, edit_lines, ...: new text over what disk holds.
ProposeWrite(p, text) == Stage(<<EditOf(p, ReadAs(disk[p]), text)>>)

\* delete_file: only a file that exists.
ProposeDeletion(p) ==
    /\ disk[p] # None
    /\ Stage(<<EditOf(p, ReadAs(disk[p]), None)>>)

\* rename_file: create the destination, then delete the source; the destination
\* of an unreadable source is staged empty.
ProposeRename(p, q) ==
    /\ disk[p] # None
    /\ disk[q] = None
    /\ LET content == ReadAs(disk[p])
       IN Stage(<<EditOf(q, None, IF content = None THEN Empty ELSE content),
                  EditOf(p, content, None)>>)

\* copy_file: a new file with the text of an existing one.
ProposeCopy(p, q) ==
    /\ disk[p] # None
    /\ disk[q] = None
    /\ LET content == ReadAs(disk[p])
       IN Stage(<<EditOf(q, None, IF content = None THEN Empty ELSE content)>>)

\* The use stale_paths is written for: an edit computed on the output of the
\* previous edit of the same file.
ProposeChained(i, text) ==
    /\ i \in DOMAIN pending
    /\ ~\E j \in DOMAIN pending : j > i /\ pending[j].path = pending[i].path
    /\ Stage(<<EditOf(pending[i].path, pending[i].updated, text)>>)

DiscardAll ==
    /\ phase = "idle"
    /\ pending # <<>>
    /\ pending' = <<>>
    /\ outcome' = "returned"
    /\ UNCHANGED <<disk, phase, locals, external>>

-----------------------------------------------------------------------------
(* apply_all.                                                                *)

\* The staleness check refuses the batch before anything is written.
RefuseStale ==
    /\ phase = "idle"
    /\ pending # <<>>
    /\ StalePaths(pending, disk) # {}
    /\ outcome' = "stale"
    /\ UNCHANGED <<disk, pending, phase, locals, external>>

PassStaleCheckUnchecked ==   \* mutant: the staleness gate is dropped
    /\ phase = "idle"
    /\ pending # <<>>
    /\ phase' = "checked"
    /\ UNCHANGED <<disk, pending, outcome, locals, external>>

PassStaleCheck ==
    /\ phase = "idle"
    /\ pending # <<>>
    /\ StalePaths(pending, disk) = {}
    /\ phase' = "checked"
    /\ UNCHANGED <<disk, pending, outcome, locals, external>>

\* Reading an unreadable file for its snapshot raises: nothing written yet.
SnapshotFails ==
    /\ phase = "checked"
    /\ \E p \in PathsOf(pending) : disk[p] = Unreadable
    /\ Return("raised")
    /\ UNCHANGED <<disk, pending, external>>

TakeSnapshotsBlind ==   \* mutant: a snapshot is taken of bytes nobody could read
    /\ phase = "checked"
    /\ snapshots' = [p \in PathsOf(pending) |-> disk[p]]
    /\ phase' = "writing"
    /\ UNCHANGED <<disk, pending, outcome, applied, undone, external,
                   foreign, torn, unrestored>>

TakeSnapshots ==
    /\ phase = "checked"
    /\ \A p \in PathsOf(pending) : disk[p] # Unreadable
    /\ snapshots' = [p \in PathsOf(pending) |-> disk[p]]
    /\ phase' = "writing"
    /\ UNCHANGED <<disk, pending, outcome, applied, undone, external,
                   foreign, torn, unrestored>>

Current == pending[applied + 1]

\* What a write of `text` that fails after open(path, "w") truncated the file
\* may leave: nothing yet, or the beginning of a text that is not empty.
CutOff(text) == IF text = Empty THEN {Empty} ELSE {Empty, Partial}

WriteNextNoUnlink ==   \* mutant: a deletion is written as an empty file
    /\ phase = "writing"
    /\ applied < Len(pending)
    /\ disk' = [disk EXCEPT ![Current.path] =
                   IF Current.updated = None THEN Empty ELSE Current.updated]
    /\ applied' = applied + 1
    /\ UNCHANGED <<pending, outcome, phase, snapshots, undone, external,
                   foreign, torn, unrestored>>

WriteNext ==
    /\ phase = "writing"
    /\ applied < Len(pending)
    /\ disk' = [disk EXCEPT ![Current.path] = Current.updated]
    /\ applied' = applied + 1
    /\ UNCHANGED <<pending, outcome, phase, snapshots, undone, external,
                   foreign, torn, unrestored>>

\* The write of the current edit raises.  open(path, "w") has already truncated
\* the file when the failure is in writing; a failing mkdir, open or unlink
\* leaves it alone.  The path is not in `applied` either way.
WriteFailsUnhandled ==   \* mutant: the failure propagates without a rollback
    /\ phase = "writing"
    /\ applied < Len(pending)
    /\ Return("raised")
    /\ UNCHANGED <<disk, pending, external>>

WriteFails ==
    /\ phase = "writing"
    /\ applied < Len(pending)
    /\ phase' = "rollback"
    /\ \/ UNCHANGED <<disk, torn>>
       \/ /\ "tear" \in Faults
          /\ Current.updated # None
          /\ \E left \in CutOff(Current.updated) :
                 disk' = [disk EXCEPT ![Current.path] = left]
          /\ torn' = torn \cup {Current.path}
    /\ UNCHANGED <<pending, outcome, snapshots, applied, undone, external,
                   foreign, unrestored>>

FinishApply ==
    /\ phase = "writing"
    /\ applied = Len(pending)
    /\ pending' = <<>>
    /\ Return("returned")
    /\ UNCHANGED <<disk, external>>

\* Rollback goes through `applied` in order, restoring each path from its
\* snapshot (None: the file is removed); a failure is logged and skipped.
Undoing == pending[undone + 1].path

UndoNextKeepNew ==   \* mutant: a file the batch created is not removed again
    /\ phase = "rollback"
    /\ undone < applied
    /\ disk' = IF snapshots[Undoing] = None
               THEN disk
               ELSE [disk EXCEPT ![Undoing] = snapshots[Undoing]]
    /\ undone' = undone + 1
    /\ UNCHANGED <<pending, outcome, phase, snapshots, applied, external,
                   foreign, torn, unrestored>>

UndoNext ==
    /\ phase = "rollback"
    /\ undone < applied
    /\ disk' = [disk EXCEPT ![Undoing] = snapshots[Undoing]]
    /\ undone' = undone + 1
    /\ UNCHANGED <<pending, outcome, phase, snapshots, applied, external,
                   foreign, torn, unrestored>>

UndoFails ==
    /\ "undo" \in Faults
    /\ phase = "rollback"
    /\ undone < applied
    /\ \/ UNCHANGED disk
       \/ /\ snapshots[Undoing] # None
          /\ \E left \in CutOff(snapshots[Undoing]) :
                 disk' = [disk EXCEPT ![Undoing] = left]
    /\ undone' = undone + 1
    /\ unrestored' = unrestored \cup {Undoing}
    /\ UNCHANGED <<pending, outcome, phase, snapshots, applied, external,
                   foreign, torn>>

RollbackDone ==
    /\ phase = "rollback"
    /\ undone = applied
    /\ Return("raised")
    /\ UNCHANGED <<disk, pending, external>>

-----------------------------------------------------------------------------
\* Somebody else writes a file: the user's save, a checkout, another program.
ExternalWrite(p, image) ==
    /\ phase # "idle" => "disturb" \in Faults
    /\ external < MaxExternal
    /\ disk[p] # image
    /\ disk' = [disk EXCEPT ![p] = image]
    /\ external' = external + 1
    /\ foreign' = IF phase = "idle" THEN foreign ELSE foreign \cup {p}
    /\ UNCHANGED <<pending, outcome, phase, snapshots, applied, undone, torn,
                   unrestored>>

Staging ==
    \/ \E p \in Paths, text \in Contents : ProposeWrite(p, text)
    \/ \E p \in Paths : ProposeDeletion(p)
    \/ \E p, q \in Paths : ProposeRename(p, q) \/ ProposeCopy(p, q)
    \/ \E i \in DOMAIN pending, text \in Contents : ProposeChained(i, text)
    \/ DiscardAll

Applying ==
    \/ RefuseStale \/ PassStaleCheck
    \/ SnapshotFails \/ TakeSnapshots
    \/ WriteNext \/ WriteFails \/ FinishApply
    \/ UndoNext \/ UndoFails \/ RollbackDone

Next ==
    \/ Staging
    \/ Applying
    \/ \E p \in Paths, image \in Image : ExternalWrite(p, image)

Spec == Init /\ [][Next]_vars

-----------------------------------------------------------------------------
(* Safety.                                                                   *)

\* "Nothing the user did not review is ever overwritten": the file the next
\* write replaces still holds exactly the text the reviewed diff started from,
\* unless somebody wrote it after the staleness check of this very apply_all.
NextWriteIsReviewed ==
    (phase = "writing" /\ applied < Len(pending) /\ Current.path \notin foreign)
        => disk[Current.path] = Current.original

\* When several edits of a batch touch one file, each was computed on the text
\* the one before it leaves: applying the batch drops none of them.  Tools read
\* the disk, so this rests on the staleness check's running projection.
NoEditSilentlyLost ==
    phase \in {"checked", "writing", "rollback"} =>
        \A i \in DOMAIN pending :
            Earlier(pending, i) # {} =>
                pending[i].original = pending[Max(Earlier(pending, i))].updated

\* While apply_all writes, the workspace is the snapshot overlaid with exactly
\* the edits written so far, whatever mix of creations, deletions and repeated
\* edits the batch is made of.
DiskIsPrefixOfBatch ==
    phase = "writing" =>
        \A p \in PathsOf(pending) \ foreign :
            disk[p] = IF Touching(pending, applied, p) # {}
                      THEN LeftIn(pending, applied, p)
                      ELSE snapshots[p]

\* When a failed apply_all is about to raise, every file of the batch holds what
\* it held before, except the file whose write failed half way, those whose own
\* restoring failed, and those somebody else wrote.
FailedApplyRestores ==
    (phase = "rollback" /\ undone = applied) =>
        \A p \in (DOMAIN snapshots) \ (foreign \cup torn \cup unrestored) :
            disk[p] = snapshots[p]

\* The docstring's own promise: when apply_all fails every file of the batch
\* that nobody else wrote, and whose restoring did not fail, is as it was.  The
\* file whose own write failed is not in `applied`, so nothing restores it.
RollbackIsComplete ==
    (phase = "rollback" /\ undone = applied) =>
        \A p \in (DOMAIN snapshots) \ (foreign \cup unrestored) :
            disk[p] = snapshots[p]

-----------------------------------------------------------------------------
(* When files are not torn, the rollback's writes succeed and nobody writes  *)
(* while it runs, apply_all is one atomic step.                              *)

LogicalDisk ==
    [p \in Paths |-> IF /\ phase \in {"writing", "rollback"}
                        /\ p \in DOMAIN snapshots
                     THEN snapshots[p]
                     ELSE disk[p]]

Atomic == INSTANCE AtomicBatch WITH store <- LogicalDisk, batch <- pending,
                               writes <- external

AtomicSpec == Atomic!Spec

=============================================================================
