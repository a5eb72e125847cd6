------------------------------- MODULE AtomicBatch -------------------------------
(*****************************************************************************)
(* What the file-edit gate promises, without its mechanism: a workspace and  *)
(* a batch of staged edits.  The workspace changes in two ways only: its     *)
(* owner writes a file, or the whole batch takes effect at once, on exactly  *)
(* the texts it was computed against.  A batch that is refused, fails or is  *)
(* discarded leaves no trace in the workspace.                               *)
(*****************************************************************************)
EXTENDS PendingEdits

VARIABLES
    store,   \* the workspace
    batch,   \* the staged edits
    writes   \* how often the workspace's owner has written a file

vars == <<store, batch, writes>>

Init ==
    /\ store \in [Paths -> Image]
    /\ batch = <<>>
    /\ writes = 0

\* More edits join the end of the batch.
Stage ==
    /\ Len(batch') > Len(batch)
    /\ SubSeq(batch', 1, Len(batch)) = batch
    /\ UNCHANGED <<store, writes>>

Discard ==
    /\ batch # <<>>
    /\ batch' = <<>>
    /\ UNCHANGED <<store, writes>>

Commit ==
    /\ batch # <<>>
    /\ StalePaths(batch, store) = {}
    /\ store' = [p \in Paths |-> IF p \in PathsOf(batch)
                                 THEN LeftIn(batch, Len(batch), p)
                                 ELSE store[p]]
    /\ batch' = <<>>
    /\ UNCHANGED writes

OwnerWrites ==
    /\ \E p \in Paths, image \in Image : store' = [store EXCEPT ![p] = image]
    /\ writes' = writes + 1
    /\ UNCHANGED batch

Next == Stage \/ Discard \/ Commit \/ OwnerWrites

Spec == Init /\ [][Next]_vars
=============================================================================
