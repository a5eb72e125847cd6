------------------------------ MODULE PendingEdits ------------------------------
(*****************************************************************************)
(* The data of the file-edit approval gate: staged edits, what a file looks  *)
(* like to the code that reads it, and the staleness test of a batch.        *)
(* Translated from src/src/tools/patch_manager.py (PendingEdit,              *)
(* ChangeManager._disk_content, ChangeManager.stale_paths).                  *)
(*****************************************************************************)
EXTENDS Naturals, Sequences, FiniteSetsExt

CONSTANTS
    Paths,       \* the files the tools may edit
    Contents,    \* the texts a file may hold
    None,        \* Python's None: the file does not exist
    Unreadable   \* the file exists but its bytes are not UTF-8 text

ASSUME ImageAssumption ==
    /\ None \notin Contents
    /\ Unreadable \notin Contents
    /\ None # Unreadable

Text == Contents \cup {None}       \* original_content and updated_content
Image == Text \cup {Unreadable}    \* what the file system holds at a path

\* PendingEdit: `updated = None` is a deletion, `original = None` a new file.
Edit == [path: Paths, original: Text, updated: Text]

\* What reading a file yields: unreadable bytes read as None, like absence.
ReadAs(image) == IF image = Unreadable THEN None ELSE image

PathsOf(batch) == {batch[i].path : i \in DOMAIN batch}

\* The edits of `batch` before the i-th that touch the same file.
Earlier(batch, i) == {j \in DOMAIN batch : j < i /\ batch[j].path = batch[i].path}

ExpectedOnDisk(batch, disk, i) == ReadAs(disk[batch[i].path])   \* mutant: no projection

\* The running projection: the text the i-th edit must have been computed
\* against for the batch to be safe to apply.
Expected(batch, disk, i) ==
    IF Earlier(batch, i) = {}
    THEN ReadAs(disk[batch[i].path])
    ELSE batch[Max(Earlier(batch, i))].updated

StalePaths(batch, disk) ==
    {batch[i].path : i \in {j \in DOMAIN batch :
                              Expected(batch, disk, j) # batch[j].original}}

\* Of the first n edits, those that touch `path`, and the text they leave in it.
Touching(batch, n, path) == {i \in DOMAIN batch : i <= n /\ batch[i].path = path}

LeftIn(batch, n, path) == batch[Max(Touching(batch, n, path))].updated
=============================================================================
