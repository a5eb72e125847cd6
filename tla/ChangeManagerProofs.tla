--------------------------- MODULE ChangeManagerProofs ---------------------------
(*****************************************************************************)
(* Theorems about ChangeManager, for every set of files and texts, every     *)
(* batch and every choice of faults.                                         *)
(*****************************************************************************)
EXTENDS ChangeManager, TLAPS

Active == {"checked", "writing", "rollback"}

\* Where apply_all is in its batch.
Progress ==
    /\ phase \in {"idle", "checked"} => applied = 0
    /\ phase \in {"idle", "checked", "writing"} => undone = 0
    /\ undone <= applied
    /\ applied <= Len(pending)
    /\ phase \in {"writing", "rollback"} => DOMAIN snapshots = PathsOf(pending)

\* No edit of the batch before the i-th and after the n-th touches its file.
FirstAfter(n, i) ==
    ~\E j \in DOMAIN pending : n < j /\ j < i /\ pending[j].path = pending[i].path

\* Every edit still to be written starts from what its file will then hold.
StillFresh ==
    /\ phase = "checked" =>
         \A i \in DOMAIN pending :
            (pending[i].path \notin foreign /\ FirstAfter(0, i))
                => ReadAs(disk[pending[i].path]) = pending[i].original
    /\ phase = "writing" =>
         \A i \in DOMAIN pending :
            (i > applied /\ pending[i].path \notin foreign /\ FirstAfter(applied, i))
                => disk[pending[i].path] = pending[i].original

\* What the rollback still has to restore.
ToRestore ==
    phase = "rollback" =>
        \A p \in PathsOf(pending) \ (foreign \cup torn \cup unrestored) :
           \/ disk[p] = snapshots[p]
           \/ \E k \in DOMAIN pending :
                 undone < k /\ k <= applied /\ pending[k].path = p

IInv ==
    /\ TypeOK
    /\ Progress
    /\ NoEditSilentlyLost
    /\ StillFresh
    /\ DiskIsPrefixOfBatch
    /\ ToRestore

-----------------------------------------------------------------------------
(* Lemmas on the data.                                                       *)

\* The greatest element of a set of naturals, when one is known to be greatest.
LEMMA MaxIs ==
    ASSUME NEW S \in SUBSET Nat, NEW m \in S, \A k \in S : k <= m
    PROVE  Max(S) = m
<1>1. \A k \in S : (\A l \in S : k >= l) => k = m
  OBVIOUS
<1>2. \A l \in S : m >= l
  OBVIOUS
<1>. QED BY <1>1, <1>2 DEF Max

\* A batch that passes the staleness check is chained, and its first edit of each
\* file starts from what the file reads as.
LEMMA FreshBatch ==
    ASSUME NEW batch \in Seq(Edit), NEW d \in [Paths -> Image],
           StalePaths(batch, d) = {}, NEW i \in DOMAIN batch
    PROVE  /\ Earlier(batch, i) # {} =>
                batch[i].original = batch[Max(Earlier(batch, i))].updated
           /\ Earlier(batch, i) = {} => ReadAs(d[batch[i].path]) = batch[i].original
<1>1. Expected(batch, d, i) = batch[i].original
  BY DEF StalePaths
<1>. QED BY <1>1 DEF Expected

\* The fields of an edit.
LEMMA EditParts ==
    ASSUME NEW batch \in Seq(Edit), NEW i \in DOMAIN batch
    PROVE  /\ i \in 1..Len(batch)
           /\ batch[i] \in Edit
           /\ batch[i].path \in Paths
           /\ batch[i].original \in Text
           /\ batch[i].updated \in Text
<1>1. i \in 1..Len(batch) /\ batch[i] \in Edit
  OBVIOUS
<1>. QED BY <1>1 DEF Edit

\* Staging keeps the batch a sequence of edits.
LEMMA StageType ==
    ASSUME TypeOK, NEW edits \in Seq(Edit), Stage(edits)
    PROVE  TypeOK'
  BY DEF TypeOK, Stage, locals

-----------------------------------------------------------------------------
(* The inductive invariant, one lemma per conjunct.                          *)

\* Initially nothing is staged and nothing is being applied.
LEMMA InitHolds == Init => IInv
<1>. SUFFICES ASSUME Init PROVE IInv
  OBVIOUS
<1>1. NoSnapshots \in [{} -> Text]
  BY DEF NoSnapshots
<1>2. TypeOK
  BY <1>1, ChangeManagerAssumption DEF Init, TypeOK
<1>. QED BY <1>2 DEF Init, IInv, Progress, NoEditSilentlyLost, StillFresh,
                   DiskIsPrefixOfBatch, ToRestore

\* Whatever a tool stages is a few edits of files, none of them unreadable text.
LEMMA StagedEdits ==
    ASSUME TypeOK, Staging
    PROVE  DiscardAll \/ \E edits \in Seq(Edit) : edits # <<>> /\ Stage(edits)
<1>. USE ChangeManagerAssumption
<1>1. \A p \in Paths : ReadAs(disk[p]) \in Text
  BY DEF TypeOK, ReadAs, Image, Text
<1>2. ASSUME NEW e \in Edit, Stage(<<e>>)
      PROVE  \E edits \in Seq(Edit) : edits # <<>> /\ Stage(edits)
  <2>1. <<e>> \in Seq(Edit) /\ <<e>> # <<>>
    OBVIOUS
  <2>. QED BY <1>2, <2>1
<1>3. ASSUME NEW p \in Paths, NEW text \in Contents, ProposeWrite(p, text)
      PROVE  \E edits \in Seq(Edit) : edits # <<>> /\ Stage(edits)
  <2>1. EditOf(p, ReadAs(disk[p]), text) \in Edit
    BY <1>1 DEF EditOf, Edit, Text
  <2>. QED BY <1>2, <1>3, <2>1 DEF ProposeWrite
<1>4. ASSUME NEW p \in Paths, ProposeDeletion(p)
      PROVE  \E edits \in Seq(Edit) : edits # <<>> /\ Stage(edits)
  <2>1. EditOf(p, ReadAs(disk[p]), None) \in Edit
    BY <1>1 DEF EditOf, Edit, Text
  <2>. QED BY <1>2, <1>4, <2>1 DEF ProposeDeletion
<1>5. ASSUME NEW p \in Paths, NEW q \in Paths, ProposeRename(p, q) \/ ProposeCopy(p, q)
      PROVE  \E edits \in Seq(Edit) : edits # <<>> /\ Stage(edits)
  <2>. DEFINE content == ReadAs(disk[p])
              created == EditOf(q, None, IF content = None THEN Empty ELSE content)
              removed == EditOf(p, content, None)
  <2>1. created \in Edit /\ removed \in Edit
    BY <1>1 DEF EditOf, Edit, Text
  <2>2. <<created, removed>> \in Seq(Edit) /\ <<created, removed>> # <<>>
    BY <2>1
  <2>3. Stage(<<created, removed>>) \/ Stage(<<created>>)
    BY <1>5 DEF ProposeRename, ProposeCopy
  <2>. QED BY <1>2, <2>1, <2>2, <2>3
<1>6. ASSUME NEW i \in DOMAIN pending, NEW text \in Contents, ProposeChained(i, text)
      PROVE  \E edits \in Seq(Edit) : edits # <<>> /\ Stage(edits)
  <2>1. pending[i] \in Edit
    BY EditParts DEF TypeOK
  <2>2. EditOf(pending[i].path, pending[i].updated, text) \in Edit
    BY <2>1 DEF EditOf, Edit, Text
  <2>. QED BY <1>2, <1>6, <2>2 DEF ProposeChained
<1>. QED BY <1>3, <1>4, <1>5, <1>6 DEF Staging

\* Each step keeps the types.
LEMMA TypeStep ==
    ASSUME TypeOK, Progress, [Next]_vars
    PROVE  TypeOK'
<1>. USE ChangeManagerAssumption
<1>0. NoSnapshots \in UNION {[S -> Text] : S \in SUBSET Paths}
  <2>1. NoSnapshots \in [{} -> Text]
    BY DEF NoSnapshots
  <2>. QED BY <2>1
<1>1. CASE Staging
  <2>1. CASE DiscardAll
    BY <2>1 DEF DiscardAll, TypeOK, locals
  <2>. QED BY <1>1, <2>1, StagedEdits, StageType
<1>2. CASE RefuseStale \/ PassStaleCheck
  BY <1>2 DEF RefuseStale, PassStaleCheck, TypeOK, locals
<1>3. CASE SnapshotFails \/ RollbackDone
  BY <1>3, <1>0 DEF SnapshotFails, RollbackDone, Return, TypeOK
<1>4. CASE FinishApply
  BY <1>4, <1>0 DEF FinishApply, Return, TypeOK
<1>5. CASE TakeSnapshots
  <2>1. PathsOf(pending) \in SUBSET Paths
    BY EditParts DEF TypeOK, PathsOf
  <2>2. \A p \in PathsOf(pending) : disk[p] \in Text
    BY <1>5, <2>1 DEF TakeSnapshots, TypeOK, Image, Text
  <2>3. snapshots' \in [PathsOf(pending) -> Text]
    BY <1>5, <2>2 DEF TakeSnapshots
  <2>. QED BY <1>5, <2>1, <2>3 DEF TakeSnapshots, TypeOK
<1>6. CASE WriteNext
  <2>1. Current.path \in Paths /\ Current.updated \in Text
    <3>1. applied + 1 \in DOMAIN pending
      BY <1>6 DEF WriteNext, TypeOK
    <3>. QED BY <3>1, EditParts DEF Current, TypeOK
  <2>. QED BY <1>6, <2>1 DEF WriteNext, TypeOK, Image
<1>7. CASE WriteFails
  <2>1. Current.path \in Paths
    <3>1. applied + 1 \in DOMAIN pending
      BY <1>7 DEF WriteFails, TypeOK
    <3>. QED BY <3>1, EditParts DEF Current, TypeOK
  <2>. QED BY <1>7, <2>1 DEF WriteFails, CutOff, TypeOK, Image, Text
<1>8. CASE UndoNext \/ UndoFails
  <2>1. undone + 1 \in DOMAIN pending
    BY <1>8 DEF UndoNext, UndoFails, TypeOK, Progress
  <2>2. Undoing \in PathsOf(pending) /\ Undoing \in Paths
    BY <2>1, EditParts DEF Undoing, PathsOf, TypeOK
  <2>3. snapshots[Undoing] \in Image
    BY <1>8, <2>2 DEF UndoNext, UndoFails, TypeOK, Progress, Image
  <2>4. disk' \in [Paths -> Image]
    BY <1>8, <2>3 DEF UndoNext, UndoFails, CutOff, TypeOK, Image, Text
  <2>5. undone' \in Nat /\ unrestored' \subseteq Paths
    BY <1>8, <2>2 DEF UndoNext, UndoFails, TypeOK
  <2>. QED BY <1>8, <2>4, <2>5 DEF UndoNext, UndoFails, TypeOK
<1>9. ASSUME NEW p \in Paths, NEW image \in Image, ExternalWrite(p, image)
       PROVE  TypeOK'
  BY <1>9 DEF ExternalWrite, TypeOK
<1>10. CASE UNCHANGED vars
  BY <1>10 DEF vars, locals, TypeOK
<1>. QED
  BY <1>1, <1>2, <1>3, <1>4, <1>5, <1>6, <1>7, <1>8, <1>9, <1>10 DEF Next, Applying

\* Each step keeps the loop counters and the snapshots in step with the batch.
LEMMA ProgressStep ==
    ASSUME TypeOK, Progress, [Next]_vars
    PROVE  Progress'
<1>1. CASE Staging
  <2>1. ASSUME NEW edits, Stage(edits) PROVE Progress'
    BY <2>1 DEF Stage, TypeOK, Progress, locals
  <2>2. CASE DiscardAll
    BY <2>2 DEF DiscardAll, TypeOK, Progress, locals
  <2>. QED BY <1>1, <2>1, <2>2
           DEF Staging, ProposeWrite, ProposeDeletion, ProposeRename, ProposeCopy,
              ProposeChained
<1>2. CASE RefuseStale \/ PassStaleCheck
  BY <1>2 DEF RefuseStale, PassStaleCheck, TypeOK, Progress, locals
<1>3. CASE SnapshotFails \/ FinishApply \/ RollbackDone
  BY <1>3 DEF SnapshotFails, FinishApply, RollbackDone, Return, TypeOK, Progress
<1>4. CASE TakeSnapshots
  BY <1>4 DEF TakeSnapshots, TypeOK, Progress
<1>5. CASE WriteNext \/ WriteFails
  BY <1>5 DEF WriteNext, WriteFails, TypeOK, Progress
<1>6. CASE UndoNext \/ UndoFails
  BY <1>6 DEF UndoNext, UndoFails, TypeOK, Progress
<1>7. ASSUME NEW p \in Paths, NEW image \in Image, ExternalWrite(p, image)
      PROVE  Progress'
  BY <1>7 DEF ExternalWrite, TypeOK, Progress
<1>8. CASE UNCHANGED vars
  BY <1>8 DEF vars, locals, Progress
<1>. QED BY <1>1, <1>2, <1>3, <1>4, <1>5, <1>6, <1>7, <1>8 DEF Next, Applying

\* A batch is chained when it passes the staleness check, and apply_all never
\* reorders it.
LEMMA ChainedStep ==
    ASSUME TypeOK, NoEditSilentlyLost, [Next]_vars
    PROVE  NoEditSilentlyLost'
<1>. USE DEF NoEditSilentlyLost
<1>1. CASE Staging
  BY <1>1 DEF Staging, ProposeWrite, ProposeDeletion, ProposeRename, ProposeCopy,
              ProposeChained,
              DiscardAll, Stage
<1>2. CASE PassStaleCheck
  <2>1. /\ pending \in Seq(Edit)
        /\ disk \in [Paths -> Image]
        /\ StalePaths(pending, disk) = {}
        /\ pending' = pending
    BY <1>2 DEF PassStaleCheck, TypeOK
  <2>2. \A i \in DOMAIN pending :
          Earlier(pending, i) # {} =>
              pending[i].original = pending[Max(Earlier(pending, i))].updated
    BY <2>1, FreshBatch
  <2>. QED BY <2>1, <2>2
<1>3. CASE SnapshotFails \/ FinishApply \/ RollbackDone
  BY <1>3 DEF SnapshotFails, FinishApply, RollbackDone, Return
<1>4. CASE \/ RefuseStale \/ TakeSnapshots \/ WriteNext \/ WriteFails \/ UndoNext \/ UndoFails
  <2>1. /\ pending' = pending
        /\ phase' \in Active => phase \in Active
    BY <1>4 DEF RefuseStale, TakeSnapshots, WriteNext, WriteFails, UndoNext, UndoFails,
                Active
  <2>. QED BY <2>1 DEF Active
<1>5. ASSUME NEW p \in Paths, NEW image \in Image, ExternalWrite(p, image)
      PROVE  NoEditSilentlyLost'
  BY <1>5 DEF ExternalWrite
<1>6. CASE UNCHANGED vars
  BY <1>6 DEF vars
<1>. QED BY <1>1, <1>2, <1>3, <1>4, <1>5, <1>6 DEF Next, Applying

\* The edits not yet written stay fresh: a write only touches its own file, and
\* the next edit of that file was computed on what it wrote.
LEMMA StillFreshStep ==
    ASSUME TypeOK, Progress, NoEditSilentlyLost, StillFresh, [Next]_vars
    PROVE  StillFresh'
<1>. USE DEF StillFresh, FirstAfter
<1>1. CASE Staging
  BY <1>1 DEF Staging, ProposeWrite, ProposeDeletion, ProposeRename, ProposeCopy,
              ProposeChained,
              DiscardAll, Stage
<1>2. CASE PassStaleCheck
  <2>1. /\ pending \in Seq(Edit)
        /\ disk \in [Paths -> Image]
        /\ StalePaths(pending, disk) = {}
        /\ pending' = pending /\ disk' = disk /\ phase' = "checked"
    BY <1>2 DEF PassStaleCheck, TypeOK
  <2>2. \A i \in DOMAIN pending :
          Earlier(pending, i) = {} => ReadAs(disk[pending[i].path]) = pending[i].original
    BY <2>1, FreshBatch
  <2>3. \A i \in DOMAIN pending : FirstAfter(0, i) => Earlier(pending, i) = {}
    BY <2>1 DEF Earlier
  <2>. QED BY <2>1, <2>2, <2>3
<1>3. CASE TakeSnapshots
  <2>1. /\ phase = "checked" /\ phase' = "writing"
        /\ applied = 0 /\ applied' = 0
        /\ pending' = pending /\ disk' = disk /\ foreign' = foreign
        /\ \A p \in PathsOf(pending) : disk[p] # Unreadable
    BY <1>3 DEF TakeSnapshots, Progress
  <2>2. \A i \in DOMAIN pending : ReadAs(disk[pending[i].path]) = disk[pending[i].path]
    BY <2>1 DEF ReadAs, PathsOf
  <2>. QED BY <2>1, <2>2
<1>4. CASE WriteNext
  <2>1. /\ phase = "writing" /\ phase' = "writing"
        /\ applied \in Nat /\ applied' = applied + 1
        /\ applied + 1 \in DOMAIN pending
        /\ pending \in Seq(Edit)
        /\ pending' = pending /\ foreign' = foreign
        /\ disk \in [Paths -> Image]
        /\ disk' = [disk EXCEPT ![Current.path] = Current.updated]
    BY <1>4 DEF WriteNext, TypeOK
  <2>. SUFFICES ASSUME NEW i \in DOMAIN pending, i > applied + 1,
                       pending[i].path \notin foreign, FirstAfter(applied + 1, i)
                PROVE  disk'[pending[i].path] = pending[i].original
    BY <2>1
  <2>2. pending[i].path \in Paths /\ i \in Nat /\ Current.path \in Paths
    BY <2>1, EditParts DEF Current
  <2>3. CASE pending[i].path = Current.path
    <3>1. applied + 1 \in Earlier(pending, i)
      BY <2>1, <2>3 DEF Earlier, Current
    <3>2. \A k \in Earlier(pending, i) : k <= applied + 1
      BY <2>1 DEF Earlier
    <3>3. Max(Earlier(pending, i)) = applied + 1
      <4>1. Earlier(pending, i) \subseteq Nat
        BY <2>1 DEF Earlier
      <4>. QED BY <3>1, <3>2, <4>1, MaxIs
    <3>4. pending[i].original = Current.updated
      BY <2>1, <3>1, <3>3 DEF NoEditSilentlyLost, Current
    <3>. QED BY <2>1, <2>2, <2>3, <3>4
  <2>4. CASE pending[i].path # Current.path
    <3>1. FirstAfter(applied, i)
      BY <2>1, <2>2, <2>4 DEF Current
    <3>2. disk[pending[i].path] = pending[i].original
      BY <2>1, <2>2, <3>1
    <3>. QED BY <2>1, <2>2, <2>4, <3>2
  <2>. QED BY <2>3, <2>4
<1>5. CASE SnapshotFails \/ FinishApply \/ RollbackDone
  BY <1>5 DEF SnapshotFails, FinishApply, RollbackDone, Return
<1>6. CASE RefuseStale \/ WriteFails \/ UndoNext \/ UndoFails
  BY <1>6 DEF RefuseStale, WriteFails, UndoNext, UndoFails
<1>7. ASSUME NEW p \in Paths, NEW image \in Image, ExternalWrite(p, image)
      PROVE  StillFresh'
  <2>1. /\ phase' = phase /\ pending' = pending /\ applied' = applied
        /\ disk \in [Paths -> Image]
        /\ disk' = [disk EXCEPT ![p] = image]
        /\ phase # "idle" => foreign' = foreign \cup {p}
    BY <1>7 DEF ExternalWrite, TypeOK
  <2>2. \A i \in DOMAIN pending : pending[i].path \in Paths
    BY EditParts DEF TypeOK
  <2>. QED BY <2>1, <2>2
<1>8. CASE UNCHANGED vars
  BY <1>8 DEF vars, locals
<1>. QED BY <1>1, <1>2, <1>3, <1>4, <1>5, <1>6, <1>7, <1>8 DEF Next, Applying

\* One more write: its own file now holds the new text, every other file is as
\* the writes before it left it.
LEMMA PrefixGrows ==
    ASSUME NEW batch \in Seq(Edit), NEW n \in Nat, n + 1 \in DOMAIN batch,
           NEW p
    PROVE  /\ p = batch[n + 1].path =>
                /\ Touching(batch, n + 1, p) # {}
                /\ LeftIn(batch, n + 1, p) = batch[n + 1].updated
           /\ p # batch[n + 1].path => Touching(batch, n + 1, p) = Touching(batch, n, p)
<1>1. ASSUME p = batch[n + 1].path
      PROVE  /\ Touching(batch, n + 1, p) # {}
             /\ LeftIn(batch, n + 1, p) = batch[n + 1].updated
  <2>1. Touching(batch, n + 1, p) \in SUBSET Nat
    BY DEF Touching
  <2>2. n + 1 \in Touching(batch, n + 1, p)
    BY <1>1 DEF Touching
  <2>3. \A k \in Touching(batch, n + 1, p) : k <= n + 1
    BY DEF Touching
  <2>4. Max(Touching(batch, n + 1, p)) = n + 1
    BY <2>1, <2>2, <2>3, MaxIs
  <2>. QED BY <2>2, <2>4 DEF LeftIn
<1>2. ASSUME p # batch[n + 1].path
      PROVE  Touching(batch, n + 1, p) = Touching(batch, n, p)
  BY <1>2 DEF Touching
<1>. QED BY <1>1, <1>2

\* Every action keeps the workspace at a prefix of the batch.
LEMMA PrefixStep ==
    ASSUME TypeOK, Progress, DiskIsPrefixOfBatch, [Next]_vars
    PROVE  DiskIsPrefixOfBatch'
<1>. USE DEF DiskIsPrefixOfBatch
<1>1. CASE Staging
  BY <1>1 DEF Staging, ProposeWrite, ProposeDeletion, ProposeRename, ProposeCopy,
              ProposeChained,
              DiscardAll, Stage
<1>2. CASE TakeSnapshots
  <2>1. /\ applied' = 0 /\ pending' = pending /\ disk' = disk
        /\ snapshots' = [p \in PathsOf(pending) |-> disk[p]]
        /\ pending \in Seq(Edit)
    BY <1>2 DEF TakeSnapshots, Progress, TypeOK
  <2>2. \A p : Touching(pending, 0, p) = {}
    BY <2>1 DEF Touching
  <2>. QED BY <2>1, <2>2
<1>3. CASE WriteNext
  <2>1. /\ phase = "writing"
        /\ applied \in Nat /\ applied' = applied + 1
        /\ applied + 1 \in DOMAIN pending
        /\ pending \in Seq(Edit) /\ pending' = pending
        /\ foreign' = foreign /\ snapshots' = snapshots
        /\ disk \in [Paths -> Image]
        /\ disk' = [disk EXCEPT ![Current.path] = Current.updated]
    BY <1>3 DEF WriteNext, TypeOK
  <2>. SUFFICES ASSUME NEW p \in PathsOf(pending) \ foreign
                PROVE  disk'[p] = IF Touching(pending, applied + 1, p) # {}
                                  THEN LeftIn(pending, applied + 1, p)
                                  ELSE snapshots[p]
    BY <2>1
  <2>2. p \in Paths
    BY <2>1, EditParts DEF PathsOf
  <2>3. CASE p = Current.path
    <3>1. LeftIn(pending, applied + 1, p) = Current.updated
          /\ Touching(pending, applied + 1, p) # {}
      BY <2>1, <2>3, PrefixGrows DEF Current
    <3>. QED BY <2>1, <2>2, <2>3, <3>1
  <2>4. CASE p # Current.path
    <3>1. Touching(pending, applied + 1, p) = Touching(pending, applied, p)
      BY <2>1, <2>4, PrefixGrows DEF Current
    <3>2. LeftIn(pending, applied + 1, p) = LeftIn(pending, applied, p)
      BY <3>1 DEF LeftIn
    <3>. QED BY <2>1, <2>2, <2>4, <3>1, <3>2
  <2>. QED BY <2>3, <2>4
<1>4. CASE SnapshotFails \/ FinishApply \/ RollbackDone
  BY <1>4 DEF SnapshotFails, FinishApply, RollbackDone, Return
<1>5. CASE RefuseStale \/ PassStaleCheck \/ WriteFails \/ UndoNext \/ UndoFails
  BY <1>5 DEF RefuseStale, PassStaleCheck, WriteFails, UndoNext, UndoFails
<1>6. ASSUME NEW p \in Paths, NEW image \in Image, ExternalWrite(p, image)
      PROVE  DiskIsPrefixOfBatch'
  <2>1. /\ phase' = phase /\ pending' = pending /\ applied' = applied
        /\ snapshots' = snapshots
        /\ disk' = [disk EXCEPT ![p] = image]
        /\ phase # "idle" => foreign' = foreign \cup {p}
    BY <1>6 DEF ExternalWrite
  <2>2. \A q \in PathsOf(pending) : q \in DOMAIN disk
    BY EditParts DEF TypeOK, PathsOf
  <2>. QED BY <2>1, <2>2
<1>7. CASE UNCHANGED vars
  BY <1>7 DEF vars, locals
<1>. QED BY <1>1, <1>2, <1>3, <1>4, <1>5, <1>6, <1>7 DEF Next, Applying

\* The rollback restores every file it passes, unless that restoring fails.
LEMMA ToRestoreStep ==
    ASSUME TypeOK, Progress, DiskIsPrefixOfBatch, ToRestore, [Next]_vars
    PROVE  ToRestore'
<1>. USE DEF ToRestore
<1>0. /\ pending \in Seq(Edit)
      /\ disk \in [Paths -> Image]
      /\ applied \in Nat /\ undone \in Nat
      /\ PathsOf(pending) \subseteq Paths
  BY EditParts DEF TypeOK, PathsOf
<1>1. CASE Staging
  BY <1>1 DEF Staging, ProposeWrite, ProposeDeletion, ProposeRename, ProposeCopy,
              ProposeChained,
              DiscardAll, Stage
<1>2. CASE WriteFails
  <2>1. /\ phase = "writing" /\ undone = 0 /\ undone' = 0
        /\ pending' = pending /\ applied' = applied /\ snapshots' = snapshots
        /\ foreign' = foreign /\ unrestored' = unrestored
        /\ \/ disk' = disk /\ torn' = torn
           \/ /\ \E left : disk' = [disk EXCEPT ![Current.path] = left]
              /\ torn' = torn \cup {Current.path}
    BY <1>2 DEF WriteFails, Progress
  <2>. SUFFICES ASSUME NEW p \in PathsOf(pending) \ (foreign \cup torn' \cup unrestored),
                       disk'[p] # snapshots[p]
                PROVE  \E k \in DOMAIN pending :
                          0 < k /\ k <= applied /\ pending[k].path = p
    BY <2>1
  <2>2. disk[p] # snapshots[p]
    BY <1>0, <2>1
  <2>3. Touching(pending, applied, p) # {}
    BY <2>1, <2>2 DEF DiskIsPrefixOfBatch
  <2>. QED BY <1>0, <2>3 DEF Touching
<1>3. CASE UndoNext \/ UndoFails
  <2>1. /\ phase = "rollback"
        /\ undone' = undone + 1 /\ undone + 1 \in DOMAIN pending
        /\ pending' = pending /\ applied' = applied /\ snapshots' = snapshots
        /\ foreign' = foreign /\ torn' = torn
        /\ \/ /\ disk' = [disk EXCEPT ![Undoing] = snapshots[Undoing]]
              /\ unrestored' = unrestored
           \/ /\ \/ disk' = disk
                 \/ \E left : disk' = [disk EXCEPT ![Undoing] = left]
              /\ unrestored' = unrestored \cup {Undoing}
    BY <1>0, <1>3 DEF UndoNext, UndoFails, Progress
  <2>. SUFFICES ASSUME NEW p \in PathsOf(pending) \ (foreign \cup torn \cup unrestored'),
                       disk'[p] # snapshots[p]
                PROVE  \E k \in DOMAIN pending :
                          undone + 1 < k /\ k <= applied /\ pending[k].path = p
    BY <2>1
  <2>2. p # Undoing /\ disk[p] # snapshots[p]
    BY <1>0, <2>1
  <2>3. PICK k \in DOMAIN pending : undone < k /\ k <= applied /\ pending[k].path = p
    BY <2>1, <2>2
  <2>4. k # undone + 1
    BY <2>2, <2>3 DEF Undoing
  <2>. QED BY <1>0, <2>3, <2>4
<1>4. CASE SnapshotFails \/ FinishApply \/ RollbackDone
  BY <1>4 DEF SnapshotFails, FinishApply, RollbackDone, Return
<1>5. CASE RefuseStale \/ PassStaleCheck \/ TakeSnapshots \/ WriteNext
  BY <1>5 DEF RefuseStale, PassStaleCheck, TakeSnapshots, WriteNext
<1>6. ASSUME NEW p \in Paths, NEW image \in Image, ExternalWrite(p, image)
      PROVE  ToRestore'
  BY <1>0, <1>6 DEF ExternalWrite
<1>7. CASE UNCHANGED vars
  BY <1>7 DEF vars, locals
<1>. QED BY <1>1, <1>2, <1>3, <1>4, <1>5, <1>6, <1>7 DEF Next, Applying

-----------------------------------------------------------------------------
\* The invariant holds of every behaviour.
THEOREM Inductive == Spec => []IInv
<1>1. Init => IInv
  BY InitHolds
<1>2. IInv /\ [Next]_vars => IInv'
  BY TypeStep, ProgressStep, ChainedStep, StillFreshStep, PrefixStep, ToRestoreStep
     DEF IInv
<1>. QED BY <1>1, <1>2, PTL DEF Spec

\* Every variable keeps its type: in particular no call stages an edit whose
\* text is the unreadable image, and no snapshot is taken of one.
THEOREM TypeCorrect == Spec => []TypeOK
<1>1. IInv => TypeOK
  BY DEF IInv
<1>. QED BY <1>1, Inductive, PTL

\* Whatever batch the tools staged and whatever happens on disk before the
\* staleness check, apply_all only replaces the text a reviewed diff starts from.
THEOREM ReviewedOnly == Spec => []NextWriteIsReviewed
<1>1. IInv => NextWriteIsReviewed
  <2>. SUFFICES ASSUME IInv, phase = "writing", applied < Len(pending),
                       Current.path \notin foreign
                PROVE  disk[Current.path] = Current.original
    BY DEF NextWriteIsReviewed
  <2>1. applied + 1 \in DOMAIN pending /\ applied \in Nat /\ DOMAIN pending \subseteq Nat
    BY DEF IInv, TypeOK
  <2>2. FirstAfter(applied, applied + 1)
    BY <2>1 DEF FirstAfter
  <2>. QED BY <2>1, <2>2 DEF IInv, StillFresh, Current
<1>. QED BY <1>1, Inductive, PTL

\* No batch that apply_all works on contains an edit that a later edit of the
\* same file was not computed on.
THEOREM NothingLost == Spec => []NoEditSilentlyLost
<1>1. IInv => NoEditSilentlyLost
  BY DEF IInv
<1>. QED BY <1>1, Inductive, PTL

\* In the middle of apply_all the workspace is the snapshot with the first
\* `applied` edits on top.
THEOREM PrefixOnDisk == Spec => []DiskIsPrefixOfBatch
<1>1. IInv => DiskIsPrefixOfBatch
  BY DEF IInv
<1>. QED BY <1>1, Inductive, PTL

\* A failed apply_all leaves every file as it was, but for the files the failure
\* itself, a failing rollback or somebody else touched.
THEOREM RollbackRestores == Spec => []FailedApplyRestores
<1>1. IInv => FailedApplyRestores
  <2>. SUFFICES ASSUME IInv, phase = "rollback", undone = applied,
                       NEW p \in (DOMAIN snapshots) \ (foreign \cup torn \cup unrestored)
                PROVE  disk[p] = snapshots[p]
    BY DEF FailedApplyRestores
  <2>1. p \in PathsOf(pending)
    BY DEF IInv, Progress
  <2>2. ~\E k \in DOMAIN pending : undone < k /\ k <= applied
    BY DEF IInv, TypeOK
  <2>. QED BY <2>1, <2>2 DEF IInv, ToRestore
<1>. QED BY <1>1, Inductive, PTL

-----------------------------------------------------------------------------
(* Without faults, apply_all is one atomic step of AtomicBatch.              *)

\* Nothing went wrong outside the code's control.
Quiet == foreign = {} /\ torn = {} /\ unrestored = {}

\* The batch apply_all works on passes its check on the texts it started from.
BatchIsFresh ==
    phase \in Active => pending # <<>> /\ StalePaths(pending, LogicalDisk) = {}

AInv == IInv /\ Quiet /\ BatchIsFresh

\* Outside a write or a rollback, the abstract workspace is the disk; inside,
\* it is what the snapshots remember of the batch's files.
LEMMA AbstractDisk ==
    ASSUME TypeOK
    PROVE  /\ phase \in {"idle", "checked"} => LogicalDisk = disk
           /\ LogicalDisk \in [Paths -> Image]
<1>1. disk \in [Paths -> Image]
  BY DEF TypeOK
<1>2. \A p \in DOMAIN snapshots : snapshots[p] \in Image
  BY DEF TypeOK, Image
<1>. QED BY <1>1, <1>2 DEF LogicalDisk

\* The steps inside apply_all do not show.
LEMMA HiddenStep ==
    ASSUME AInv, Faults = {},
           PassStaleCheck \/ SnapshotFails \/ TakeSnapshots \/ WriteNext \/ WriteFails
           \/ UndoNext \/ UndoFails \/ RollbackDone
    PROVE  LogicalDisk' = LogicalDisk /\ UNCHANGED <<pending, external>> /\ Quiet'
<1>. USE DEF AInv, IInv, Quiet
<1>1. /\ disk \in [Paths -> Image] /\ PathsOf(pending) \subseteq Paths
      /\ applied \in Nat /\ undone \in Nat /\ pending \in Seq(Edit)
  BY EditParts DEF TypeOK, PathsOf
<1>2. CASE PassStaleCheck \/ SnapshotFails
  <2>1. phase \in {"idle", "checked"} /\ phase' \in {"idle", "checked"}
        /\ UNCHANGED <<disk, pending, external>> /\ Quiet'
    BY <1>2 DEF PassStaleCheck, SnapshotFails, Return, locals
  <2>2. LogicalDisk' = [p \in Paths |-> disk[p]] /\ LogicalDisk = [p \in Paths |-> disk[p]]
    BY <2>1 DEF LogicalDisk
  <2>. QED BY <2>1, <2>2
<1>3. CASE TakeSnapshots
  <2>1. /\ phase = "checked" /\ phase' = "writing" /\ UNCHANGED <<disk, pending, external>>
        /\ Quiet' /\ snapshots' = [p \in PathsOf(pending) |-> disk[p]]
    BY <1>3 DEF TakeSnapshots
  <2>. QED BY <1>1, <2>1 DEF LogicalDisk
<1>4. CASE WriteNext \/ WriteFails \/ UndoNext
  <2>1. /\ phase \in {"writing", "rollback"} /\ phase' \in {"writing", "rollback"}
        /\ UNCHANGED <<pending, external, snapshots>> /\ Quiet'
        /\ \/ UNCHANGED disk
           \/ \E q \in PathsOf(pending) : \E image : disk' = [disk EXCEPT ![q] = image]
    <3>1. CASE WriteNext
      <4>1. Current.path \in PathsOf(pending)
        BY <1>1, <3>1 DEF WriteNext, Current, PathsOf
      <4>. QED BY <3>1, <4>1 DEF WriteNext
    <3>2. CASE WriteFails
      BY <3>2 DEF WriteFails
    <3>3. CASE UndoNext
      <4>1. Undoing \in PathsOf(pending)
        BY <1>1, <3>3 DEF UndoNext, Undoing, PathsOf, Progress
      <4>. QED BY <3>3, <4>1 DEF UndoNext
    <3>. QED BY <1>4, <3>1, <3>2, <3>3
  <2>2. DOMAIN snapshots = PathsOf(pending)
    BY <2>1 DEF Progress
  <2>. QED BY <1>1, <2>1, <2>2 DEF LogicalDisk
<1>5. CASE UndoFails
  BY <1>5 DEF UndoFails
<1>6. CASE RollbackDone
  <2>1. /\ phase = "rollback" /\ undone = applied /\ phase' = "idle"
        /\ UNCHANGED <<disk, pending, external>> /\ Quiet'
    BY <1>6 DEF RollbackDone, Return
  <2>2. \A p \in DOMAIN snapshots : disk[p] = snapshots[p]
    BY <1>1, <2>1 DEF ToRestore, Progress
  <2>. QED BY <2>1, <2>2 DEF LogicalDisk
<1>. QED BY <1>2, <1>3, <1>4, <1>5, <1>6

\* AtomicBatch's view of the data is ChangeManager's.
LEMMA SameData ==
    ASSUME NEW batch, NEW d, NEW n, NEW p
    PROVE  /\ Atomic!StalePaths(batch, d) = StalePaths(batch, d)
           /\ Atomic!PathsOf(batch) = PathsOf(batch)
           /\ Atomic!LeftIn(batch, n, p) = LeftIn(batch, n, p)
<1>1. \A S : Atomic!Max(S) = Max(S)
  BY DEF Atomic!Max, Max
<1>2. \A i : Atomic!Expected(batch, d, i) = Expected(batch, d, i)
  BY <1>1 DEF Atomic!Expected, Expected, Atomic!Earlier, Earlier, Atomic!ReadAs, ReadAs
<1>3. Atomic!StalePaths(batch, d) = StalePaths(batch, d)
  BY <1>2 DEF Atomic!StalePaths, StalePaths
<1>4. Atomic!PathsOf(batch) = PathsOf(batch)
  BY DEF Atomic!PathsOf, PathsOf
<1>5. Atomic!LeftIn(batch, n, p) = LeftIn(batch, n, p)
  BY <1>1 DEF Atomic!LeftIn, LeftIn, Atomic!Touching, Touching
<1>. QED BY <1>3, <1>4, <1>5

\* apply_all returning without an error is the commit.
LEMMA FinishCommits ==
    ASSUME AInv, FinishApply
    PROVE  Atomic!Commit
<1>. USE DEF AInv, IInv, Quiet
<1>1. /\ phase = "writing" /\ applied = Len(pending) /\ phase' = "idle"
      /\ pending' = <<>> /\ UNCHANGED <<disk, external>>
  BY DEF FinishApply, Return
<1>2. DOMAIN snapshots = PathsOf(pending) /\ pending # <<>>
      /\ StalePaths(pending, LogicalDisk) = {}
  BY <1>1 DEF Progress, BatchIsFresh, Active
<1>3. \A p \in PathsOf(pending) : Touching(pending, Len(pending), p) # {}
  BY DEF PathsOf, Touching, TypeOK
<1>4. \A p \in PathsOf(pending) : disk[p] = LeftIn(pending, Len(pending), p)
  BY <1>1, <1>3 DEF DiskIsPrefixOfBatch
<1>5. LogicalDisk' = [p \in Paths |-> IF p \in PathsOf(pending)
                                       THEN LeftIn(pending, Len(pending), p)
                                       ELSE LogicalDisk[p]]
  BY <1>1, <1>2, <1>4 DEF LogicalDisk
<1>. QED BY <1>1, <1>2, <1>5, SameData DEF Atomic!Commit

\* Between two calls of apply_all, tools stage and the user discards.
LEMMA StagingStages ==
    ASSUME AInv, Staging
    PROVE  /\ phase = "idle" /\ phase' = "idle" /\ UNCHANGED <<disk, external>> /\ Quiet'
           /\ Atomic!Stage \/ Atomic!Discard
<1>. USE DEF AInv, IInv
<1>1. phase = "idle" /\ phase' = "idle" /\ UNCHANGED <<disk, external>> /\ Quiet'
  BY DEF Staging, ProposeWrite, ProposeDeletion, ProposeRename, ProposeCopy, ProposeChained,
         DiscardAll, Stage, locals, Quiet
<1>2. LogicalDisk' = LogicalDisk
  BY <1>1 DEF LogicalDisk
<1>3. CASE DiscardAll
  BY <1>1, <1>2, <1>3 DEF DiscardAll, Atomic!Discard
<1>4. ASSUME NEW edits \in Seq(Edit), edits # <<>>, Stage(edits)
      PROVE  Atomic!Stage
  <2>1. pending \in Seq(Edit) /\ pending' = pending \o edits
    BY <1>4 DEF Stage, TypeOK
  <2>2. Len(pending') > Len(pending)
    BY <1>4, <2>1
  <2>3. SubSeq(pending', 1, Len(pending)) = pending
    BY <2>1
  <2>. QED BY <1>1, <1>2, <2>2, <2>3 DEF Atomic!Stage
<1>. QED BY <1>1, <1>3, <1>4, StagedEdits

\* Without faults nobody writes while apply_all runs.
LEMMA OwnerOnlyWhenIdle ==
    ASSUME AInv, Faults = {}, NEW p \in Paths, NEW image \in Image, ExternalWrite(p, image)
    PROVE  /\ phase = "idle" /\ phase' = "idle" /\ Quiet'
           /\ Atomic!OwnerWrites
<1>1. /\ phase = "idle" /\ phase' = "idle" /\ Quiet' /\ pending' = pending
      /\ disk' = [disk EXCEPT ![p] = image] /\ external' = external + 1
  BY DEF ExternalWrite, AInv, Quiet
<1>2. LogicalDisk = disk /\ disk \in [Paths -> Image]
  BY <1>1, AbstractDisk DEF AInv, IInv, TypeOK
<1>3. LogicalDisk' = [LogicalDisk EXCEPT ![p] = image]
  BY <1>1, <1>2 DEF LogicalDisk
<1>4. Atomic!Image = Image
  BY DEF Atomic!Image, Image, Atomic!Text, Text
<1>. QED BY <1>1, <1>3, <1>4 DEF Atomic!OwnerWrites

\* The batch stays as fresh as the check found it.
LEMMA AtomicInvariant ==
    ASSUME AInv, Faults = {}, [Next]_vars
    PROVE  AInv' /\ [Atomic!Next]_(Atomic!vars)
<1>1. IInv'
  BY TypeStep, ProgressStep, ChainedStep, StillFreshStep, PrefixStep, ToRestoreStep
     DEF AInv, IInv
<1>. DEFINE Hidden == PassStaleCheck \/ SnapshotFails \/ TakeSnapshots \/ WriteNext
                      \/ WriteFails \/ UndoNext \/ UndoFails \/ RollbackDone
<1>2. CASE Hidden
  <2>1. LogicalDisk' = LogicalDisk /\ UNCHANGED <<pending, external>> /\ Quiet'
    BY <1>2, HiddenStep
  <2>2. BatchIsFresh'
    <3>1. CASE PassStaleCheck
      <4>1. LogicalDisk = disk
        BY <3>1, AbstractDisk DEF PassStaleCheck, AInv, IInv
      <4>. QED BY <2>1, <3>1, <4>1 DEF PassStaleCheck, BatchIsFresh
    <3>2. CASE phase' \in Active => phase \in Active
      BY <2>1, <3>2 DEF AInv, BatchIsFresh
    <3>3. PassStaleCheck \/ (phase' \in Active => phase \in Active)
      BY <1>2 DEF SnapshotFails, TakeSnapshots, WriteNext, WriteFails, UndoNext, UndoFails,
                  RollbackDone, Return, Active
    <3>. QED BY <3>1, <3>2, <3>3
  <2>. QED BY <1>1, <2>1, <2>2 DEF AInv, Atomic!vars
<1>3. CASE FinishApply
  <2>1. phase' = "idle" /\ Quiet'
    BY <1>3 DEF FinishApply, Return, Quiet
  <2>. QED BY <1>1, <1>3, <2>1, FinishCommits DEF AInv, BatchIsFresh, Active, Atomic!Next
<1>4. CASE Staging
  BY <1>1, <1>4, StagingStages DEF AInv, BatchIsFresh, Active, Atomic!Next
<1>5. ASSUME NEW p \in Paths, NEW image \in Image, ExternalWrite(p, image)
      PROVE  AInv' /\ [Atomic!Next]_(Atomic!vars)
  BY <1>1, <1>5, OwnerOnlyWhenIdle DEF AInv, BatchIsFresh, Active, Atomic!Next
<1>6. CASE RefuseStale \/ UNCHANGED vars
  <2>1. UNCHANGED <<disk, pending, phase, locals, external>>
    BY <1>6 DEF RefuseStale, vars
  <2>2. LogicalDisk' = LogicalDisk
    BY <2>1 DEF LogicalDisk, locals
  <2>. QED BY <1>1, <2>1, <2>2 DEF AInv, Quiet, BatchIsFresh, locals, Atomic!vars
<1>. QED BY <1>2, <1>3, <1>4, <1>5, <1>6 DEF Next, Applying

\* When no write is torn, no rollback fails and nobody writes while it runs,
\* apply_all is atomic: the workspace goes from what it was to what the reviewed
\* batch makes of it in one step, or stays.
THEOREM ApplyIsAtomic ==
    ASSUME Faults = {}
    PROVE  Spec => AtomicSpec
<1>1. Init => AInv /\ Atomic!Init
  <2>. SUFFICES ASSUME Init
                PROVE  AInv /\ Atomic!Init
    OBVIOUS
  <2>1. IInv /\ Quiet /\ BatchIsFresh
    BY InitHolds DEF Init, Quiet, BatchIsFresh, Active
  <2>2. LogicalDisk = disk
    BY <2>1, AbstractDisk DEF Init, IInv
  <2>3. Atomic!Image = Image
    BY DEF Atomic!Image, Image, Atomic!Text, Text
  <2>. QED BY <2>1, <2>2, <2>3 DEF AInv, Init, Atomic!Init
<1>2. AInv /\ [Next]_vars => AInv' /\ [Atomic!Next]_(Atomic!vars)
  BY AtomicInvariant
<1>. QED BY <1>1, <1>2, PTL DEF Spec, AtomicSpec, Atomic!Spec
=============================================================================
