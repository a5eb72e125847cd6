------------------------------ MODULE ChatProofs ------------------------------
(*****************************************************************************)
(* Theorems about what serves a chat, for any threads and settings:          *)
(*   the conversation   what is forgotten is only what was recorded while    *)
(*                      someone condensed, and a condensation shrinks it;    *)
(*   the router         roles with the same model share a client, and on the *)
(*                      device every role but vision is served;              *)
(*   the loaded models  one call at a time on an object that is not closed;  *)
(*   the session files  what a client was told is stored is there, once,     *)
(*                      through concurrent requests and crashes;             *)
(*   the completions    what is shown completes the text it is shown in      *)
(*                      unless something overtook it, and the cache is what  *)
(*                      was used last.                                       *)
(* They share no variable; the theorems of each are about its own            *)
(* specification.                                                            *)
(*****************************************************************************)
EXTENDS Conversation, FiniteSetTheorems, SequenceTheorems, TLAPS

-----------------------------------------------------------------------------
(* THE CONVERSATION                                                          *)

Turns == [role : Roles, of : SUBSET (Workers \X {"user", "agent"}), size : Sizes]
Labels == {"idle", "prompt", "ask", "again", "summarising", "emergency", "context",
           "raised", "error", "done"}

Typed ==
  /\ conversation \in Seq(Turns)
  /\ pc \in [Workers -> Labels]
  /\ snapshot \in [Workers -> Seq(Turns)]
  /\ retries \in [Runs -> 0 .. MaxRetries]
  /\ raced \subseteq recorded

(* A run that condenses in an emergency has a retry to spend on it.         *)
RetryLeft == \A r \in Runs : pc[r] = "emergency" => retries[r] > 0

(* What a worker read to condense it holds all that may not be forgotten,   *)
(* is long enough, and opens as the conversation does.                     *)
SnapshotServes ==
  \A w \in Condensing :
    /\ CanCondense(snapshot[w])
    /\ recorded \ raced \subseteq Covered(snapshot[w])
    /\ Len(conversation) >= KeepHead
    /\ \A i \in 1 .. KeepHead : conversation[i] = snapshot[w][i]

IInv == Typed /\ RetryLeft /\ SnapshotServes /\ NothingForgotten

-----------------------------------------------------------------------------
(* The turns.                                                               *)

(* A turn is added at the end and covers what it says.                      *)
LEMMA Longer ==
  ASSUME NEW turns \in Seq(Turns), NEW t \in Turns
  PROVE  /\ Append(turns, t) \in Seq(Turns)
         /\ Len(Append(turns, t)) = Len(turns) + 1 /\ Len(turns) \in Nat
         /\ \A i \in 1 .. Len(turns) : Append(turns, t)[i] = turns[i]
         /\ Covered(turns) \union t.of \subseteq Covered(Append(turns, t))
<1> DEFINE n == Len(turns)
           more == Append(turns, t)
<1>1. /\ more \in Seq(Turns) /\ Len(more) = n + 1 /\ n \in Nat
      /\ \A i \in 1 .. n : more[i] = turns[i]
      /\ more[n + 1] = t
  BY AppendProperties, LenProperties
<1>2. \A i \in 1 .. n : i \in 1 .. Len(more)
  BY <1>1
<1>3. n + 1 \in 1 .. Len(more)
  BY <1>1
<1> HIDE DEF more
<1>4. Covered(turns) \subseteq Covered(more)
  BY <1>1, <1>2 DEF Covered
<1>5. t.of \subseteq Covered(more)
  BY <1>1, <1>3 DEF Covered
<1> QED
  BY <1>1, <1>4, <1>5 DEF more

(* A condensed conversation is as long as its head, its tail and a summary, *)
(* keeps the head as it is, and covers all that the turns covered.         *)
LEMMA CondensedParts ==
  ASSUME KeepHead \in Nat, KeepTail \in Nat, NEW size \in Sizes,
         NEW turns \in Seq(Turns), CanCondense(turns)
  PROVE  /\ Condensed(turns, size) \in Seq(Turns)
         /\ Len(Condensed(turns, size)) = KeepHead + 1 + KeepTail
         /\ \A i \in 1 .. KeepHead : Condensed(turns, size)[i] = turns[i]
         /\ Covered(turns) \subseteq Covered(Condensed(turns, size))
<1> DEFINE n == Len(turns)
           head == SubSeq(turns, 1, KeepHead)
           middle == SubSeq(turns, KeepHead + 1, n - KeepTail)
           tail == SubSeq(turns, n - KeepTail + 1, n)
           summary == Summary(middle, size)
<1>1. n \in Nat /\ n > KeepHead + KeepTail + 1
  BY LenProperties DEF CanCondense
<1>2. \A i \in 1 .. n : turns[i] \in Turns
  BY ElementOfSeq
<1>3. head \in Seq(Turns) /\ Len(head) = KeepHead /\ \A i \in 1 .. KeepHead : head[i] = turns[i]
  <2>1. \A i \in 1 .. KeepHead : turns[i] \in Turns
    BY <1>1, <1>2
  <2>2. /\ head \in Seq(Turns) /\ Len(head) = IF 1 <= KeepHead THEN KeepHead - 1 + 1 ELSE 0
        /\ \A i \in 1 .. KeepHead - 1 + 1 : head[i] = turns[1 + i - 1]
    BY <2>1, SubSeqProperties
  <2> HIDE DEF head
  <2> QED
    BY <2>2
<1>4. /\ middle \in Seq(Turns) /\ Len(middle) = n - KeepTail - KeepHead
      /\ \A i \in 1 .. n - KeepTail - KeepHead : middle[i] = turns[KeepHead + i]
  <2>1. \A i \in KeepHead + 1 .. n - KeepTail : turns[i] \in Turns
    BY <1>1, <1>2
  <2>2. /\ middle \in Seq(Turns)
        /\ Len(middle) = IF KeepHead + 1 <= n - KeepTail
                         THEN (n - KeepTail) - (KeepHead + 1) + 1 ELSE 0
        /\ \A i \in 1 .. (n - KeepTail) - (KeepHead + 1) + 1 :
             middle[i] = turns[(KeepHead + 1) + i - 1]
    BY <1>1, <2>1, SubSeqProperties
  <2> HIDE DEF middle
  <2> QED
    BY <1>1, <2>2
<1>5. /\ tail \in Seq(Turns) /\ Len(tail) = KeepTail
      /\ \A i \in 1 .. KeepTail : tail[i] = turns[n - KeepTail + i]
  <2>1. \A i \in n - KeepTail + 1 .. n : turns[i] \in Turns
    BY <1>1, <1>2
  <2>2. /\ tail \in Seq(Turns)
        /\ Len(tail) = IF n - KeepTail + 1 <= n THEN n - (n - KeepTail + 1) + 1 ELSE 0
        /\ \A i \in 1 .. n - (n - KeepTail + 1) + 1 : tail[i] = turns[(n - KeepTail + 1) + i - 1]
    BY <1>1, <2>1, SubSeqProperties
  <2> HIDE DEF tail
  <2> QED
    BY <1>1, <2>2
<1> HIDE DEF head, middle, tail
<1>6. summary \in Turns /\ summary.of = Covered(middle)
  <2>1. \A i \in 1 .. Len(middle) : middle[i] \in Turns
    BY <1>4, ElementOfSeq
  <2>2. Covered(middle) \subseteq Workers \X {"user", "agent"}
    BY <2>1 DEF Covered, Turns
  <2> QED
    BY <2>2 DEF Summary, Covered, Turns, Roles
<1> HIDE DEF summary
<1>7. <<summary>> \in Seq(Turns) /\ Len(<<summary>>) = 1 /\ <<summary>>[1] = summary
  BY <1>6
<1> DEFINE front == head \o <<summary>>
           all == front \o tail
<1>8. /\ front \in Seq(Turns) /\ Len(front) = KeepHead + 1
      /\ \A i \in 1 .. KeepHead + 1 : front[i] = IF i <= KeepHead THEN turns[i] ELSE summary
  <2>1. /\ front \in Seq(Turns) /\ Len(front) = Len(head) + Len(<<summary>>)
        /\ \A i \in 1 .. Len(head) + Len(<<summary>>) :
             front[i] = IF i <= Len(head) THEN head[i] ELSE <<summary>>[i - Len(head)]
    BY <1>3, <1>7, ConcatProperties
  <2> HIDE DEF front
  <2>2. Len(front) = KeepHead + 1
    BY <1>3, <1>7, <2>1
  <2>3. ASSUME NEW i \in 1 .. KeepHead + 1
        PROVE  front[i] = IF i <= KeepHead THEN turns[i] ELSE summary
    <3>1. front[i] = IF i <= KeepHead THEN head[i] ELSE <<summary>>[i - KeepHead]
      BY <1>3, <1>7, <2>1
    <3>2. CASE i <= KeepHead
      BY <1>3, <3>1, <3>2
    <3>3. CASE ~(i <= KeepHead)
      <4>1. i - KeepHead = 1
        BY <3>3
      <4> QED
        BY <1>7, <3>1, <3>3, <4>1
    <3> QED
      BY <3>2, <3>3
  <2> QED
    BY <2>1, <2>2, <2>3
<1> HIDE DEF front
<1>9. /\ all \in Seq(Turns) /\ Len(all) = KeepHead + 1 + KeepTail
      /\ \A i \in 1 .. KeepHead : all[i] = turns[i]
      /\ all[KeepHead + 1] = summary
      /\ \A i \in 1 .. KeepTail : all[KeepHead + 1 + i] = turns[n - KeepTail + i]
  <2>1. /\ all \in Seq(Turns) /\ Len(all) = Len(front) + Len(tail)
        /\ \A i \in 1 .. Len(front) + Len(tail) :
             all[i] = IF i <= Len(front) THEN front[i] ELSE tail[i - Len(front)]
    BY <1>5, <1>8, ConcatProperties
  <2> HIDE DEF all
  <2>2. Len(all) = KeepHead + 1 + KeepTail
    BY <1>5, <1>8, <2>1
  <2>3. ASSUME NEW i \in 1 .. KeepHead PROVE all[i] = turns[i]
    <3>1. i \in 1 .. KeepHead + 1 /\ i \in 1 .. KeepHead + 1 + KeepTail /\ i <= KeepHead
      OBVIOUS
    <3>2. front[i] = turns[i]
      BY <1>8, <3>1
    <3>3. all[i] = front[i]
      BY <1>5, <1>8, <2>1, <3>1
    <3> QED
      BY <3>2, <3>3
  <2>4. all[KeepHead + 1] = summary
    BY <1>5, <1>8, <2>1
  <2>5. ASSUME NEW i \in 1 .. KeepTail
        PROVE  all[KeepHead + 1 + i] = turns[n - KeepTail + i]
    <3>1. /\ KeepHead + 1 + i \in 1 .. KeepHead + 1 + KeepTail
          /\ ~(KeepHead + 1 + i <= KeepHead + 1)
          /\ (KeepHead + 1 + i) - (KeepHead + 1) = i
      OBVIOUS
    <3>2. all[KeepHead + 1 + i] = tail[i]
      BY <1>5, <1>8, <2>1, <3>1
    <3> QED
      BY <1>5, <3>2
  <2> QED
    BY <2>1, <2>2, <2>3, <2>4, <2>5
<1> HIDE DEF all
<1>10. Covered(turns) \subseteq Covered(all)
  <2> SUFFICES ASSUME NEW i \in 1 .. n PROVE turns[i].of \subseteq Covered(all)
    BY DEF Covered
  <2>1. CASE i <= KeepHead
    <3>1. i \in 1 .. Len(all) /\ all[i] = turns[i]
      BY <1>1, <1>9, <2>1
    <3> QED
      BY <3>1 DEF Covered
  <2>2. CASE KeepHead < i /\ i <= n - KeepTail
    <3>1. i - KeepHead \in 1 .. Len(middle) /\ middle[i - KeepHead] = turns[i]
      <4>1. /\ i - KeepHead \in 1 .. n - KeepTail - KeepHead
            /\ KeepHead + (i - KeepHead) = i
        BY <1>1, <2>2
      <4> QED
        BY <1>4, <4>1
    <3>2. turns[i].of \subseteq summary.of
      BY <1>6, <3>1 DEF Covered
    <3>3. KeepHead + 1 \in 1 .. Len(all)
      BY <1>9
    <3> QED
      BY <1>9, <3>2, <3>3 DEF Covered
  <2>3. CASE i > n - KeepTail
    <3> DEFINE k == i - (n - KeepTail)
    <3>1. k \in 1 .. KeepTail /\ n - KeepTail + k = i /\ k \in Int
      BY <1>1, <2>3
    <3> HIDE DEF k
    <3>2. KeepHead + 1 + k \in 1 .. Len(all)
      BY <1>9, <3>1
    <3>3. all[KeepHead + 1 + k] = turns[i]
      BY <1>9, <3>1
    <3> QED
      BY <3>2, <3>3 DEF Covered
  <2> QED
    BY <1>1, <2>1, <2>2, <2>3
<1>11. all = Condensed(turns, size)
  BY DEF all, front, head, middle, tail, summary, Condensed
<1> QED
  BY <1>9, <1>10, <1>11

-----------------------------------------------------------------------------
(* The invariant holds, step by step.                                       *)

Busy == {"summarising", "emergency", "context"}

LEMMA Frame ==
  ASSUME Typed, NEW w \in Workers, NEW next \in Labels, Go(w, next)
  PROVE  /\ pc' \in [Workers -> Labels] /\ pc'[w] = next
         /\ \A v \in Workers \ {w} : pc'[v] = pc[v]
  BY DEF Typed, Go

(* A worker goes on, and nothing else changes.                              *)
LEMMA PlainStep ==
  ASSUME IInv, NEW w \in Workers, NEW next \in Labels \ Busy, Go(w, next),
         UNCHANGED <<conversation, snapshot, retries, recorded, raced>>
  PROVE  IInv'
<1>1. /\ pc' \in [Workers -> Labels] /\ pc'[w] = next
      /\ \A v \in Workers \ {w} : pc'[v] = pc[v]
  BY Frame DEF IInv
<1>2. Typed'
  BY <1>1 DEF IInv, Typed
<1>3. RetryLeft'
  BY <1>1 DEF IInv, RetryLeft, Busy, Workers
<1>4. Condensing' \subseteq Condensing
  BY <1>1 DEF Condensing, Busy
<1>5. SnapshotServes' /\ NothingForgotten'
  BY <1>4 DEF IInv, SnapshotServes, NothingForgotten
<1> QED
  BY <1>2, <1>3, <1>5 DEF IInv

(* A worker reads the conversation to condense it.                          *)
LEMMA StartStep ==
  ASSUME IInv, KeepHead \in Nat, KeepTail \in Nat, NEW w \in Workers, NEW where \in Busy,
         CanCondense(conversation), StartCondensing(w, where),
         w \in Runs /\ where = "emergency" => retries[w] > 0
  PROVE  IInv'
<1>1. /\ pc' \in [Workers -> Labels] /\ pc'[w] = where
      /\ \A v \in Workers \ {w} : pc'[v] = pc[v]
  BY Frame DEF IInv, StartCondensing, Busy, Labels
<1>2. /\ snapshot' = [snapshot EXCEPT ![w] = conversation]
      /\ UNCHANGED <<conversation, retries, recorded, raced>>
      /\ snapshot \in [Workers -> Seq(Turns)] /\ conversation \in Seq(Turns)
  BY DEF StartCondensing, IInv, Typed
<1>3. Typed'
  BY <1>1, <1>2 DEF IInv, Typed
<1>4. RetryLeft'
  BY <1>1, <1>2 DEF IInv, RetryLeft, Workers
<1>5. SnapshotServes'
  <2> SUFFICES ASSUME NEW v \in Condensing'
               PROVE  /\ CanCondense(snapshot'[v])
                      /\ recorded \ raced \subseteq Covered(snapshot'[v])
                      /\ Len(conversation) >= KeepHead
                      /\ \A i \in 1 .. KeepHead : conversation[i] = snapshot'[v][i]
    BY <1>2 DEF SnapshotServes, CanCondense
  <2>1. CASE v = w
    <3>1. snapshot'[v] = conversation /\ Len(conversation) \in Nat
      BY <1>2, <2>1, LenProperties
    <3> QED
      BY <3>1 DEF IInv, NothingForgotten, CanCondense
  <2>2. CASE v # w
    <3>1. v \in Condensing /\ snapshot'[v] = snapshot[v]
      BY <1>1, <1>2, <2>2 DEF Condensing
    <3> QED
      BY <3>1 DEF IInv, SnapshotServes
  <2> QED
    BY <2>1, <2>2
<1>6. NothingForgotten'
  BY <1>2 DEF IInv, NothingForgotten
<1> QED
  BY <1>3, <1>4, <1>5, <1>6 DEF IInv

(* A turn is recorded: it joins what others will overwrite, if anybody      *)
(* condenses, and the conversation stays open at its end only.             *)
LEMMA RecordStep ==
  ASSUME IInv, KeepHead \in Nat, NEW w \in Workers, NEW next \in Labels \ Busy, Go(w, next),
         NEW role \in {"user", "agent"}, NEW size \in Sizes, RecordTurn(role, w, size),
         UNCHANGED <<snapshot, retries>>
  PROVE  IInv'
<1> DEFINE t == Turn(role, w, size)
<1>1. /\ pc' \in [Workers -> Labels] /\ pc'[w] = next
      /\ \A v \in Workers \ {w} : pc'[v] = pc[v]
  BY Frame DEF IInv
<1>2. t \in Turns /\ t.of = {<<w, role>>}
  BY DEF Turn, Turns, Roles
<1>3. /\ conversation' = Append(conversation, t)
      /\ recorded' = recorded \union {<<w, role>>}
      /\ raced' = IF Condensing # {} THEN raced \union {<<w, role>>} ELSE raced
      /\ conversation \in Seq(Turns)
  BY DEF RecordTurn, IInv, Typed
<1> HIDE DEF t
<1>4. /\ conversation' \in Seq(Turns)
      /\ Len(conversation') = Len(conversation) + 1 /\ Len(conversation) \in Nat
      /\ \A i \in 1 .. Len(conversation) : conversation'[i] = conversation[i]
      /\ Covered(conversation) \union {<<w, role>>} \subseteq Covered(conversation')
  BY <1>2, <1>3, Longer
<1>5. Typed'
  BY <1>1, <1>3, <1>4 DEF IInv, Typed
<1>6. RetryLeft'
  BY <1>1 DEF IInv, RetryLeft, Busy, Workers
<1>7. Condensing' \subseteq Condensing
  BY <1>1 DEF Condensing, Busy
<1>8. Condensing # {} => recorded' \ raced' \subseteq recorded \ raced
  BY <1>3
<1>9. SnapshotServes'
  <2> SUFFICES ASSUME NEW v \in Condensing'
               PROVE  /\ CanCondense(snapshot[v])
                      /\ recorded' \ raced' \subseteq Covered(snapshot[v])
                      /\ Len(conversation') >= KeepHead
                      /\ \A i \in 1 .. KeepHead : conversation'[i] = snapshot[v][i]
    BY DEF SnapshotServes
  <2>1. /\ CanCondense(snapshot[v])
        /\ recorded \ raced \subseteq Covered(snapshot[v])
        /\ Len(conversation) >= KeepHead
        /\ \A i \in 1 .. KeepHead : conversation[i] = snapshot[v][i]
    BY <1>7 DEF IInv, SnapshotServes
  <2>2. recorded' \ raced' \subseteq recorded \ raced
    BY <1>7, <1>8
  <2>3. \A i \in 1 .. KeepHead : i \in 1 .. Len(conversation)
    BY <1>4, <2>1
  <2> QED
    BY <1>4, <2>1, <2>2, <2>3
<1>10. NothingForgotten'
  BY <1>3, <1>4 DEF IInv, NothingForgotten
<1> QED
  BY <1>5, <1>6, <1>9, <1>10 DEF IInv

(* What the summary leaves of the conversation.                             *)
LEMMA SummaryWritten ==
  ASSUME IInv, KeepHead \in Nat, KeepTail \in Nat, NEW w \in Workers, WriteSummary(w)
  PROVE  /\ conversation' \in Seq(Turns)
         /\ Len(conversation') = KeepHead + 1 + KeepTail
         /\ \A i \in 1 .. KeepHead : conversation'[i] = snapshot[w][i]
         /\ Covered(snapshot[w]) \subseteq Covered(conversation')
         /\ CanCondense(snapshot[w]) /\ Len(snapshot[w]) \in Nat
<1>1. PICK size \in Sizes : conversation' = Condensed(snapshot[w], size)
  BY DEF WriteSummary
<1>2. w \in Condensing /\ snapshot[w] \in Seq(Turns)
  BY DEF WriteSummary, IInv, Typed
<1>3. CanCondense(snapshot[w])
  BY <1>2 DEF IInv, SnapshotServes
<1> QED
  BY <1>1, <1>2, <1>3, CondensedParts, LenProperties

LEMMA SummaryStep ==
  ASSUME IInv, KeepHead \in Nat, KeepTail \in Nat, MaxRetries \in Nat,
         NEW w \in Workers, WriteSummary(w)
  PROVE  IInv'
<1>1. /\ w \in Condensing
      /\ snapshot' = [snapshot EXCEPT ![w] = <<>>]
      /\ retries' = [r \in Runs |-> IF r = w /\ pc[w] = "emergency"
                                    THEN retries[r] - 1 ELSE retries[r]]
      /\ UNCHANGED <<recorded, raced>>
  BY DEF WriteSummary
<1>2. PICK next \in Labels \ Busy : Go(w, next)
  BY DEF WriteSummary, Labels, Busy
<1>3. /\ pc' \in [Workers -> Labels] /\ pc'[w] = next
      /\ \A v \in Workers \ {w} : pc'[v] = pc[v]
  BY <1>2, Frame DEF IInv
<1>4. /\ conversation' \in Seq(Turns) /\ Len(conversation') = KeepHead + 1 + KeepTail
      /\ \A i \in 1 .. KeepHead : conversation'[i] = snapshot[w][i]
      /\ Covered(snapshot[w]) \subseteq Covered(conversation')
  BY SummaryWritten
<1>5. retries' \in [Runs -> 0 .. MaxRetries]
  <2>1. \A r \in Runs : retries[r] \in 0 .. MaxRetries
    BY DEF IInv, Typed
  <2>2. \A r \in Runs : pc[r] = "emergency" => retries[r] > 0
    BY DEF IInv, RetryLeft
  <2> QED
    BY <1>1, <2>1, <2>2
<1>6. Typed'
  <2>1. snapshot' \in [Workers -> Seq(Turns)]
    BY <1>1, EmptySeq DEF IInv, Typed
  <2> QED
    BY <1>1, <1>3, <1>4, <1>5, <2>1 DEF IInv, Typed
<1>7. RetryLeft'
  BY <1>1, <1>3 DEF IInv, RetryLeft, Busy, Workers
<1>8. \A v \in Condensing' : v \in Condensing /\ snapshot'[v] = snapshot[v]
  BY <1>1, <1>3 DEF Condensing, Busy, IInv, Typed
<1>9. SnapshotServes'
  <2> SUFFICES ASSUME NEW v \in Condensing'
               PROVE  /\ CanCondense(snapshot[v])
                      /\ recorded \ raced \subseteq Covered(snapshot[v])
                      /\ Len(conversation') >= KeepHead
                      /\ \A i \in 1 .. KeepHead : conversation'[i] = snapshot[v][i]
    BY <1>1, <1>8 DEF SnapshotServes
  <2>1. \A i \in 1 .. KeepHead : snapshot[v][i] = conversation[i] /\ snapshot[w][i] = conversation[i]
    BY <1>1, <1>8 DEF IInv, SnapshotServes
  <2> QED
    BY <1>4, <1>8, <2>1 DEF IInv, SnapshotServes
<1>10. NothingForgotten'
  BY <1>1, <1>4 DEF IInv, SnapshotServes, NothingForgotten
<1> QED
  BY <1>6, <1>7, <1>9, <1>10 DEF IInv

LEMMA InitHolds == MaxRetries \in Nat /\ Init => IInv
<1> SUFFICES ASSUME MaxRetries \in Nat, Init PROVE IInv
  OBVIOUS
<1>1. Typed
  BY EmptySeq DEF Init, Typed, Labels
<1>2. Condensing = {} /\ RetryLeft
  BY DEF Init, Condensing, RetryLeft, Workers
<1>3. SnapshotServes /\ NothingForgotten
  BY <1>2 DEF Init, SnapshotServes, NothingForgotten
<1> QED
  BY <1>1, <1>2, <1>3 DEF IInv

LEMMA NextHolds ==
  ASSUME KeepHead \in Nat, KeepTail \in Nat, MaxRetries \in Nat, IInv, [Next]_vars
  PROVE  IInv'
<1>1. CASE UNCHANGED vars
  BY <1>1 DEF vars, IInv, Typed, RetryLeft, SnapshotServes, NothingForgotten, Condensing,
              CanCondense
<1>2. ASSUME NEW w \in Workers, Step(w) PROVE IInv'
  <2>1. CASE NothingToCondense(w) \/ CannotCondense(w) \/ Fails(w)
    <3>1. PICK next \in Labels \ Busy : Go(w, next)
      BY <2>1 DEF NothingToCondense, CannotCondense, Fails, Labels, Busy
    <3>2. UNCHANGED <<conversation, snapshot, retries, recorded, raced>>
      BY <2>1 DEF NothingToCondense, CannotCondense, Fails
    <3> QED
      BY <3>1, <3>2, PlainStep
  <2>2. CASE MaybeCondense(w)
    BY <2>2, StartStep DEF MaybeCondense, Busy
  <2>3. CASE BuildContext(w)
    BY <2>3, StartStep DEF BuildContext, Busy
  <2>4. CASE ContextTooLong(w)
    BY <2>4, StartStep DEF ContextTooLong, Busy
  <2>5. CASE WriteSummary(w)
    BY <2>5, SummaryStep
  <2>6. CASE Prompt(w)
    <3>1. PICK size \in Sizes : RecordTurn("user", w, size)
      BY <2>6 DEF Prompt
    <3>2. Go(w, "ask") /\ UNCHANGED <<snapshot, retries>> /\ "ask" \in Labels \ Busy
      BY <2>6 DEF Prompt, Labels, Busy
    <3> QED
      BY <3>1, <3>2, RecordStep
  <2>7. CASE Answer(w)
    <3>1. PICK size \in Sizes : RecordTurn("agent", w, size)
      BY <2>7 DEF Answer
    <3>2. Go(w, "done") /\ UNCHANGED <<snapshot, retries>> /\ "done" \in Labels \ Busy
      BY <2>7 DEF Answer, Labels, Busy
    <3> QED
      BY <3>1, <3>2, RecordStep
  <2> QED
    BY <1>2, <2>1, <2>2, <2>3, <2>4, <2>5, <2>6, <2>7 DEF Step
<1> QED
  BY <1>1, <1>2 DEF Next

-----------------------------------------------------------------------------
(* The results.                                                             *)

(* The invariant that carries the others: what a condensing worker read     *)
(* still holds all that may not be forgotten.                              *)
THEOREM Inductive ==
  ASSUME KeepHead \in Nat, KeepTail \in Nat, MaxRetries \in Nat
  PROVE  Spec => []IInv
  BY InitHolds, NextHolds, PTL DEF Spec

(* A recorded turn leaves the conversation only into a summary that stands  *)
(* for it, unless it was recorded while someone condensed.                 *)
THEOREM Remembered ==
  ASSUME KeepHead \in Nat, KeepTail \in Nat, MaxRetries \in Nat
  PROVE  Spec => []NothingForgotten
<1>1. IInv => NothingForgotten
  BY DEF IInv
<1> QED
  BY <1>1, Inductive, PTL

(* A condensation leaves fewer turns than it read, none to condense, and    *)
(* the opening turns as they are.                                          *)
THEOREM Shrinking ==
  ASSUME KeepHead \in Nat, KeepTail \in Nat, MaxRetries \in Nat
  PROVE  Spec => CondensingShrinks
<1>1. IInv /\ [Next]_vars =>
        [\A w \in Condensing :
           pc'[w] # pc[w] =>
             /\ Len(conversation') < Len(snapshot[w])
             /\ ~CanCondense(conversation')
             /\ SubSeq(conversation', 1, KeepHead) = SubSeq(conversation, 1, KeepHead)]_vars
  <2> SUFFICES ASSUME IInv, Next, NEW w \in Condensing, pc'[w] # pc[w]
               PROVE  /\ Len(conversation') < Len(snapshot[w])
                      /\ ~CanCondense(conversation')
                      /\ SubSeq(conversation', 1, KeepHead) = SubSeq(conversation, 1, KeepHead)
    OBVIOUS
  <2>1. PICK v \in Workers : Step(v)
    BY DEF Next
  <2>2. \E next : Go(v, next)
    BY <2>1 DEF Step, NothingToCondense, MaybeCondense, CannotCondense, WriteSummary, Prompt,
                BuildContext, Answer, ContextTooLong, Fails, StartCondensing
  <2>3. v = w /\ w \in Workers /\ pc[w] \in Busy
    BY <2>2 DEF IInv, Typed, Go, Condensing, Busy
  <2>4. WriteSummary(w)
    BY <2>1, <2>3 DEF Step, NothingToCondense, MaybeCondense, CannotCondense, Prompt,
                      BuildContext, Answer, ContextTooLong, Fails, Busy
  <2>5. /\ conversation' \in Seq(Turns) /\ Len(conversation') = KeepHead + 1 + KeepTail
        /\ \A i \in 1 .. KeepHead : conversation'[i] = snapshot[w][i]
        /\ CanCondense(snapshot[w]) /\ Len(snapshot[w]) \in Nat
    BY <2>3, <2>4, SummaryWritten
  <2>6. Len(conversation') < Len(snapshot[w]) /\ ~CanCondense(conversation')
    BY <2>5 DEF CanCondense
  <2>7. SubSeq(conversation', 1, KeepHead) = SubSeq(conversation, 1, KeepHead)
    <3>1. conversation \in Seq(Turns) /\ Len(conversation) >= KeepHead /\ Len(conversation) \in Nat
      BY LenProperties DEF IInv, Typed, SnapshotServes
    <3>2. \A i \in 1 .. KeepHead : conversation'[i] = conversation[i] /\ conversation[i] \in Turns
      <4>1. \A i \in 1 .. KeepHead : conversation[i] = snapshot[w][i]
        BY DEF IInv, SnapshotServes
      <4>2. \A i \in 1 .. KeepHead : i \in 1 .. Len(conversation)
        BY <3>1
      <4> QED
        BY <2>5, <3>1, <4>1, <4>2, ElementOfSeq
    <3> DEFINE a == SubSeq(conversation', 1, KeepHead)
               b == SubSeq(conversation, 1, KeepHead)
    <3>3. /\ a \in Seq(Turns) /\ Len(a) = IF 1 <= KeepHead THEN KeepHead - 1 + 1 ELSE 0
          /\ \A i \in 1 .. KeepHead - 1 + 1 : a[i] = conversation'[1 + i - 1]
      BY <3>2, SubSeqProperties
    <3>4. /\ b \in Seq(Turns) /\ Len(b) = IF 1 <= KeepHead THEN KeepHead - 1 + 1 ELSE 0
          /\ \A i \in 1 .. KeepHead - 1 + 1 : b[i] = conversation[1 + i - 1]
      BY <3>2, SubSeqProperties
    <3> HIDE DEF a, b
    <3>5. Len(a) = Len(b) /\ \A i \in 1 .. Len(a) : a[i] = b[i]
      BY <3>2, <3>3, <3>4
    <3>6. a = b
      BY <3>3, <3>4, <3>5, SeqEqual
    <3> QED
      BY <3>6 DEF a, b
  <2> QED
    BY <2>6, <2>7
<1> QED
  BY <1>1, Inductive, PTL DEF Spec, CondensingShrinks

(* Turns, phases and retries stay what they are; only what was recorded can *)
(* have been recorded while someone condensed.                             *)
THEOREM TypeCorrect ==
  ASSUME KeepHead \in Nat, KeepTail \in Nat, MaxRetries \in Nat
  PROVE  Spec => []TypeOK
<1>1. ASSUME IInv PROVE TypeOK
  <2>1. \A i \in 1 .. Len(conversation) : conversation[i] \in Turns
    BY <1>1, ElementOfSeq DEF IInv, Typed
  <2> QED
    BY <1>1, <2>1 DEF IInv, Typed, TypeOK, Turns, Labels
<1> QED
  BY <1>1, Inductive, PTL

-----------------------------------------------------------------------------
(* THE ROUTER                                                                *)

CONSTANTS Configurations, MaxAsked
VARIABLES cfg, clients, made, raised, asked

Router == INSTANCE ModelRouting WITH calls <- asked, MaxCalls <- MaxAsked

Identities == {Router!Identity(r, provider) : r \in Router!Roles, provider \in Router!Providers}

(* Clients are filed under one identity each, and served from there; on the   *)
(* device, a role only fails that must not be served by another model.       *)
RouterInv ==
  /\ cfg \in Router!Configuration
  /\ made \in Seq(Identities)
  /\ \A c, d \in DOMAIN made : made[c] = made[d] => c = d
  /\ DOMAIN clients \subseteq Router!Roles
  /\ \A r \in DOMAIN clients : clients[r] \in DOMAIN made
  /\ raised \subseteq Router!Roles
  /\ cfg.fallback /\ ~cfg.gateway => raised \subseteq {"vision"}
  /\ asked \in 0 .. MaxAsked
  /\ Len(made) <= asked

RouterBounds == Configurations \subseteq Router!Configuration /\ MaxAsked \in Nat
-----------------------------------------------------------------------------
LEMMA Effective ==
  ASSUME cfg \in Router!Configuration, NEW r \in Router!Roles
  PROVE  Router!EffectiveProvider(r) \in Router!Providers
BY DEF Router!Configuration, Router!EffectiveProvider, Router!ExplicitProvider,
   Router!ProfileProvider, Router!GoesByGlobal, Router!Roles,
       Router!Providers, Router!Unset

(* The settings stay, and what a role and a provider are filed under.         *)
LEMMA Identifies == ASSUME cfg' = cfg PROVE Identities' = Identities
<1>1. ASSUME NEW r, NEW provider PROVE Router!Identity(r, provider)' = Router!Identity(r, provider)
  BY DEF Router!Identity, Router!OverrideModel, Router!PlanModel, Router!ChatModel,
  Router!LocalModelFile, Router!IsLocalPearl
<1> QED
  BY <1>1 DEF Identities

LEMMA FileStep ==
  ASSUME RouterInv, NEW r \in Router!Roles, NEW provider \in Router!Providers,
         asked < MaxAsked, MaxAsked \in Nat,
         Router!FileOrBuild(r, provider), asked' = asked + 1, cfg' = cfg
  PROVE  RouterInv'
<1> DEFINE identity == Router!Identity(r, provider)
           n == Len(made)
<1>1. identity \in Identities /\ n \in Nat /\ DOMAIN made = 1 .. n
  BY LenProperties DEF RouterInv, Identities
<1>2. asked' \in 0 .. MaxAsked /\ n <= asked /\ asked \in Nat
  BY DEF RouterInv
<1>5. Identities' = Identities
  BY Identifies
<1> HIDE DEF identity
<1>3. CASE Router!Filed(identity) # {}
  <2>1. PICK c \in Router!Filed(identity) : Router!Serve(r, c) /\ made' = made /\ raised' = raised
    BY <1>3 DEF Router!FileOrBuild, identity
  <2>2. c \in DOMAIN made
    BY <2>1 DEF Router!Filed
  <2>3. /\ DOMAIN clients' \subseteq Router!Roles
        /\ \A x \in DOMAIN clients' : clients'[x] \in DOMAIN made
    BY <2>1, <2>2 DEF Router!Serve, RouterInv
  <2>4. Len(made') <= asked'
    BY <1>1, <1>2, <2>1
  <2> QED
    BY <1>2, <1>5, <2>1, <2>3, <2>4 DEF RouterInv
<1>4. CASE Router!Filed(identity) = {}
  <2>1. Router!Serve(r, n + 1) /\ made' = Append(made, identity) /\ raised' = raised
    BY <1>4 DEF Router!FileOrBuild, identity
  <2>2. /\ made' \in Seq(Identities) /\ Len(made') = n + 1 /\ DOMAIN made' = 1 .. n + 1
        /\ made'[n + 1] = identity /\ \A c \in 1 .. n : made'[c] = made[c]
    BY <1>1, <2>1, AppendProperties, LenProperties DEF RouterInv
  <2>3. 1 .. n + 1 = (1 .. n) \cup {n + 1} /\ n + 1 <= asked'
    BY <1>1, <1>2
  <2>4. /\ DOMAIN clients' \subseteq Router!Roles
        /\ \A x \in DOMAIN clients' : clients'[x] \in DOMAIN made'
    BY <1>1, <2>1, <2>2, <2>3 DEF Router!Serve, RouterInv
  <2>5. \A c \in 1 .. n : made[c] # identity
    BY <1>1, <1>4 DEF Router!Filed
  <2>6. \A c, d \in DOMAIN made' : made'[c] = made'[d] => c = d
    BY <1>1, <2>2, <2>3, <2>5 DEF RouterInv
  <2> QED
    BY <1>2, <1>5, <2>1, <2>2, <2>3, <2>4, <2>6 DEF RouterInv
<1> QED
  BY <1>3, <1>4

LEMMA RaiseStep ==
  ASSUME RouterInv, NEW r \in Router!Roles, asked < MaxAsked, MaxAsked \in Nat,
         cfg.fallback /\ ~cfg.gateway => r = "vision",
         Router!Raise(r), asked' = asked + 1, cfg' = cfg
  PROVE  RouterInv'
<1>1. asked' \in 0 .. MaxAsked /\ Len(made) <= asked'
  <2>1. Len(made) \in Nat /\ asked \in Nat /\ Len(made) <= asked
    BY LenProperties DEF RouterInv
  <2> QED
    BY <2>1
<1> QED
  BY <1>1, Identifies DEF RouterInv, Router!Raise

(* On the device the default model is always built, so a role that may fall    *)
(* back to it is served.                                                     *)
LEMMA ClientStep ==
  ASSUME RouterInv, NEW r \in Router!Roles, asked < MaxAsked, MaxAsked \in Nat,
         Router!ClientFor(r), asked' = asked + 1, cfg' = cfg
  PROVE  RouterInv'
<1> DEFINE provider == Router!EffectiveProvider(r)
<1>1. provider \in Router!Providers /\ "pearl" \in Router!Providers
  BY Effective DEF RouterInv, Router!Providers
<1> HIDE DEF provider
<1>2. CASE UNCHANGED <<clients, made, raised>>
  <2>1. Len(made) \in Nat /\ asked \in Nat /\ Len(made) <= asked
    BY LenProperties DEF RouterInv
  <2>2. asked' \in 0 .. MaxAsked /\ Len(made) <= asked'
    BY <2>1
  <2> QED
    BY <1>2, <2>2, Identifies DEF RouterInv
<1>3. CASE Router!FileOrBuild(r, provider) \/ Router!FileOrBuild(r, "pearl")
  BY <1>1, <1>3, FileStep
<1>4. ~cfg.gateway => FALSE \notin Router!Builds("pearl")
  BY DEF Router!Builds, Router!IsLocalPearl
<1>5. CASE Router!Raise(r) /\ FALSE \in Router!Builds("pearl")
  BY <1>4, <1>5, RaiseStep
<1>6. CASE Router!Raise(r) /\ FALSE \in Router!Builds(provider) /\ ~Router!MayFallBack(r, provider)
  <2>1. cfg.fallback /\ ~cfg.gateway => r = "vision"
    BY <1>4, <1>6 DEF Router!MayFallBack
  <2> QED
    BY <1>6, <2>1, RaiseStep
<1> QED
  BY <1>2, <1>3, <1>5, <1>6 DEF Router!ClientFor, provider

LEMMA RouterInit == ASSUME RouterBounds, Router!Init PROVE RouterInv
<1>1. cfg \in Router!Configuration
  BY DEF RouterBounds, Router!Init
<1>2. made = <<>> /\ raised = {} /\ asked = 0 /\ clients = [r \in {} |-> 0] /\ MaxAsked \in Nat
  BY DEF Router!Init, RouterBounds
<1>3. /\ DOMAIN clients = {} /\ made \in Seq(Identities) /\ DOMAIN made = {} /\ Len(made) = 0
      /\ 0 \in 0 .. MaxAsked
  BY <1>2
<1> QED
  BY <1>1, <1>2, <1>3 DEF RouterInv

LEMMA RouterNext == ASSUME RouterBounds, RouterInv, [Router!Next]_(Router!vars) PROVE RouterInv'
<1>1. CASE UNCHANGED Router!vars
  BY <1>1, Identifies DEF Router!vars, RouterInv
<1>2. ASSUME NEW r \in Router!Roles, Router!Ask(r) PROVE RouterInv'
  <2>1. Router!Asks(r) \in Router!Roles
    BY DEF Router!Asks, Router!Roles
  <2> QED
    BY <1>2, <2>1, ClientStep DEF Router!Ask, RouterBounds
<1> QED
  BY <1>1, <1>2 DEF Router!Next

LEMMA Sound == ASSUME RouterInv PROVE Router!RoutesAreSound
<1>1. ASSUME Router!AllSameProvider
      PROVE  Router!Identity("planning", Router!EffectiveProvider("planning")) =
             Router!Identity("chat", Router!EffectiveProvider("chat"))
  <2> DEFINE provider == Router!EffectiveProvider("chat")
  <2>1. /\ Router!EffectiveProvider("planning") = provider
        /\ cfg.model["planning"] = Router!Unset /\ cfg.model["chat"] = Router!Unset
        /\ provider = "pearl" => ~cfg.tiers
    BY <1>1 DEF Router!AllSameProvider
  <2> HIDE DEF provider
  <2>2. Router!OverrideModel(provider, "planning") = Router!OverrideModel(provider, "chat")
    BY <2>1 DEF Router!OverrideModel, Router!PlanModel
  <2>3. Router!LocalModelFile(provider, "planning") = Router!LocalModelFile(provider, "chat")
    BY DEF Router!LocalModelFile
  <2> QED
    BY <2>1, <2>2, <2>3 DEF Router!Identity, provider
<1> QED
  BY <1>1 DEF RouterInv, Router!RoutesAreSound

LEMMA RouterTypes == ASSUME RouterInv PROVE Router!TypeOK
BY DEF RouterInv, Router!TypeOK

(* A client is filed under one identity, whichever roles failed before.      *)
THEOREM RouterInductive == ASSUME RouterBounds PROVE Router!Spec => []RouterInv
<1>1. Router!Init => RouterInv
  BY RouterInit
<1>2. RouterInv /\ [Router!Next]_(Router!vars) => RouterInv'
  BY RouterNext
<1> QED
  BY <1>1, <1>2, PTL DEF Router!Spec

(* Roles that come to the same model share a client, and where one client      *)
(* serves planning and chat, the router agrees.                             *)
THEOREM Routes == ASSUME RouterBounds PROVE Router!Spec => []Router!RoutesAreSound
<1>1. Router!Spec => []RouterInv
  BY RouterInductive
<1>2. RouterInv => Router!RoutesAreSound
  BY Sound
<1> QED
  BY <1>1, <1>2, PTL

(* Every role is served by a client that was made for it.                    *)
THEOREM RouterTypeCorrect == ASSUME RouterBounds PROVE Router!Spec => []Router!TypeOK
<1>1. RouterInv => Router!TypeOK
  BY RouterTypes
<1> QED
  BY <1>1, RouterInductive, PTL

-----------------------------------------------------------------------------
(* THE LOADED MODELS                                                         *)

CONSTANTS Callers, Keys, Cap, MaxCalls, None
VARIABLES cache, locks, modelsOwner, loaded, closed, modelsPc, call, calls

Loaded == INSTANCE LocalModels WITH pc <- modelsPc, owner <- modelsOwner,
    Threads <- Callers, Models <- Keys

(* The entries of a part of a sequence, and of a sequence put together.       *)
LEMMA Elements ==
  ASSUME NEW S, NEW s \in Seq(S), NEW a \in Nat, NEW b \in Nat, 1 <= a, b <= Len(s)
  PROVE  SubSeq(s, a, b) \in Seq(S) /\ Loaded!ToSet(SubSeq(s, a, b)) = {s[k] : k \in a .. b}
<1> DEFINE part == SubSeq(s, a, b)
<1>1. Len(s) \in Nat /\ \A k \in a .. b : s[k] \in S
  BY LenProperties, ElementOfSeq
<1>2. /\ part \in Seq(S) /\ Len(part) = IF a <= b THEN b - a + 1 ELSE 0
      /\ \A k \in 1 .. b - a + 1 : part[k] = s[a + k - 1]
  BY <1>1, SubSeqProperties
<1> HIDE DEF part
<1>3. CASE a <= b
  <2>1. DOMAIN part = 1 .. b - a + 1
    BY <1>2, <1>3, LenProperties
  <2>2. \A k \in 1 .. b - a + 1 : a + k - 1 \in a .. b
    BY <1>3
  <2>3. \A k \in a .. b : k - a + 1 \in 1 .. b - a + 1 /\ a + (k - a + 1) - 1 = k
    BY <1>3
  <2>4. Loaded!ToSet(part) \subseteq {s[k] : k \in a .. b}
    BY <1>2, <2>1, <2>2 DEF Loaded!ToSet
  <2>5. ASSUME NEW k \in a .. b PROVE s[k] \in Loaded!ToSet(part)
    BY <1>2, <2>1, <2>3 DEF Loaded!ToSet
  <2> QED
    BY <1>2, <2>4, <2>5 DEF part
<1>4. CASE ~(a <= b)
  <2>1. DOMAIN part = {} /\ a .. b = {}
    BY <1>2, <1>4, LenProperties
  <2> QED
    BY <1>2, <2>1 DEF Loaded!ToSet, part
<1> QED
  BY <1>3, <1>4

LEMMA Together ==
  ASSUME NEW S, NEW s \in Seq(S), NEW t \in Seq(S)
  PROVE  s \o t \in Seq(S) /\ Loaded!ToSet(s \o t) = Loaded!ToSet(s) \cup Loaded!ToSet(t)
<1> DEFINE m == Len(s)
           n == Len(t)
           st == s \o t
<1>1. /\ m \in Nat /\ DOMAIN s = 1 .. m /\ n \in Nat /\ DOMAIN t = 1 .. n
      /\ st \in Seq(S) /\ DOMAIN st = 1 .. m + n
      /\ \A k \in 1 .. m + n : st[k] = IF k <= m THEN s[k] ELSE t[k - m]
  BY ConcatProperties, LenProperties
<1> HIDE DEF st, m, n
<1>2. \A k \in 1 .. m + n : IF k <= m THEN k \in 1 .. m ELSE k - m \in 1 .. n
  BY <1>1
<1>3. \A k \in 1 .. m : k \in 1 .. m + n /\ k <= m
  BY <1>1
<1>4. \A k \in 1 .. n : k + m \in 1 .. m + n /\ ~(k + m <= m) /\ (k + m) - m = k
  BY <1>1
<1>5. Loaded!ToSet(st) \subseteq Loaded!ToSet(s) \cup Loaded!ToSet(t)
  BY <1>1, <1>2 DEF Loaded!ToSet
<1>6. Loaded!ToSet(s) \subseteq Loaded!ToSet(st)
  BY <1>1, <1>3 DEF Loaded!ToSet
<1>7. ASSUME NEW k \in 1 .. n PROVE t[k] \in Loaded!ToSet(st)
  <2>1. st[k + m] = t[k] /\ k + m \in DOMAIN st
    BY <1>1, <1>4
  <2> QED
    BY <2>1 DEF Loaded!ToSet
<1>8. Loaded!ToSet(t) \subseteq Loaded!ToSet(st)
  BY <1>1, <1>7 DEF Loaded!ToSet
<1> QED
  BY <1>1, <1>5, <1>6, <1>8 DEF st

LEMMA EntryAdded ==
  ASSUME NEW S, NEW s \in Seq(S), NEW e \in S
  PROVE  Append(s, e) \in Seq(S) /\ Loaded!ToSet(Append(s, e)) = Loaded!ToSet(s) \cup {e}
<1> DEFINE n == Len(s)
           se == Append(s, e)
<1>1. /\ n \in Nat /\ DOMAIN s = 1 .. n /\ se \in Seq(S) /\ DOMAIN se = 1 .. n + 1
      /\ \A k \in 1 .. n : se[k] = s[k]
      /\ se[n + 1] = e
  BY AppendProperties, LenProperties
<1> HIDE DEF se, n
<1>2. 1 .. n + 1 = (1 .. n) \cup {n + 1}
  BY <1>1
<1> QED
  BY <1>1, <1>2 DEF Loaded!ToSet, se

(* A hit reorders the cache and leaves its entries.                         *)
LEMMA Reordered ==
  ASSUME NEW S, NEW s \in Seq(S), NEW i \in DOMAIN s
  PROVE  LET new == Append(Loaded!RemoveAt(s, i), s[i])
         IN  new \in Seq(S) /\ Loaded!ToSet(new) = Loaded!ToSet(s)
<1> DEFINE n == Len(s)
           front == SubSeq(s, 1, i - 1)
           back == SubSeq(s, i + 1, n)
<1>1. n \in Nat /\ DOMAIN s = 1 .. n /\ i \in 1 .. n /\ s[i] \in S
  BY LenProperties, ElementOfSeq
<1>2. i - 1 \in Nat /\ i + 1 \in Nat /\ 1 <= i + 1 /\ i - 1 <= n
  BY <1>1
<1>3. front \in Seq(S) /\ Loaded!ToSet(front) = {s[k] : k \in 1 .. i - 1}
  BY <1>1, <1>2, Elements
<1>4. back \in Seq(S) /\ Loaded!ToSet(back) = {s[k] : k \in i + 1 .. n}
  BY <1>1, <1>2, Elements
<1>5. Loaded!RemoveAt(s, i) = front \o back
  BY DEF Loaded!RemoveAt
<1> HIDE DEF front, back
<1>6. /\ Loaded!RemoveAt(s, i) \in Seq(S)
      /\ Loaded!ToSet(Loaded!RemoveAt(s, i)) = Loaded!ToSet(front) \cup Loaded!ToSet(back)
  BY <1>3, <1>4, <1>5, Together
<1>7. LET new == Append(Loaded!RemoveAt(s, i), s[i])
      IN  new \in Seq(S) /\ Loaded!ToSet(new) = Loaded!ToSet(front) \cup Loaded!ToSet(back) \cup {s[i]}
  BY <1>1, <1>6, EntryAdded
<1>8. 1 .. n = (1 .. i - 1) \cup (i + 1 .. n) \cup {i}
  BY <1>1
<1>9. {s[k] : k \in 1 .. i - 1} \cup {s[k] : k \in i + 1 .. n} \cup {s[i]}
        = {s[k] : k \in (1 .. i - 1) \cup (i + 1 .. n) \cup {i}}
  OBVIOUS
<1>10. Loaded!ToSet(s) = {s[k] : k \in 1 .. n}
  BY <1>1 DEF Loaded!ToSet
<1> QED
  BY <1>3, <1>4, <1>7, <1>8, <1>9, <1>10

(* What is kept and what is evicted are all the entries.                    *)
LEMMA Evicting ==
  ASSUME Cap \in Nat, NEW S, NEW s \in Seq(S)
  PROVE  /\ Loaded!Evicted(s).kept \in Seq(S)
         /\ Loaded!ToSet(Loaded!Evicted(s).kept) \cup Loaded!ToSet(Loaded!Evicted(s).gone)
              = Loaded!ToSet(s)
<1> DEFINE n == Len(s)
           d == n - Cap
<1>1. n \in Nat /\ Loaded!ToSet(s) = {s[k] : k \in 1 .. n}
  BY LenProperties DEF Loaded!ToSet
<1>2. CASE n > Cap
  <2>1. d \in Nat /\ d + 1 \in Nat /\ d <= n /\ 1 <= d + 1 /\ 1 .. n = (1 .. d) \cup (d + 1 .. n)
    BY <1>1, <1>2
  <2>2. Loaded!Evicted(s).kept = SubSeq(s, d + 1, n) /\ Loaded!Evicted(s).gone = SubSeq(s, 1, d)
    BY <1>2 DEF Loaded!Evicted
  <2> HIDE DEF d
  <2>3. /\ Loaded!Evicted(s).kept \in Seq(S)
        /\ Loaded!ToSet(Loaded!Evicted(s).kept) = {s[k] : k \in d + 1 .. n}
    BY <1>1, <2>1, <2>2, Elements
  <2>5. Loaded!ToSet(Loaded!Evicted(s).gone) = {s[k] : k \in 1 .. d}
    BY <1>1, <2>1, <2>2, Elements
  <2>4. {s[k] : k \in d + 1 .. n} \cup {s[k] : k \in 1 .. d}
          = {s[k] : k \in (1 .. d) \cup (d + 1 .. n)}
    OBVIOUS
  <2> QED
    BY <1>1, <2>1, <2>3, <2>4, <2>5
<1>3. CASE ~(n > Cap)
  <2>1. Loaded!Evicted(s).kept = s /\ Loaded!Evicted(s).gone = <<>>
    BY <1>3 DEF Loaded!Evicted
  <2>2. Loaded!ToSet(<<>>) = {}
    BY DEF Loaded!ToSet
  <2> QED
    BY <2>1, <2>2
<1> QED
  BY <1>2, <1>3
-----------------------------------------------------------------------------
Entries == [key : Keys, obj : Nat]

LoadedTyped ==
  /\ cache \in Seq(Entries)
  /\ loaded \in Nat
  /\ modelsOwner \in Seq(Callers \cup {None})
  /\ locks \in [Keys -> (DOMAIN modelsOwner) \cup {None}]
  /\ closed \subseteq 1 .. loaded
  /\ \A x \in Loaded!ToSet(cache) : x.obj \in 1 .. loaded
  /\ modelsPc \in [Callers -> {"idle", "get", "lock", "wait", "using", "failed"}]
  /\ call \in [Callers -> [key : Keys \cup {None}, obj : Nat, lock : Nat]]
  /\ \A t \in Callers : modelsPc[t] \in {"get", "lock", "wait", "using"} => call[t].key \in Keys

(* A model is loaded once at a time, and an object serves one model.         *)
LoadedOnce ==
  \A x, y \in Loaded!ToSet(cache) : x.key = y.key \/ x.obj = y.obj => x = y

(* The object a call has fetched is the cache's for its model until it is     *)
(* closed; till then the lock the call waits for is the model's.  A call      *)
(* generates with its lock held.                                             *)
Fetched(t) == modelsPc[t] \in {"lock", "wait", "using"}
HasLock(t) == modelsPc[t] \in {"wait", "using"}
Entry(t) == [key |-> call[t].key, obj |-> call[t].obj]
Guarded(t) ==
  /\ Fetched(t) /\ call[t].obj \notin closed => Entry(t) \in Loaded!ToSet(cache)
  /\ HasLock(t) => call[t].lock \in DOMAIN modelsOwner
  /\ HasLock(t) /\ call[t].obj \notin closed => locks[call[t].key] = call[t].lock
  /\ modelsPc[t] = "using" => modelsOwner[call[t].lock] = t

LoadedInv == LoadedTyped /\ LoadedOnce /\ (\A t \in Callers : Guarded(t))

LoadedBounds == None \notin Nat /\ None \notin Callers /\ Cap \in Nat

-----------------------------------------------------------------------------
LEMMA LoadedInit == ASSUME Loaded!Init PROVE LoadedInv
<1>1. Loaded!ToSet(<<>>) = {}
  BY DEF Loaded!ToSet
<1>2. LoadedTyped
  BY <1>1 DEF Loaded!Init, LoadedTyped, Loaded!NoCall
<1> QED
  BY <1>1, <1>2 DEF Loaded!Init, LoadedInv, LoadedOnce, Guarded, Fetched, HasLock

LEMMA CallStep ==
  ASSUME LoadedInv, NEW t \in Callers, Loaded!Call(t) PROVE LoadedInv'
<1>1. LoadedTyped'
  <2>1. PICK key \in Keys : call' = [call EXCEPT ![t] = [Loaded!NoCall EXCEPT !.key = key]]
    BY DEF Loaded!Call
  <2>2. [Loaded!NoCall EXCEPT !.key = key] = [key |-> key, obj |-> 0, lock |-> 0]
    BY DEF Loaded!NoCall
  <2>3. call' \in [Callers -> [key : Keys \cup {None}, obj : Nat, lock : Nat]]
    BY <2>1, <2>2 DEF LoadedInv, LoadedTyped
  <2>4. \A u \in Callers : u # t => call'[u] = call[u] /\ modelsPc'[u] = modelsPc[u]
    BY <2>1 DEF Loaded!Call, Loaded!Go, LoadedInv, LoadedTyped
  <2>5. call'[t].key \in Keys
    BY <2>1, <2>2 DEF LoadedInv, LoadedTyped
  <2>6. modelsPc' \in [Callers -> {"idle", "get", "lock", "wait", "using", "failed"}]
    BY DEF Loaded!Call, Loaded!Go, LoadedInv, LoadedTyped
  <2> QED
    BY <2>3, <2>4, <2>5, <2>6 DEF Loaded!Call, LoadedInv, LoadedTyped
<1>2. ASSUME NEW u \in Callers PROVE Guarded(u)'
  <2>1. CASE u = t
    BY <2>1 DEF Loaded!Call, Loaded!Go, LoadedInv, LoadedTyped, Guarded, Fetched, HasLock
  <2>2. CASE u # t
    <3>1. call'[u] = call[u] /\ modelsPc'[u] = modelsPc[u]
      BY <2>2 DEF Loaded!Call, Loaded!Go, LoadedInv, LoadedTyped
    <3> QED
      BY <3>1 DEF Loaded!Call, LoadedInv, Guarded, Fetched, HasLock, Entry
  <2> QED
    BY <2>1, <2>2
<1>3. LoadedOnce'
  BY DEF Loaded!Call, LoadedInv, LoadedOnce
<1> QED
  BY <1>1, <1>2, <1>3 DEF LoadedInv

LEMMA HitStep ==
  ASSUME LoadedInv, NEW t \in Callers, Loaded!Hit(t) PROVE LoadedInv'
<1>1. PICK i \in DOMAIN cache :
        /\ cache[i].key = call[t].key
        /\ cache' = Append(Loaded!RemoveAt(cache, i), cache[i])
        /\ call' = [call EXCEPT ![t].obj = cache[i].obj]
  BY DEF Loaded!Hit
<1>2. cache' \in Seq(Entries) /\ Loaded!ToSet(cache') = Loaded!ToSet(cache)
  BY <1>1, Reordered DEF LoadedInv, LoadedTyped
<1>3. cache[i] \in Loaded!ToSet(cache) /\ cache[i] \in Entries
  BY <1>1, ElementOfSeq DEF LoadedInv, LoadedTyped, Loaded!ToSet
<1>4. call'[t] = [key |-> call[t].key, obj |-> cache[i].obj, lock |-> call[t].lock]
  BY <1>1 DEF LoadedInv, LoadedTyped
<1>5. \A u \in Callers : u # t => call'[u] = call[u] /\ modelsPc'[u] = modelsPc[u]
  BY <1>1 DEF Loaded!Hit, Loaded!Go, LoadedInv, LoadedTyped
<1>6. /\ modelsPc[t] = "get" /\ modelsPc'[t] = "lock"
      /\ modelsPc' \in [Callers -> {"idle", "get", "lock", "wait", "using", "failed"}]
  BY DEF Loaded!Hit, Loaded!Go, LoadedInv, LoadedTyped
<1>7. LoadedTyped'
  <2>1. call' \in [Callers -> [key : Keys \cup {None}, obj : Nat, lock : Nat]]
    <3>1. cache[i].obj \in Nat
      BY <1>3 DEF Entries
    <3> QED
      BY <1>1, <3>1 DEF LoadedInv, LoadedTyped
  <2>2. ASSUME NEW u \in Callers, modelsPc'[u] \in {"get", "lock", "wait", "using"}
        PROVE  call'[u].key \in Keys
    <3>1. call'[t].key = call[t].key /\ call[t].key \in Keys
      BY <1>4, <1>6 DEF LoadedInv, LoadedTyped
    <3>2. u # t => call'[u] = call[u] /\ modelsPc'[u] = modelsPc[u]
      BY <1>5
    <3> QED
      BY <2>2, <3>1, <3>2 DEF LoadedInv, LoadedTyped
  <2> QED
    BY <1>2, <1>6, <2>1, <2>2 DEF Loaded!Hit, LoadedInv, LoadedTyped
<1>8. ASSUME NEW u \in Callers PROVE Guarded(u)'
  <2>1. CASE u = t
    <3>1. cache[i] = [key |-> call[t].key, obj |-> cache[i].obj]
      BY <1>1, <1>3 DEF Entries
    <3>2. Entry(t)' = [key |-> call[t].key, obj |-> cache[i].obj]
      BY <1>4 DEF Entry
    <3> QED
      BY <1>2, <1>3, <1>6, <2>1, <3>1, <3>2 DEF Guarded, Fetched, HasLock
  <2>2. CASE u # t
    BY <1>2, <1>5, <2>2 DEF Loaded!Hit, LoadedInv, Guarded, Fetched, HasLock, Entry
  <2> QED
    BY <2>1, <2>2
<1>9. LoadedOnce'
  BY <1>2 DEF LoadedInv, LoadedOnce
<1> QED
  BY <1>7, <1>8, <1>9 DEF LoadedInv

LEMMA LoadStep ==
  ASSUME LoadedBounds, LoadedInv, NEW t \in Callers, Loaded!Load(t) PROVE LoadedInv'
<1> DEFINE new == [key |-> call[t].key, obj |-> loaded + 1]
           all == Append(cache, new)
           gone == Loaded!ToSet(Loaded!Evicted(all).gone)
<1>1. new \in Entries /\ loaded \in Nat
  BY DEF Loaded!Load, LoadedInv, LoadedTyped, Entries
<1>2. all \in Seq(Entries) /\ Loaded!ToSet(all) = Loaded!ToSet(cache) \cup {new}
  BY <1>1, EntryAdded DEF LoadedInv, LoadedTyped
<1>3. /\ cache' = Loaded!Evicted(all).kept
      /\ closed' = closed \cup {x.obj : x \in gone}
      /\ locks' = [m \in Keys |-> IF m \in {x.key : x \in gone} THEN None ELSE locks[m]]
      /\ loaded' = loaded + 1 /\ modelsOwner' = modelsOwner
      /\ modelsPc[t] = "get" /\ ~Loaded!Cached(call[t].key)
  BY DEF Loaded!Load
<1> HIDE DEF all
<1>4. cache' \in Seq(Entries) /\ Loaded!ToSet(cache') \cup gone = Loaded!ToSet(cache) \cup {new}
  BY <1>2, <1>3, Evicting DEF LoadedBounds
<1>5. \A x \in Loaded!ToSet(cache) : x \in Entries /\ x.obj \in 1 .. loaded /\ x.key # call[t].key
  <2>1. ASSUME NEW x \in Loaded!ToSet(cache) PROVE x \in Entries /\ x.key # call[t].key
    BY <1>3, <2>1, ElementOfSeq DEF Loaded!ToSet, Loaded!Cached, LoadedInv, LoadedTyped
  <2> QED
    BY <2>1 DEF LoadedInv, LoadedTyped
<1>6. /\ call'[t] = [key |-> call[t].key, obj |-> loaded + 1, lock |-> call[t].lock]
      /\ call' \in [Callers -> [key : Keys \cup {None}, obj : Nat, lock : Nat]]
      /\ \A u \in Callers : u # t => call'[u] = call[u] /\ modelsPc'[u] = modelsPc[u]
      /\ modelsPc'[t] = "lock"
      /\ modelsPc' \in [Callers -> {"idle", "get", "lock", "wait", "using", "failed"}]
  BY DEF Loaded!Load, Loaded!Go, LoadedInv, LoadedTyped
<1> HIDE DEF gone, new
<1>7. \A x \in Loaded!ToSet(cache) \cup {new} : x \in Entries /\ x.obj \in 1 .. loaded + 1
  <2>1. new.obj = loaded + 1 /\ loaded + 1 \in 1 .. loaded + 1 /\ 1 .. loaded \subseteq 1 .. loaded + 1
    BY <1>1 DEF new
  <2> QED
    BY <1>1, <1>5, <2>1
<1>8. LoadedTyped'
  <2>1. closed' \subseteq 1 .. loaded'
    <3>1. {x.obj : x \in gone} \subseteq 1 .. loaded + 1
      BY <1>4, <1>7
    <3>2. closed \subseteq 1 .. loaded + 1
      BY <1>1 DEF LoadedInv, LoadedTyped
    <3> QED
      BY <1>3, <3>1, <3>2
  <2>2. \A x \in Loaded!ToSet(cache') : x.obj \in 1 .. loaded'
    BY <1>3, <1>4, <1>7
  <2>3. locks' \in [Keys -> (DOMAIN modelsOwner') \cup {None}]
    BY <1>3 DEF LoadedInv, LoadedTyped
  <2>4. loaded' \in Nat
    BY <1>1, <1>3
  <2>5. ASSUME NEW u \in Callers, modelsPc'[u] \in {"get", "lock", "wait", "using"}
        PROVE  call'[u].key \in Keys
    BY <1>3, <1>6, <2>5 DEF LoadedInv, LoadedTyped
  <2> QED
    BY <1>3, <1>4, <1>6, <2>1, <2>2, <2>3, <2>4, <2>5 DEF LoadedInv, LoadedTyped
<1>9. \A x, y \in Loaded!ToSet(cache) \cup {new} : x.key = y.key \/ x.obj = y.obj => x = y
  <2>1. \A x \in Loaded!ToSet(cache) : x.key # new.key /\ x.obj # new.obj
    <3>1. \A k \in 1 .. loaded : k # loaded + 1
      BY <1>1
    <3> QED
      BY <1>5, <3>1 DEF new
  <2>2. \A x, y \in Loaded!ToSet(cache) : x.key = y.key \/ x.obj = y.obj => x = y
    BY DEF LoadedInv, LoadedOnce
  <2> QED
    BY <2>1, <2>2
<1>10. LoadedOnce'
  BY <1>4, <1>9 DEF LoadedOnce
<1>11. ASSUME NEW u \in Callers PROVE Guarded(u)'
  <2>1. CASE u = t
    <3>1. Entry(t)' = new
      BY <1>6 DEF Entry, new
    <3>2. new.obj = loaded + 1 /\ call'[t].obj = loaded + 1
      BY <1>6 DEF new
    <3>3. call'[t].obj \notin closed' => new \in Loaded!ToSet(cache')
      BY <1>3, <1>4, <3>2
    <3> QED
      BY <1>6, <2>1, <3>1, <3>3 DEF Guarded, Fetched, HasLock
  <2>2. CASE u # t
    <3>1. call'[u] = call[u] /\ modelsPc'[u] = modelsPc[u] /\ Entry(u)' = Entry(u)
      BY <1>6, <2>2 DEF Entry
    <3>2. ASSUME Fetched(u), call[u].obj \notin closed'
          PROVE  Entry(u) \in Loaded!ToSet(cache') /\ call[u].key \notin {x.key : x \in gone}
      <4>1. Entry(u) \in Loaded!ToSet(cache) /\ call[u].obj \notin closed
        BY <1>3, <3>2 DEF LoadedInv, Guarded
      <4>2. Entry(u).obj = call[u].obj /\ Entry(u).key = call[u].key
        BY DEF Entry
      <4>3. Entry(u) \notin gone
        BY <1>3, <3>2, <4>2
      <4>4. ASSUME NEW x \in gone PROVE x.key # call[u].key
        BY <1>4, <1>9, <4>1, <4>2, <4>3
      <4> QED
        BY <1>4, <4>1, <4>3, <4>4
    <3>3. HasLock(u) => Fetched(u) /\ call[u].key \in Keys
      BY DEF HasLock, Fetched, LoadedInv, LoadedTyped
    <3>4. HasLock(u) /\ call[u].obj \notin closed' => locks'[call[u].key] = call[u].lock
      BY <1>3, <3>2, <3>3 DEF LoadedInv, Guarded
    <3> QED
      BY <1>3, <3>1, <3>2, <3>4 DEF LoadedInv, Guarded, Fetched, HasLock
  <2> QED
    BY <2>1, <2>2
<1> QED
  BY <1>8, <1>10, <1>11 DEF LoadedInv

LEMMA LoadFailsStep ==
  ASSUME LoadedInv, NEW t \in Callers, Loaded!LoadFails(t) PROVE LoadedInv'
<1>1. /\ \A u \in Callers : u # t => modelsPc'[u] = modelsPc[u]
      /\ modelsPc'[t] = "failed"
      /\ modelsPc' \in [Callers -> {"idle", "get", "lock", "wait", "using", "failed"}]
  BY DEF Loaded!LoadFails, Loaded!Go, LoadedInv, LoadedTyped
<1>2. LoadedTyped'
  BY <1>1 DEF Loaded!LoadFails, LoadedInv, LoadedTyped
<1>3. \A u \in Callers : Guarded(u)'
  BY <1>1 DEF Loaded!LoadFails, LoadedInv, Guarded, Fetched, HasLock, Entry
<1> QED
  BY <1>2, <1>3 DEF Loaded!LoadFails, LoadedInv, LoadedOnce

LEMMA GetLockStep ==
  ASSUME LoadedBounds, LoadedInv, NEW t \in Callers, Loaded!GetLock(t) PROVE LoadedInv'
<1> DEFINE key == call[t].key
           new == locks[key] = None
           lock == IF new THEN Loaded!NewLock ELSE locks[key]
<1>1. /\ modelsPc[t] = "lock" /\ locks' = [locks EXCEPT ![key] = lock]
      /\ modelsOwner' = IF new THEN Append(modelsOwner, None) ELSE modelsOwner
      /\ call' = [call EXCEPT ![t].lock = lock]
      /\ UNCHANGED <<cache, loaded, closed>>
  BY DEF Loaded!GetLock
<1>2. /\ key \in Keys /\ Len(modelsOwner) \in Nat /\ DOMAIN modelsOwner = 1 .. Len(modelsOwner)
      /\ locks \in [Keys -> (DOMAIN modelsOwner) \cup {None}]
  BY <1>1, LenProperties DEF LoadedInv, LoadedTyped
<1> HIDE DEF new, lock
<1>3. /\ modelsOwner' \in Seq(Callers \cup {None}) /\ lock \in DOMAIN modelsOwner'
      /\ DOMAIN modelsOwner \subseteq DOMAIN modelsOwner'
      /\ \A l \in DOMAIN modelsOwner : modelsOwner'[l] = modelsOwner[l]
  <2>1. CASE new
    <3>1. /\ Append(modelsOwner, None) \in Seq(Callers \cup {None})
          /\ Len(Append(modelsOwner, None)) = Len(modelsOwner) + 1
          /\ \A l \in 1 .. Len(modelsOwner) : Append(modelsOwner, None)[l] = modelsOwner[l]
      BY AppendProperties DEF LoadedInv, LoadedTyped
    <3>2. DOMAIN Append(modelsOwner, None) = 1 .. Len(modelsOwner) + 1
      BY <3>1, LenProperties
    <3>3. lock = Len(modelsOwner) + 1
      BY <2>1 DEF lock, Loaded!NewLock
    <3> QED
      BY <1>1, <1>2, <2>1, <3>1, <3>2, <3>3
  <2>2. CASE ~new
    BY <1>1, <1>2, <2>2 DEF LoadedInv, LoadedTyped, lock, new
  <2> QED
    BY <2>1, <2>2
<1>4. /\ \A u \in Callers : u # t => call'[u] = call[u] /\ modelsPc'[u] = modelsPc[u]
      /\ call'[t] = [key |-> key, obj |-> call[t].obj, lock |-> lock]
      /\ modelsPc'[t] = "wait"
      /\ modelsPc' \in [Callers -> {"idle", "get", "lock", "wait", "using", "failed"}]
  BY <1>1 DEF Loaded!GetLock, Loaded!Go, LoadedInv, LoadedTyped
<1>5. /\ locks'[key] = lock /\ \A m \in Keys : m # key => locks'[m] = locks[m]
      /\ locks' \in [Keys -> (DOMAIN modelsOwner') \cup {None}]
  BY <1>1, <1>2, <1>3
<1>6. LoadedTyped'
  <2>1. lock \in Nat
    BY <1>3, LenProperties
  <2>2. call' \in [Callers -> [key : Keys \cup {None}, obj : Nat, lock : Nat]]
    BY <1>1, <2>1 DEF LoadedInv, LoadedTyped
  <2>3. \A u \in Callers : call'[u].key = call[u].key
    BY <1>4
  <2>4. ASSUME NEW u \in Callers, modelsPc'[u] \in {"get", "lock", "wait", "using"}
        PROVE  call'[u].key \in Keys
    BY <1>2, <1>4, <2>3, <2>4 DEF LoadedInv, LoadedTyped
  <2> QED
    BY <1>1, <1>3, <1>4, <1>5, <2>2, <2>4 DEF LoadedInv, LoadedTyped
<1>7. ASSUME NEW u \in Callers PROVE Guarded(u)'
  <2>1. CASE u = t
    <3>1. call'[t].key = key /\ call'[t].obj = call[t].obj /\ call'[t].lock = lock
      BY <1>4
    <3>2. call'[t].obj \notin closed' => Entry(t)' \in Loaded!ToSet(cache')
      <4>1. Entry(t)' = Entry(t)
        BY <3>1 DEF Entry
      <4> QED
        BY <1>1, <3>1, <4>1 DEF LoadedInv, Guarded, Fetched
    <3> QED
      BY <1>3, <1>4, <1>5, <2>1, <3>1, <3>2 DEF Guarded, Fetched, HasLock
  <2>2. CASE u # t
    <3>1. /\ call'[u] = call[u] /\ modelsPc'[u] = modelsPc[u] /\ Entry(u)' = Entry(u)
          /\ Guarded(u)
      BY <1>4, <2>2 DEF Entry, LoadedInv
    <3>2. HasLock(u) /\ call[u].obj \notin closed => locks'[call[u].key] = locks[call[u].key]
      <4>1. ASSUME HasLock(u), call[u].obj \notin closed, call[u].key = key
            PROVE  locks'[key] = locks[key]
        <5>1. locks[key] \in DOMAIN modelsOwner
          BY <3>1, <4>1 DEF Guarded
        <5>2. ~new
          BY <1>2, <5>1 DEF LoadedBounds, new
        <5> QED
          BY <1>5, <5>2 DEF lock
      <4>2. HasLock(u) => call[u].key \in Keys
        BY DEF HasLock, LoadedInv, LoadedTyped
      <4> QED
        BY <1>5, <4>1, <4>2
    <3> QED
      BY <1>1, <1>3, <3>1, <3>2 DEF Guarded, Fetched, HasLock
  <2> QED
    BY <2>1, <2>2
<1> QED
  BY <1>1, <1>6, <1>7 DEF LoadedInv, LoadedOnce

LEMMA GenerateStep ==
  ASSUME LoadedBounds, LoadedInv, NEW t \in Callers, Loaded!Generate(t) PROVE LoadedInv'
<1>1. /\ modelsPc[t] = "wait" /\ modelsOwner[call[t].lock] = None
      /\ modelsOwner' = [modelsOwner EXCEPT ![call[t].lock] = t]
      /\ UNCHANGED <<cache, locks, loaded, closed, call>>
      /\ modelsPc' = [modelsPc EXCEPT ![t] = "using"]
  BY DEF Loaded!Generate, Loaded!Go
<1>2. call[t].lock \in DOMAIN modelsOwner
  BY <1>1 DEF LoadedInv, Guarded, HasLock
<1>3. /\ modelsOwner' \in Seq(Callers \cup {None}) /\ DOMAIN modelsOwner' = DOMAIN modelsOwner
      /\ modelsOwner'[call[t].lock] = t
      /\ \A l \in DOMAIN modelsOwner : l # call[t].lock => modelsOwner'[l] = modelsOwner[l]
  <2>1. modelsOwner' \in Seq(Callers \cup {None})
    BY <1>1, <1>2, ExceptSeq DEF LoadedInv, LoadedTyped
  <2> QED
    BY <1>1, <1>2, <2>1
<1>4. /\ \A u \in Callers : u # t => modelsPc'[u] = modelsPc[u]
      /\ modelsPc'[t] = "using"
      /\ modelsPc' \in [Callers -> {"idle", "get", "lock", "wait", "using", "failed"}]
  BY <1>1 DEF LoadedInv, LoadedTyped
<1>5. LoadedTyped'
  <2>1. ASSUME NEW u \in Callers, modelsPc'[u] \in {"get", "lock", "wait", "using"}
        PROVE  call'[u].key \in Keys
    BY <1>1, <1>4, <2>1 DEF LoadedInv, LoadedTyped
  <2> QED
    BY <1>1, <1>3, <1>4, <2>1 DEF LoadedInv, LoadedTyped
<1>6. ASSUME NEW u \in Callers PROVE Guarded(u)'
  <2>1. Guarded(u) /\ Entry(u)' = Entry(u)
    BY <1>1 DEF LoadedInv, Entry
  <2>2. CASE u = t
    BY <1>1, <1>3, <1>4, <2>1, <2>2 DEF Guarded, Fetched, HasLock
  <2>3. CASE u # t
    <3>1. modelsPc[u] = "using" => modelsOwner'[call[u].lock] = u
      <4>1. modelsPc[u] = "using" =>
              /\ call[u].lock \in DOMAIN modelsOwner /\ modelsOwner[call[u].lock] = u /\ u # None
        BY <2>1 DEF Guarded, HasLock, LoadedBounds
      <4> QED
        BY <1>1, <1>3, <4>1
    <3> QED
      BY <1>1, <1>3, <1>4, <2>1, <2>3, <3>1 DEF Guarded, Fetched, HasLock
  <2> QED
    BY <2>2, <2>3
<1> QED
  BY <1>1, <1>5, <1>6 DEF LoadedInv, LoadedOnce

LEMMA FinishStep ==
  ASSUME LoadedBounds, LoadedInv, NEW t \in Callers, Loaded!Finish(t) PROVE LoadedInv'
<1>1. PICK next \in {"idle", "failed"} :
        /\ modelsPc[t] = "using"
        /\ modelsOwner' = [modelsOwner EXCEPT ![call[t].lock] = None]
        /\ call' = [call EXCEPT ![t] = Loaded!NoCall]
        /\ UNCHANGED <<cache, locks, loaded, closed>>
        /\ modelsPc' = [modelsPc EXCEPT ![t] = next]
  BY DEF Loaded!Finish, Loaded!Go
<1>2. call[t].lock \in DOMAIN modelsOwner /\ modelsOwner[call[t].lock] = t
  BY <1>1 DEF LoadedInv, Guarded, HasLock
<1>3. /\ modelsOwner' \in Seq(Callers \cup {None}) /\ DOMAIN modelsOwner' = DOMAIN modelsOwner
      /\ \A l \in DOMAIN modelsOwner : l # call[t].lock => modelsOwner'[l] = modelsOwner[l]
  <2>1. modelsOwner' \in Seq(Callers \cup {None})
    BY <1>1, <1>2, ExceptSeq DEF LoadedInv, LoadedTyped
  <2> QED
    BY <1>1, <1>2, <2>1
<1>4. /\ \A u \in Callers : u # t => modelsPc'[u] = modelsPc[u] /\ call'[u] = call[u]
      /\ modelsPc'[t] \in {"idle", "failed"}
      /\ modelsPc' \in [Callers -> {"idle", "get", "lock", "wait", "using", "failed"}]
  BY <1>1 DEF LoadedInv, LoadedTyped
<1>5. LoadedTyped'
  <2>1. Loaded!NoCall \in [key : Keys \cup {None}, obj : Nat, lock : Nat]
    BY DEF Loaded!NoCall
  <2>2. call' \in [Callers -> [key : Keys \cup {None}, obj : Nat, lock : Nat]]
    BY <1>1, <2>1 DEF LoadedInv, LoadedTyped
  <2>3. ASSUME NEW u \in Callers, modelsPc'[u] \in {"get", "lock", "wait", "using"}
        PROVE  call'[u].key \in Keys
    BY <1>4, <2>3 DEF LoadedInv, LoadedTyped
  <2> QED
    BY <1>1, <1>3, <1>4, <2>2, <2>3 DEF LoadedInv, LoadedTyped
<1>6. ASSUME NEW u \in Callers PROVE Guarded(u)'
  <2>1. CASE u = t
    BY <1>4, <2>1 DEF Guarded, Fetched, HasLock
  <2>2. CASE u # t
    <3>1. Guarded(u) /\ Entry(u)' = Entry(u)
      BY <1>4, <2>2 DEF LoadedInv, Entry
    <3>2. modelsPc[u] = "using" => modelsOwner'[call[u].lock] = u
      <4>1. modelsPc[u] = "using" => call[u].lock \in DOMAIN modelsOwner /\ modelsOwner[call[u].lock] = u
        BY <3>1 DEF Guarded, HasLock
      <4> QED
        BY <1>2, <1>3, <2>2, <4>1
    <3> QED
      BY <1>1, <1>3, <1>4, <2>2, <3>1, <3>2 DEF Guarded, Fetched, HasLock
  <2> QED
    BY <2>1, <2>2
<1> QED
  BY <1>1, <1>5, <1>6 DEF LoadedInv, LoadedOnce

LEMMA LoadedNext == ASSUME LoadedBounds, LoadedInv, [Loaded!Next]_(Loaded!vars) PROVE LoadedInv'
<1>1. CASE UNCHANGED Loaded!vars
  BY <1>1 DEF Loaded!vars, LoadedInv, LoadedTyped, LoadedOnce, Guarded, Fetched, HasLock, Entry
<1>2. CASE Loaded!Next
  BY <1>2, CallStep, HitStep, LoadStep, LoadFailsStep, GetLockStep, GenerateStep, FinishStep
     DEF Loaded!Next
<1> QED
  BY <1>1, <1>2

LEMMA OneCallHolds == ASSUME LoadedInv PROVE Loaded!OneCallPerObject
<1> SUFFICES ASSUME NEW t \in Callers, NEW u \in Callers,
                    modelsPc[t] = "using", modelsPc[u] = "using",
                    call[t].obj = call[u].obj, call[t].obj \notin closed
             PROVE  t = u
  BY DEF Loaded!OneCallPerObject
<1>1. Entry(t) \in Loaded!ToSet(cache) /\ Entry(u) \in Loaded!ToSet(cache)
  BY DEF LoadedInv, Guarded, Fetched
<1>2. Entry(t) = Entry(u)
  BY <1>1 DEF LoadedInv, LoadedOnce, Entry
<1>3. call[t].key = call[u].key
  BY <1>2 DEF Entry
<1>4. call[t].lock = call[u].lock
  BY <1>3 DEF LoadedInv, Guarded, HasLock
<1> QED
  BY <1>4 DEF LoadedInv, Guarded, HasLock

LEMMA LoadedTypes == ASSUME LoadedInv PROVE Loaded!TypeOK
<1>1. cache \in Seq([key : Keys, obj : 1 .. loaded])
  <2>1. /\ Len(cache) \in Nat /\ cache = [k \in 1 .. Len(cache) |-> cache[k]]
        /\ DOMAIN cache = 1 .. Len(cache)
    BY LenProperties DEF LoadedInv, LoadedTyped
  <2>2. ASSUME NEW k \in 1 .. Len(cache) PROVE cache[k] \in [key : Keys, obj : 1 .. loaded]
    <3>1. cache[k] \in Entries /\ cache[k] \in Loaded!ToSet(cache)
      BY <2>1, ElementOfSeq DEF LoadedInv, LoadedTyped, Loaded!ToSet
    <3>2. cache[k].obj \in 1 .. loaded
      BY <3>1 DEF LoadedInv, LoadedTyped
    <3> QED
      BY <3>1, <3>2 DEF Entries
  <2>3. [k \in 1 .. Len(cache) |-> cache[k]] \in Seq([key : Keys, obj : 1 .. loaded])
    BY <2>1, <2>2, IsASeq
  <2> QED
    BY <2>1, <2>3
<1> QED
  BY <1>1 DEF LoadedInv, LoadedTyped, Loaded!TypeOK

(* However loads, evictions and calls of threads interleave, a call waits for  *)
(* the lock of its model as long as its object is not closed.               *)
THEOREM LoadedInductive == ASSUME LoadedBounds PROVE Loaded!Spec => []LoadedInv
<1>1. Loaded!Init => LoadedInv
  BY LoadedInit
<1>2. LoadedInv /\ [Loaded!Next]_(Loaded!vars) => LoadedInv'
  BY LoadedNext
<1> QED
  BY <1>1, <1>2, PTL DEF Loaded!Spec

(* No two threads generate at once on an object that is not closed.          *)
THEOREM OneCall == ASSUME LoadedBounds PROVE Loaded!Spec => []Loaded!OneCallPerObject
<1>1. Loaded!Spec => []LoadedInv
  BY LoadedInductive
<1>2. LoadedInv => Loaded!OneCallPerObject
  BY OneCallHolds
<1> QED
  BY <1>1, <1>2, PTL

(* The cache holds loaded models, and every lock has at most one holder.       *)
THEOREM LoadedTypeCorrect == ASSUME LoadedBounds PROVE Loaded!Spec => []Loaded!TypeOK
<1>1. LoadedInv => Loaded!TypeOK
  BY LoadedTypes
<1> QED
  BY <1>1, LoadedInductive, PTL

-----------------------------------------------------------------------------
(* THE SESSION FILES                                                         *)

CONSTANTS Threads, Ids, MaxOps, MaxClock, MaxCrashes
VARIABLES files, tmp, used, managers, default, filesOwner, filesPc, req, mine, rec, clock,
          lastStamp, ops, crashes, appended, deleted

Files == INSTANCE SessionFiles WITH pc <- filesPc, owner <- filesOwner

Records == [messages : Seq(Nat), updated : Nat]
FilesLabels == {"idle", "build", "call", "read", "write", "replace", "not_found", "crashed"}
Requests == [op : Files!Operations, id : Ids \cup {None}, n : Nat]

(* A process builds one manager; nothing is taken for a record or a thread   *)
(* that is none.                                                            *)
FilesBounds == None \notin Threads /\ None \notin Records /\ IsFiniteSet(Threads)

FilesTyped ==
  /\ files \in [Ids -> Records \cup {None}]
  /\ tmp \in [Ids -> Records \cup {None}]
  /\ used \subseteq Ids /\ deleted \subseteq Ids
  /\ managers \in {0, 1} /\ default = managers /\ (managers = 1 => 1 \in Files!Managers)
  /\ filesOwner \in [Files!Managers -> Threads \cup {None}]
  /\ filesPc \in [Threads -> FilesLabels]
  /\ req \in [Threads -> Requests]
  /\ mine \in [Threads -> {0, 1}]
  /\ rec \in [Threads -> Records \cup {None}]
  /\ clock \in Nat /\ lastStamp \in Nat /\ ops \in Nat
  /\ appended \in [Ids -> SUBSET Nat]

Active(t) == filesPc[t] \in {"build", "call", "read", "write", "replace"}
Saving(t) == filesPc[t] \in {"write", "replace"}
Creates(t) == req[t].op = "create"

(* A client names sessions it knows of, or the one it makes, which nobody    *)
(* else knows; and there is one manager that all use.                       *)
Addressed(t) ==
  Active(t) =>
    /\ req[t].id \in used
    /\ Creates(t) <=> req[t].id \notin Files!Known
    /\ filesPc[t] # "build" => mine[t] = 1 /\ managers = 1
    /\ filesPc[t] = "read" => ~Creates(t)

(* What a thread is about to save is the session as it is, changed by its    *)
(* request; but for a session it makes, it holds the lock.                  *)
Prepared(t) ==
  /\ Saving(t) => rec[t] \in Records /\ req[t].op \in {"create", "append", "rename"}
  /\ filesPc[t] = "replace" => filesOwner[1] = t /\ tmp[req[t].id] = rec[t]
  /\ Saving(t) /\ Creates(t) => rec[t].messages = <<>>
  /\ Saving(t) /\ ~Creates(t) =>
       /\ filesOwner[1] = t
       /\ files[req[t].id] # None
       /\ rec[t].messages = IF req[t].op = "append"
                            THEN Append(files[req[t].id].messages, req[t].n)
                            ELSE files[req[t].id].messages

(* No session is made twice.                                                *)
Makers ==
  /\ Files!Known \subseteq used
  /\ \A t, u \in Threads :
       Active(t) /\ Active(u) /\ Creates(t) /\ Creates(u) /\ req[t].id = req[u].id => t = u

(* Stamps that were given are past, and no two are equal.                   *)
Past(stamp) == stamp <= lastStamp \/ stamp < clock
Stamped ==
  /\ \A i \in Ids : files[i] # None => Past(files[i].updated)
  /\ \A t \in Threads : Saving(t) => Past(rec[t].updated)
  /\ Files!StampsDiffer
  /\ \A t \in Threads, i \in Ids :
       Saving(t) /\ files[i] # None => rec[t].updated # files[i].updated
  /\ \A t, u \in Threads : t # u /\ Saving(t) /\ Saving(u) => rec[t].updated # rec[u].updated

(* Each message is of a request of its own.                                 *)
MessagesOnce ==
  /\ \A i \in Ids : files[i] # None =>
       /\ Files!IsInjective(files[i].messages)
       /\ \A n \in Files!ToSet(files[i].messages) : n < ops
  /\ \A t \in Threads : Active(t) => req[t].n < ops
  /\ \A t, u \in Threads : t # u /\ Active(t) /\ Active(u) => req[t].n # req[u].n
  /\ \A t \in Threads, i \in Ids :
       Active(t) /\ req[t].op = "append" /\ files[i] # None
         => req[t].n \notin Files!ToSet(files[i].messages)

FilesInv ==
  /\ FilesTyped /\ (\A t \in Threads : Addressed(t) /\ Prepared(t))
  /\ Makers /\ Stamped /\ MessagesOnce /\ Files!AppendsKept /\ Files!DeletedStaysDeleted

-----------------------------------------------------------------------------
(* The data.                                                                *)

(* Both modules count the threads alike.                                    *)
LEMMA Threaded == Files!Cardinality(Threads) = Cardinality(Threads)
BY DEF Files!Cardinality, Cardinality

LEMMA FilesLookup ==
  ASSUME FilesInv, FilesBounds, NEW t \in Threads
  PROVE  /\ FilesTyped /\ Addressed(t) /\ Prepared(t)
         /\ 1 \in Files!Managers /\ req[t] \in Requests /\ mine[t] \in {0, 1}
         /\ Files!Known \subseteq used /\ used \subseteq Ids
         /\ \A next : filesPc' = [filesPc EXCEPT ![t] = next] =>
              filesPc'[t] = next /\ \A u \in Threads \ {t} : filesPc'[u] = filesPc[u]
<1>1. Cardinality(Threads) \in Nat /\ Cardinality(Threads) # 0
  BY FS_CardinalityType, FS_EmptySet DEF FilesBounds
<1>2. 1 \in Files!Managers
  BY <1>1, Threaded DEF Files!Managers
<1> QED
  BY <1>2 DEF FilesInv, FilesTyped, Makers

LEMMA Later ==
  ASSUME FilesTyped
  PROVE  /\ Files!Now \in Nat /\ ~Past(Files!Now) /\ lastStamp <= Files!Now
         /\ \A stamp \in Nat : Past(stamp) => stamp <= Files!Now
BY DEF FilesTyped, Files!Now, Past

(* A message is added at the end.                                           *)
LEMMA MessageAdded ==
  ASSUME NEW old \in Seq(Nat), NEW n \in Nat
  PROVE  /\ Append(old, n) \in Seq(Nat)
         /\ Files!ToSet(Append(old, n)) = Files!ToSet(old) \cup {n}
         /\ Files!IsInjective(old) /\ n \notin Files!ToSet(old)
              => Files!IsInjective(Append(old, n))
<1> DEFINE new == Append(old, n)
<1>1. /\ new \in Seq(Nat) /\ Len(new) = Len(old) + 1 /\ Len(old) \in Nat
      /\ \A k \in 1 .. Len(old) : new[k] = old[k]
      /\ new[Len(old) + 1] = n
  BY AppendProperties, LenProperties
<1>2. DOMAIN new = 1 .. Len(old) + 1 /\ DOMAIN old = 1 .. Len(old)
  BY <1>1
<1> HIDE DEF new
<1>3. Files!ToSet(new) = Files!ToSet(old) \cup {n}
  <2>1. Files!ToSet(new) = {new[k] : k \in 1 .. Len(old) + 1}
    BY <1>2 DEF Files!ToSet
  <2>2. Files!ToSet(old) = {old[k] : k \in 1 .. Len(old)}
    BY <1>2 DEF Files!ToSet
  <2>3. \A k \in 1 .. Len(old) + 1 : k \in 1 .. Len(old) \/ k = Len(old) + 1
    BY <1>1
  <2>4. 1 .. Len(old) \subseteq 1 .. Len(old) + 1 /\ Len(old) + 1 \in 1 .. Len(old) + 1
    BY <1>1
  <2>5. {new[k] : k \in 1 .. Len(old) + 1} = {old[k] : k \in 1 .. Len(old)} \cup {n}
    BY <1>1, <2>3, <2>4, Zenon
  <2> QED
    BY <2>1, <2>2, <2>5, Zenon
<1>4. ASSUME Files!IsInjective(old), n \notin Files!ToSet(old) PROVE Files!IsInjective(new)
  <2>1. \A k \in 1 .. Len(old) : old[k] # n
    BY <1>2, <1>4 DEF Files!ToSet
  <2>2. \A k \in 1 .. Len(old) + 1 : k \in 1 .. Len(old) \/ k = Len(old) + 1
    BY <1>1
  <2>3. \A k, l \in 1 .. Len(old) + 1 : new[k] = new[l] => k = l
    BY <1>1, <1>2, <1>4, <2>1, <2>2 DEF Files!IsInjective
  <2> QED
    BY <1>2, <2>3 DEF Files!IsInjective
<1> QED
  BY <1>1, <1>3, <1>4 DEF new

-----------------------------------------------------------------------------
(* A thread goes on with a request and leaves the files alone.              *)

LEMMA FilesMoving ==
  ASSUME FilesInv, FilesBounds, NEW t \in Threads, FilesTyped',
         UNCHANGED <<files, used, req, ops, clock, appended, deleted>>,
         managers' = managers \/ managers' = 1,
         \A u \in Threads \ {t} :
           /\ filesPc'[u] = filesPc[u] /\ rec'[u] = rec[u] /\ mine'[u] = mine[u]
           /\ filesOwner[1] = u => filesOwner'[1] = u
           /\ filesPc[u] = "replace" => tmp'[req[u].id] = tmp[req[u].id],
         Active(t)' => Active(t),
         Addressed(t)', Prepared(t)',
         \/ lastStamp' = lastStamp /\ (Saving(t)' => Saving(t) /\ rec'[t] = rec[t])
         \/ lastStamp' = Files!Now /\ rec'[t].updated = Files!Now
  PROVE  FilesInv'
<1>1. Files!Known' = Files!Known
  BY DEF Files!Known
<1>2. ASSUME NEW u \in Threads \ {t} PROVE Addressed(u)' /\ Prepared(u)'
  BY <1>1, <1>2 DEF FilesInv, Addressed, Prepared, Active, Saving, Creates
<1>3. Makers'
  BY <1>1 DEF FilesInv, Makers, Active, Creates
<1>4. FilesTyped /\ lastStamp' \in Nat /\ lastStamp' >= lastStamp
  BY Later DEF FilesInv, FilesTyped
<1>5. \A stamp \in Nat : Past(stamp) => Past(stamp)'
  BY <1>4 DEF Past, FilesTyped
<1>6. /\ \A i \in Ids : files[i] # None => files[i].updated \in Nat
      /\ \A u \in Threads : Saving(u) => rec[u].updated \in Nat
  BY DEF FilesInv, FilesTyped, Prepared, Records
<1>7. \A u \in Threads \ {t} : Saving(u)' <=> Saving(u)
  BY DEF Saving
<1>8. Stamped'
  <2>1. CASE lastStamp' = lastStamp /\ (Saving(t)' => Saving(t) /\ rec'[t] = rec[t])
    <3>1. \A u \in Threads : Saving(u)' => Saving(u) /\ rec'[u] = rec[u]
      BY <1>7, <2>1
    <3> QED
      BY <1>5, <1>6, <3>1 DEF FilesInv, Stamped, Files!StampsDiffer
  <2>2. CASE lastStamp' = Files!Now /\ rec'[t].updated = Files!Now
    <3> DEFINE new == rec'[t].updated
    <3>1. new \in Nat /\ new <= lastStamp' /\ ~Past(new)
      BY <1>4, <2>2, Later
    <3>2. \A u \in Threads \ {t} : Saving(u)' => Saving(u) /\ rec'[u] = rec[u]
      BY <1>7
    <3>3. \A i \in Ids : files[i] # None => Past(files[i].updated) /\ files[i].updated # new
      BY <3>1 DEF FilesInv, Stamped
    <3>4. \A u \in Threads : Saving(u) => Past(rec[u].updated) /\ rec[u].updated # new
      BY <3>1 DEF FilesInv, Stamped
    <3>5. \A i \in Ids : files'[i] # None => Past(files[i].updated)'
      BY <1>5, <1>6, <3>3
    <3>6. \A u \in Threads : Saving(u)' => Past(rec[u].updated)'
      <4>1. Past(rec[t].updated)'
        BY <3>1 DEF Past
      <4>2. \A u \in Threads \ {t} : Saving(u)' => Past(rec[u].updated)'
        BY <1>5, <1>6, <3>2, <3>4
      <4> QED
        BY <4>1, <4>2
    <3>7. \A u \in Threads, i \in Ids :
            Saving(u)' /\ files'[i] # None => rec'[u].updated # files'[i].updated
      BY <3>2, <3>3 DEF FilesInv, Stamped
    <3>8. \A u, v \in Threads : u # v /\ Saving(u)' /\ Saving(v)' => rec'[u].updated # rec'[v].updated
      BY <3>2, <3>4 DEF FilesInv, Stamped
    <3>9. Files!StampsDiffer'
      BY DEF FilesInv, Stamped, Files!StampsDiffer
    <3> HIDE DEF new
    <3> QED
      BY <3>5, <3>6, <3>7, <3>8, <3>9 DEF Stamped
  <2> QED
    BY <2>1, <2>2
<1>9. MessagesOnce'
  <2>1. \A u \in Threads : Active(u)' => Active(u)
    BY DEF Active
  <2> QED
    BY <2>1 DEF FilesInv, MessagesOnce
<1>10. Files!AppendsKept' /\ Files!DeletedStaysDeleted'
  BY DEF FilesInv, Files!AppendsKept, Files!DeletedStaysDeleted
<1> QED
  BY <1>2, <1>3, <1>8, <1>9, <1>10 DEF FilesInv

LEMMA ManagerStep ==
  ASSUME FilesInv, FilesBounds, NEW t \in Threads, Files!GetSessionManager(t)
  PROVE  FilesInv'
<1>1. /\ FilesTyped /\ Addressed(t) /\ Prepared(t) /\ filesPc'[t] = "call"
      /\ \A u \in Threads \ {t} : filesPc'[u] = filesPc[u]
  BY FilesLookup DEF Files!GetSessionManager, Files!Go
<1>2. managers' = 1 /\ default' = 1 /\ mine' = [mine EXCEPT ![t] = 1]
  <2>1. managers \in {0, 1} /\ default = managers
    BY <1>1 DEF FilesTyped
  <2>2. default' = 1 /\ managers' = 1
    BY <2>1 DEF Files!GetSessionManager
  <2>3. mine' = [mine EXCEPT ![t] = default']
    BY DEF Files!GetSessionManager
  <2> QED
    BY <2>2, <2>3
<1>3. FilesTyped'
  BY <1>1, <1>2, FilesLookup DEF Files!GetSessionManager, Files!Go, FilesTyped, FilesLabels
<1>4. mine'[t] = 1 /\ \A u \in Threads \ {t} : mine'[u] = mine[u]
  BY <1>1, <1>2 DEF FilesTyped
<1>5. Addressed(t)' /\ Prepared(t)'
  BY <1>1, <1>2, <1>4 DEF Files!GetSessionManager, Addressed, Prepared, Active, Saving, Creates,
  Files!Known
<1> QED
  BY <1>1, <1>2, <1>3, <1>4, <1>5, FilesMoving DEF Files!GetSessionManager, Active, Saving

LEMMA LookingStep ==
  ASSUME FilesInv, FilesBounds, NEW t \in Threads,
         Files!NotFound(t) \/ Files!GetSession(t) \/ Files!ReadSession(t)
  PROVE  FilesInv'
<1>1. PICK next \in {"not_found", "read", "crashed", "idle"} :
        /\ filesPc' = [filesPc EXCEPT ![t] = next]
        /\ next = "read" => filesPc[t] = "call" /\ req[t].op = "get"
  BY DEF Files!NotFound, Files!GetSession, Files!ReadSession, Files!Go
<1>2. /\ FilesTyped /\ Addressed(t) /\ Prepared(t) /\ filesPc'[t] = next
      /\ \A u \in Threads \ {t} : filesPc'[u] = filesPc[u]
  BY <1>1, FilesLookup
<1>3. UNCHANGED <<files, tmp, used, managers, default, filesOwner, req, mine, rec, clock, lastStamp,
                  ops, appended, deleted>>
  BY DEF Files!NotFound, Files!GetSession, Files!ReadSession
<1>4. FilesTyped'
  BY <1>1, <1>2, <1>3 DEF FilesTyped, FilesLabels
<1>5. Addressed(t)' /\ Prepared(t)'
  BY <1>1, <1>2, <1>3 DEF Addressed, Prepared, Active, Saving, Creates, Files!Known
<1> QED
  BY <1>1, <1>2, <1>3, <1>4, <1>5, FilesMoving DEF Active, Saving

LEMMA CreateStep ==
  ASSUME FilesInv, FilesBounds, NEW t \in Threads, Files!CreateSession(t)
  PROVE  FilesInv'
<1> DEFINE new == [messages |-> <<>>, updated |-> Files!Now]
<1>1. /\ FilesTyped /\ Addressed(t) /\ Prepared(t) /\ filesPc'[t] = "write"
      /\ \A u \in Threads \ {t} : filesPc'[u] = filesPc[u]
  BY FilesLookup DEF Files!CreateSession, Files!Go
<1>2. new \in Records /\ new.messages = <<>> /\ new.updated = Files!Now /\ Files!Now \in Nat
  BY <1>1, Later DEF Records
<1>3. rec' = [rec EXCEPT ![t] = new]
  BY DEF Files!CreateSession
<1> HIDE DEF new
<1>4. rec'[t] = new /\ \A u \in Threads \ {t} : rec'[u] = rec[u]
  BY <1>1, <1>3 DEF FilesTyped
<1>5. FilesTyped'
  BY <1>1, <1>2, <1>3 DEF Files!CreateSession, Files!Go, FilesTyped, FilesLabels
<1>6. Addressed(t)' /\ Prepared(t)'
  BY <1>1, <1>2, <1>4 DEF Files!CreateSession, Addressed, Prepared, Active, Saving, Creates,
  Files!Known
<1> QED
  BY <1>1, <1>2, <1>4, <1>5, <1>6, FilesMoving DEF Files!CreateSession, Active, Saving

LEMMA ChangeStep ==
  ASSUME FilesInv, FilesBounds, NEW t \in Threads, Files!Change(t)
  PROVE  FilesInv'
<1> DEFINE i == req[t].id
           new == Files!Changed(t)
<1>1. /\ FilesTyped /\ Addressed(t) /\ Prepared(t) /\ filesPc'[t] = "write" /\ 1 \in Files!Managers
      /\ \A u \in Threads \ {t} : filesPc'[u] = filesPc[u]
  BY FilesLookup DEF Files!Change, Files!Go
<1>2. i \in Ids /\ files[i] \in Records /\ req[t].n \in Nat /\ mine[t] = 1 /\ filesOwner[1] = None
  <2>1. i \in used /\ mine[t] = 1 /\ req[t] \in Requests
    BY <1>1, FilesLookup DEF Files!Change, Addressed, Active
  <2> QED
    BY <1>1, <2>1 DEF Files!Change, FilesTyped, Requests, Files!Free
<1>3. /\ new \in Records /\ new.updated = Files!Now /\ Files!Now \in Nat
      /\ new.messages = IF req[t].op = "append" THEN Append(files[i].messages, req[t].n)
                        ELSE files[i].messages
  <2>1. files[i].messages \in Seq(Nat) /\ Append(files[i].messages, req[t].n) \in Seq(Nat)
    BY <1>2, MessageAdded DEF Records
  <2> QED
    BY <1>1, <2>1, Later DEF Files!Changed, Records
<1>4. rec' = [rec EXCEPT ![t] = new] /\ filesOwner' = [filesOwner EXCEPT ![1] = t]
  BY <1>2 DEF Files!Change, Files!Lock
<1> HIDE DEF new
<1>5. rec'[t] = new /\ filesOwner'[1] = t /\ \A u \in Threads \ {t} : rec'[u] = rec[u]
  BY <1>1, <1>4 DEF FilesTyped
<1>6. FilesTyped'
  BY <1>1, <1>3, <1>4 DEF Files!Change, Files!Go, FilesTyped, FilesLabels
<1>7. Addressed(t)' /\ Prepared(t)'
  BY <1>1, <1>3, <1>5 DEF Files!Change, Addressed, Prepared, Active, Saving, Creates, Files!Known
<1>8. \A u \in Threads : filesOwner[1] # u
  BY <1>2 DEF FilesBounds
<1> QED
  BY <1>1, <1>3, <1>5, <1>6, <1>7, <1>8, FilesMoving DEF Files!Change, Active, Saving

LEMMA WriteStep ==
  ASSUME FilesInv, FilesBounds, NEW t \in Threads, Files!WriteTmp(t)
  PROVE  FilesInv'
<1> DEFINE i == req[t].id
<1>1. /\ FilesTyped /\ Addressed(t) /\ Prepared(t) /\ filesPc'[t] = "replace" /\ 1 \in Files!Managers
      /\ \A u \in Threads \ {t} : filesPc'[u] = filesPc[u]
  BY FilesLookup DEF Files!WriteTmp, Files!Go
<1>2. i \in Ids /\ mine[t] = 1 /\ rec[t] \in Records /\ filesOwner[1] \in {None, t}
  <2>1. i \in used /\ mine[t] = 1 /\ rec[t] \in Records
    BY <1>1 DEF Files!WriteTmp, Addressed, Prepared, Active, Saving
  <2> QED
    BY <1>1, <2>1 DEF Files!WriteTmp, FilesTyped
<1>3. filesOwner' = [filesOwner EXCEPT ![1] = t] /\ tmp' = [tmp EXCEPT ![i] = rec[t]]
  BY <1>2 DEF Files!WriteTmp, Files!Lock
<1>4. filesOwner'[1] = t /\ tmp'[i] = rec[t]
  BY <1>1, <1>2, <1>3 DEF FilesTyped
<1>5. FilesTyped'
  BY <1>1, <1>2, <1>3 DEF Files!WriteTmp, Files!Go, FilesTyped, FilesLabels
<1>6. Addressed(t)' /\ Prepared(t)'
  BY <1>1, <1>4 DEF Files!WriteTmp, Addressed, Prepared, Active, Saving, Creates, Files!Known
<1>7. \A u \in Threads \ {t} : filesOwner[1] # u /\ filesPc[u] # "replace"
  <2>1. \A u \in Threads : filesPc[u] = "replace" => filesOwner[1] = u
    BY DEF FilesInv, Prepared
  <2> QED
    BY <1>2, <2>1 DEF FilesBounds
<1> QED
  BY <1>1, <1>5, <1>6, <1>7, FilesMoving DEF Files!WriteTmp, Active, Saving

LEMMA SaveFailsStep ==
  ASSUME FilesInv, FilesBounds, NEW t \in Threads, Files!SaveFails(t)
  PROVE  FilesInv'
<1> DEFINE i == req[t].id
<1>1. /\ FilesTyped /\ Addressed(t) /\ Prepared(t) /\ filesPc'[t] = "crashed" /\ 1 \in Files!Managers
      /\ \A u \in Threads \ {t} : filesPc'[u] = filesPc[u]
  BY FilesLookup DEF Files!SaveFails, Files!Go
<1>2. i \in Ids /\ mine[t] = 1 /\ filesOwner[1] \in {None, t}
  <2>1. i \in used /\ mine[t] = 1
    BY <1>1 DEF Files!SaveFails, Addressed, Active, Saving
  <2> QED
    BY <1>1, <2>1 DEF Files!SaveFails, FilesTyped
<1>3. /\ filesOwner' = [filesOwner EXCEPT ![1] = None] /\ tmp' = [tmp EXCEPT ![i] = None]
      /\ rec' = [rec EXCEPT ![t] = None]
  BY <1>2 DEF Files!SaveFails, Files!Unlock
<1>4. FilesTyped'
  BY <1>1, <1>2, <1>3 DEF Files!SaveFails, Files!Go, FilesTyped, FilesLabels
<1>5. Addressed(t)' /\ Prepared(t)'
  BY <1>1 DEF Addressed, Prepared, Active, Saving
<1>6. \A u \in Threads \ {t} : filesOwner[1] # u /\ filesPc[u] # "replace" /\ rec'[u] = rec[u]
  <2>1. \A u \in Threads : filesPc[u] = "replace" => filesOwner[1] = u
    BY DEF FilesInv, Prepared
  <2> QED
    BY <1>1, <1>2, <1>3, <2>1 DEF FilesBounds, FilesTyped
<1> QED
  BY <1>1, <1>4, <1>5, <1>6, FilesMoving DEF Files!SaveFails, Active, Saving

-----------------------------------------------------------------------------
(* A request arrives; a session is deleted or saved; time passes.            *)

LEMMA RequestStep ==
  ASSUME FilesInv, FilesBounds, NEW t \in Threads, Files!Request(t)
  PROVE  FilesInv'
<1>1. /\ FilesTyped /\ Files!Known \subseteq used /\ used \subseteq Ids
      /\ Files!Known' = Files!Known /\ 1 \in Files!Managers
  BY FilesLookup DEF Files!Request, Files!Known
<1>2. PICK op \in Files!Operations, i \in Ids :
        /\ req' = [req EXCEPT ![t] = [op |-> op, id |-> i, n |-> ops]]
        /\ used' = used \cup {i}
        /\ IF op = "create" THEN i \notin used ELSE i \in Files!Known
  BY <1>1 DEF Files!Request
<1>3. /\ req'[t] = [op |-> op, id |-> i, n |-> ops]
      /\ \A u \in Threads \ {t} :
           req'[u] = req[u] /\ filesPc'[u] = filesPc[u] /\ mine'[u] = mine[u]
      /\ filesPc'[t] \in {"build", "call"} /\ (filesPc'[t] = "call" => mine'[t] = 1 /\ managers = 1)
  <2>1. filesPc'[t] = IF default = 0 THEN "build" ELSE "call"
    BY <1>1 DEF Files!Request, Files!Go, FilesTyped
  <2>2. mine'[t] = default /\ default \in {0, 1} /\ managers = default
    BY <1>1 DEF Files!Request, FilesTyped
  <2>3. req'[t] = [op |-> op, id |-> i, n |-> ops]
    BY <1>1, <1>2 DEF FilesTyped
  <2>4. \A u \in Threads \ {t} : req'[u] = req[u] /\ filesPc'[u] = filesPc[u] /\ mine'[u] = mine[u]
    BY <1>1, <1>2 DEF Files!Request, Files!Go, FilesTyped
  <2> QED
    BY <2>1, <2>2, <2>3, <2>4
<1>4. UNCHANGED <<files, tmp, managers, default, filesOwner, rec, clock, lastStamp, appended,
                  deleted>>
      /\ ops' = ops + 1 /\ ~Active(t) /\ ops \in Nat
  BY <1>1 DEF Files!Request, Active, FilesTyped
<1>5. FilesTyped'
  <2>1. [op |-> op, id |-> i, n |-> ops] \in Requests
    BY <1>4 DEF Requests
  <2>2. req' \in [Threads -> Requests] /\ mine' \in [Threads -> {0, 1}]
    BY <1>1, <1>2, <2>1 DEF Files!Request, FilesTyped
  <2>3. filesPc' \in [Threads -> FilesLabels] /\ used' \subseteq Ids
    BY <1>1, <1>2 DEF Files!Request, Files!Go, FilesLabels, FilesTyped
  <2> QED
    BY <1>1, <1>4, <2>2, <2>3 DEF FilesTyped
<1>6. \A u \in Threads : Addressed(u)' /\ Prepared(u)'
  <2>1. Addressed(t)'
    BY <1>1, <1>2, <1>3, <1>4 DEF Addressed, Creates
  <2>2. Prepared(t)'
    BY <1>3 DEF Prepared, Saving
  <2>3. ASSUME NEW u \in Threads \ {t} PROVE Addressed(u)' /\ Prepared(u)'
    BY <1>1, <1>2, <1>3, <1>4 DEF FilesInv, Addressed, Prepared, Active, Saving, Creates
  <2> QED
    BY <2>1, <2>2, <2>3
<1>7. Makers'
  <2>1. \A u \in Threads \ {t} : Active(u)' => Active(u) /\ req'[u].id \in used
    BY <1>3 DEF FilesInv, Addressed, Active
  <2>2. Creates(t)' => i \notin used /\ req'[t].id = i
    BY <1>2, <1>3 DEF Creates
  <2> QED
    BY <1>1, <1>2, <1>3, <2>1, <2>2 DEF FilesInv, Makers, Creates
<1>8. Stamped'
  <2>1. \A u \in Threads : Saving(u)' => Saving(u)
    BY <1>3 DEF Saving
  <2> QED
    BY <1>4, <2>1 DEF FilesInv, Stamped, Past, Files!StampsDiffer
<1>9. MessagesOnce'
  <2>1. \A u \in Threads \ {t} : Active(u)' => Active(u) /\ req'[u] = req[u] /\ req[u].n \in Nat
    BY <1>1, <1>3 DEF Active, FilesTyped, Requests
  <2>2. req'[t].n = ops
    BY <1>3
  <2>3. \A j \in Ids : files[j] # None =>
          \A n \in Files!ToSet(files[j].messages) : n < ops /\ n \in Nat
    <3>1. \A j \in Ids : files[j] # None => files[j].messages \in Seq(Nat)
      BY <1>1 DEF FilesTyped, Records
    <3> QED
      BY <3>1 DEF FilesInv, MessagesOnce, Files!ToSet
  <2>4. \A j \in Ids : files'[j] # None =>
          /\ Files!IsInjective(files'[j].messages)
          /\ \A n \in Files!ToSet(files'[j].messages) : n < ops'
    BY <1>4, <2>3 DEF FilesInv, MessagesOnce
  <2>5. \A u \in Threads : Active(u)' => req'[u].n < ops'
    BY <1>4, <2>1, <2>2 DEF FilesInv, MessagesOnce
  <2>6. \A u, v \in Threads : u # v /\ Active(u)' /\ Active(v)' => req'[u].n # req'[v].n
    <3>1. \A u \in Threads \ {t} : Active(u)' => req'[u].n # ops
      BY <1>4, <2>1 DEF FilesInv, MessagesOnce
    <3> QED
      BY <2>1, <2>2, <3>1 DEF FilesInv, MessagesOnce
  <2>7. \A u \in Threads, j \in Ids :
          Active(u)' /\ req'[u].op = "append" /\ files'[j] # None
            => req'[u].n \notin Files!ToSet(files'[j].messages)
    <3>1. \A j \in Ids : files[j] # None => ops \notin Files!ToSet(files[j].messages)
      BY <1>4, <2>3
    <3> QED
      BY <1>4, <2>1, <2>2, <3>1 DEF FilesInv, MessagesOnce
  <2> QED
    BY <2>4, <2>5, <2>6, <2>7 DEF MessagesOnce
<1>10. Files!AppendsKept' /\ Files!DeletedStaysDeleted'
  BY <1>4 DEF FilesInv, Files!AppendsKept, Files!DeletedStaysDeleted
<1> QED
  BY <1>5, <1>6, <1>7, <1>8, <1>9, <1>10 DEF FilesInv

LEMMA DeleteStep ==
  ASSUME FilesInv, FilesBounds, NEW t \in Threads, Files!DeleteSession(t)
  PROVE  FilesInv'
<1> DEFINE i == req[t].id
<1>1. /\ FilesTyped /\ Addressed(t) /\ Prepared(t) /\ filesPc'[t] = "idle" /\ 1 \in Files!Managers
      /\ \A u \in Threads \ {t} : filesPc'[u] = filesPc[u]
  BY FilesLookup DEF Files!DeleteSession, Files!Go
<1>2. i \in Files!Known /\ i \in Ids /\ filesOwner[1] = None
  BY <1>1 DEF Files!DeleteSession, Addressed, Active, Creates, Files!Free, FilesTyped
<1>3. /\ files' = [files EXCEPT ![i] = None] /\ deleted' = deleted \cup {i}
      /\ appended' = [appended EXCEPT ![i] = {}]
      /\ UNCHANGED <<tmp, used, managers, default, filesOwner, req, mine, rec, clock, lastStamp,
                     ops>>
  BY DEF Files!DeleteSession
<1> HIDE DEF i
<1>4. /\ files'[i] = None /\ appended'[i] = {}
      /\ \A j \in Ids \ {i} : files'[j] = files[j] /\ appended'[j] = appended[j]
  BY <1>1, <1>2, <1>3 DEF FilesTyped
<1>5. Files!Known' = Files!Known
  BY <1>2, <1>3, <1>4 DEF Files!Known
<1>6. FilesTyped'
  BY <1>1, <1>2, <1>3 DEF Files!DeleteSession, Files!Go, FilesLabels, FilesTyped
<1>7. \A u \in Threads : Addressed(u)' /\ Prepared(u)'
  <2>1. Addressed(t)' /\ Prepared(t)'
    BY <1>1 DEF Addressed, Prepared, Active, Saving
  <2>2. ASSUME NEW u \in Threads \ {t} PROVE Addressed(u)' /\ Prepared(u)'
    <3>1. Addressed(u) /\ Prepared(u) /\ filesOwner[1] # u
      BY <1>2 DEF FilesInv, FilesBounds
    <3>2. filesPc'[u] = filesPc[u]
      BY <1>1
    <3>3. Addressed(u)'
      BY <1>3, <1>5, <3>1, <3>2 DEF Addressed, Active, Creates
    <3>4. Prepared(u)'
      BY <1>3, <3>1, <3>2 DEF Prepared, Saving, Creates
    <3> QED
      BY <3>3, <3>4
  <2> QED
    BY <2>1, <2>2
<1>8. \A u \in Threads : (Active(u)' => Active(u)) /\ (Saving(u)' => Saving(u))
  BY <1>1 DEF Active, Saving
<1>9. Makers'
  BY <1>3, <1>5, <1>8 DEF FilesInv, Makers, Creates
<1>10. Stamped'
  BY <1>3, <1>4, <1>8 DEF FilesInv, Stamped, Past, Files!StampsDiffer
<1>11. MessagesOnce'
  BY <1>3, <1>4, <1>8 DEF FilesInv, MessagesOnce
<1>12. Files!AppendsKept' /\ Files!DeletedStaysDeleted'
  BY <1>3, <1>4, <1>1 DEF FilesInv, Files!AppendsKept, Files!DeletedStaysDeleted, FilesTyped
<1> QED
  BY <1>6, <1>7, <1>9, <1>10, <1>11, <1>12 DEF FilesInv

LEMMA ReplaceStep ==
  ASSUME FilesInv, FilesBounds, NEW t \in Threads, Files!Replace(t)
  PROVE  FilesInv'
<1> DEFINE i == req[t].id
           new == rec[t]
           n == req[t].n
<1>1. /\ FilesTyped /\ Addressed(t) /\ Prepared(t) /\ filesPc'[t] = "idle" /\ 1 \in Files!Managers
      /\ filesPc[t] = "replace" /\ \A u \in Threads \ {t} : filesPc'[u] = filesPc[u]
  BY FilesLookup DEF Files!Replace, Files!Go
<1>2. /\ i \in Ids /\ i \in used /\ mine[t] = 1 /\ new \in Records /\ filesOwner[1] = t /\ tmp[i] = new
      /\ n \in Nat /\ req[t].op \in {"create", "append", "rename"}
  <2>1. i \in used /\ mine[t] = 1 /\ new \in Records /\ filesOwner[1] = t /\ tmp[i] = new
        /\ req[t].op \in {"create", "append", "rename"}
    BY <1>1 DEF Addressed, Prepared, Active, Saving
  <2>2. n \in Nat
    BY <1>1 DEF FilesTyped, Requests
  <2> QED
    BY <1>1, <2>1, <2>2 DEF FilesTyped
<1>3. /\ files' = [files EXCEPT ![i] = new] /\ tmp' = [tmp EXCEPT ![i] = None]
      /\ filesOwner' = [filesOwner EXCEPT ![1] = None] /\ rec' = [rec EXCEPT ![t] = None]
      /\ appended' = [appended EXCEPT ![i] =
                        IF req[t].op = "append" THEN @ \cup {n} ELSE @]
      /\ UNCHANGED <<used, managers, default, req, mine, clock, lastStamp, ops, deleted>>
  BY <1>2 DEF Files!Replace, Files!Unlock
<1>4. /\ i \notin deleted
      /\ Creates(t) => i \notin Files!Known /\ files[i] = None /\ new.messages = <<>>
      /\ ~Creates(t) => /\ i \in Files!Known /\ files[i] \in Records
                        /\ new.messages = IF req[t].op = "append"
                                          THEN Append(files[i].messages, n)
                                          ELSE files[i].messages
  <2>1. Creates(t) <=> i \notin Files!Known
    BY <1>1 DEF Addressed, Active
  <2>2. Saving(t)
    BY <1>1 DEF Saving
  <2>3. CASE Creates(t)
    BY <1>1, <1>2, <2>1, <2>2, <2>3 DEF Prepared, Files!Known
  <2>4. CASE ~Creates(t)
    <3>1. files[i] # None
      BY <1>1, <2>2, <2>4 DEF Prepared
    <3>2. files[i] \in Records /\ i \notin deleted
      BY <1>1, <1>2, <3>1 DEF FilesTyped, FilesInv, Files!DeletedStaysDeleted
    <3> QED
      BY <1>1, <2>1, <2>2, <2>4, <3>1, <3>2 DEF Prepared
  <2> QED
    BY <2>3, <2>4
<1>5. Creates(t) <=> req[t].op = "create"
  BY DEF Creates
<1> HIDE DEF i, new, n
<1>6. /\ files'[i] = new /\ new # None
      /\ appended'[i] = (IF req[t].op = "append" THEN appended[i] \cup {n} ELSE appended[i])
      /\ \A j \in Ids \ {i} : files'[j] = files[j] /\ appended'[j] = appended[j]
      /\ \A u \in Threads \ {t} : rec'[u] = rec[u]
  BY <1>1, <1>2, <1>3 DEF FilesTyped, FilesBounds
<1>7. Files!Known' = Files!Known \cup {i}
  BY <1>2, <1>3, <1>6 DEF Files!Known
<1>8. FilesTyped'
  <2>1. appended' \in [Ids -> SUBSET Nat]
    BY <1>1, <1>2, <1>3 DEF FilesTyped
  <2>2. filesPc' \in [Threads -> FilesLabels]
    BY <1>1 DEF Files!Replace, Files!Go, FilesLabels, FilesTyped
  <2> QED
    BY <1>1, <1>2, <1>3, <2>1, <2>2 DEF FilesTyped
<1>9. \A u \in Threads \ {t} : Saving(u) => filesPc[u] = "write" /\ Creates(u)
  BY <1>2 DEF FilesInv, Prepared, Saving
<1>10. \A u \in Threads : Addressed(u)' /\ Prepared(u)'
  <2>1. Addressed(t)' /\ Prepared(t)'
    BY <1>1 DEF Addressed, Prepared, Active, Saving
  <2>2. ASSUME NEW u \in Threads \ {t} PROVE Addressed(u)' /\ Prepared(u)'
    <3>1. Addressed(u) /\ Prepared(u) /\ filesPc'[u] = filesPc[u]
      BY <1>1 DEF FilesInv
    <3>2. Active(u) /\ Creates(u) => req[u].id # i
      <4>1. Active(t) /\ i = req[t].id
        BY <1>1 DEF Active, i
      <4> QED
        BY <1>4, <3>1, <4>1 DEF FilesInv, Makers, Addressed
    <3>3. Addressed(u)'
      BY <1>3, <1>7, <3>1, <3>2 DEF Addressed, Active, Creates
    <3>4. Prepared(u)'
      BY <1>3, <1>6, <1>9, <3>1 DEF Prepared, Saving, Creates
    <3> QED
      BY <3>3, <3>4
  <2> QED
    BY <2>1, <2>2
<1>11. \A u \in Threads : (Active(u)' => Active(u) /\ u # t) /\ (Saving(u)' => Saving(u) /\ u # t)
  BY <1>1 DEF Active, Saving
<1>12. Makers'
  BY <1>2, <1>3, <1>7, <1>11 DEF FilesInv, Makers, Creates
<1>13. Stamped'
  <2>1. Saving(t) /\ Past(new.updated)
    BY <1>1 DEF FilesInv, Stamped, Saving, new
  <2>2. \A j \in Ids : files[j] # None => files[j].updated # new.updated
    BY <2>1 DEF FilesInv, Stamped, new
  <2>3. \A u \in Threads \ {t} : Saving(u) => rec[u].updated # new.updated
    BY <2>1 DEF FilesInv, Stamped, new
  <2>4. Files!StampsDiffer'
    BY <1>6, <2>2 DEF FilesInv, Stamped, Files!StampsDiffer
  <2> QED
    BY <1>3, <1>6, <1>11, <2>1, <2>2, <2>3, <2>4 DEF FilesInv, Stamped, Past
<1>14. /\ Files!IsInjective(new.messages) /\ new.messages \in Seq(Nat)
       /\ \A m \in Files!ToSet(new.messages) :
            \/ m = n /\ req[t].op = "append"
            \/ files[i] # None /\ m \in Files!ToSet(files[i].messages)
       /\ ~Creates(t) => Files!ToSet(files[i].messages) \subseteq Files!ToSet(new.messages)
       /\ req[t].op = "append" => n \in Files!ToSet(new.messages)
  <2>1. CASE Creates(t)
    BY <1>2, <1>4, <1>5, <2>1 DEF Files!IsInjective, Files!ToSet, Records
  <2>2. CASE ~Creates(t)
    <3>1. files[i].messages \in Seq(Nat) /\ files[i] # None
      BY <1>4, <2>2 DEF Records, FilesBounds
    <3>2. Files!IsInjective(files[i].messages)
      BY <1>2, <3>1 DEF FilesInv, MessagesOnce
    <3>3. req[t].op = "append" => n \notin Files!ToSet(files[i].messages)
      BY <1>1, <1>2, <3>1 DEF FilesInv, MessagesOnce, Active, n
    <3> DEFINE old == files[i].messages
    <3> HIDE DEF old
    <3>4. /\ Append(old, n) \in Seq(Nat) /\ Files!ToSet(Append(old, n)) = Files!ToSet(old) \cup {n}
          /\ Files!IsInjective(old) /\ n \notin Files!ToSet(old)
               => Files!IsInjective(Append(old, n))
      BY <1>2, <3>1, MessageAdded DEF old
    <3>5. new.messages = IF req[t].op = "append" THEN Append(old, n) ELSE old
      BY <1>4, <2>2 DEF old
    <3>6. /\ Files!IsInjective(new.messages) /\ new.messages \in Seq(Nat)
          /\ Files!ToSet(new.messages) =
               IF req[t].op = "append" THEN Files!ToSet(old) \cup {n} ELSE Files!ToSet(old)
      BY <3>1, <3>2, <3>3, <3>4, <3>5 DEF old
    <3> QED
      BY <2>2, <3>1, <3>6 DEF old
  <2> QED
    BY <2>1, <2>2
<1>15. MessagesOnce'
  <2>1. n < ops /\ \A u \in Threads \ {t} : Active(u) => req[u].n # n
    BY <1>1 DEF FilesInv, MessagesOnce, Active, n
  <2>2. \A m \in Files!ToSet(new.messages) : m < ops
    BY <1>2, <1>14, <2>1 DEF FilesInv, MessagesOnce
  <2>3. \A u \in Threads \ {t} :
          Active(u) /\ req[u].op = "append" => req[u].n \notin Files!ToSet(new.messages)
    BY <1>2, <1>14, <2>1 DEF FilesInv, MessagesOnce
  <2>4. \A j \in Ids : files'[j] # None =>
          /\ Files!IsInjective(files'[j].messages)
          /\ \A m \in Files!ToSet(files'[j].messages) : m < ops'
    BY <1>3, <1>6, <1>14, <2>2 DEF FilesInv, MessagesOnce
  <2>5. \A u \in Threads, j \in Ids :
          Active(u)' /\ req'[u].op = "append" /\ files'[j] # None
            => req'[u].n \notin Files!ToSet(files'[j].messages)
    BY <1>3, <1>6, <1>11, <2>3 DEF FilesInv, MessagesOnce
  <2> QED
    BY <1>3, <1>11, <2>4, <2>5 DEF FilesInv, MessagesOnce
<1>16. Files!AppendsKept'
  <2>1. appended'[i] \subseteq Files!ToSet(new.messages)
    BY <1>2, <1>4, <1>5, <1>6, <1>14 DEF FilesInv, Files!AppendsKept
  <2> QED
    BY <1>6, <2>1 DEF FilesInv, Files!AppendsKept
<1>17. Files!DeletedStaysDeleted'
  BY <1>1, <1>3, <1>4, <1>6 DEF FilesInv, Files!DeletedStaysDeleted, FilesTyped
<1> QED
  BY <1>8, <1>10, <1>12, <1>13, <1>15, <1>16, <1>17 DEF FilesInv

LEMMA TimeStep ==
  ASSUME FilesInv, FilesBounds, Files!Tick \/ UNCHANGED Files!vars
  PROVE  FilesInv'
<1>1. /\ UNCHANGED <<files, tmp, used, managers, default, filesOwner, filesPc, req, mine, rec,
                     lastStamp, ops, appended, deleted>>
      /\ clock' \in Nat /\ clock' >= clock /\ FilesTyped
  BY DEF FilesInv, FilesTyped, Files!Tick, Files!vars
<1>2. Files!Known' = Files!Known
  BY <1>1 DEF Files!Known
<1>3. FilesTyped'
  BY <1>1 DEF FilesTyped
<1>4. \A u \in Threads : Addressed(u)' /\ Prepared(u)'
  BY <1>1, <1>2 DEF FilesInv, Addressed, Prepared, Active, Saving, Creates
<1>5. Makers' /\ MessagesOnce' /\ Files!AppendsKept' /\ Files!DeletedStaysDeleted'
  BY <1>1, <1>2 DEF FilesInv, Makers, MessagesOnce, Files!AppendsKept, Files!DeletedStaysDeleted,
  Active, Creates
<1>6. Stamped'
  <2>1. /\ \A i \in Ids : files[i] # None => files[i].updated \in Nat
        /\ \A u \in Threads : Saving(u) => rec[u].updated \in Nat
    BY <1>1 DEF FilesInv, FilesTyped, Prepared, Records
  <2>2. \A stamp \in Nat : Past(stamp) => Past(stamp)'
    BY <1>1 DEF Past, FilesTyped
  <2> QED
    BY <1>1, <2>1, <2>2 DEF FilesInv, Stamped, Files!StampsDiffer, Saving
<1> QED
  BY <1>3, <1>4, <1>5, <1>6 DEF FilesInv

LEMMA RestartStep ==
  ASSUME FilesInv, FilesBounds, Files!Restart
  PROVE  FilesInv'
<1>1. /\ FilesTyped /\ UNCHANGED <<files, used, ops, appended, deleted>>
      /\ \A u \in Threads : filesPc'[u] = "idle"
  BY DEF FilesInv, Files!Restart
<1>2. clock' \in Nat /\ clock < clock' /\ lastStamp < clock' /\ lastStamp' = 0
  <2>1. PICK m \in {clock, lastStamp} : m >= clock /\ m >= lastStamp /\ Files!Max({clock, lastStamp}) = m
    <3>1. clock \in Nat /\ lastStamp \in Nat
      BY <1>1 DEF FilesTyped
    <3>2. \E m \in {clock, lastStamp} : \A k \in {clock, lastStamp} : m >= k
      BY <3>1
    <3> QED
      BY <3>2 DEF Files!Max
  <2> QED
    BY <1>1, <2>1 DEF Files!Restart, FilesTyped
<1>3. Files!Known' = Files!Known
  BY <1>1 DEF Files!Known
<1>4. FilesTyped'
  BY <1>1, <1>2 DEF Files!Restart, FilesTyped, FilesLabels, Files!NoRequest, Requests,
  Files!Operations
<1>5. \A u \in Threads : Addressed(u)' /\ Prepared(u)' /\ ~Active(u)' /\ ~Saving(u)'
  BY <1>1 DEF Addressed, Prepared, Active, Saving
<1>6. Makers' /\ MessagesOnce' /\ Files!AppendsKept' /\ Files!DeletedStaysDeleted'
  BY <1>1, <1>3, <1>5 DEF FilesInv, Makers, MessagesOnce, Files!AppendsKept,
  Files!DeletedStaysDeleted
<1>7. Stamped'
  <2>1. \A i \in Ids : files[i] # None => files[i].updated \in Nat
    BY <1>1 DEF FilesTyped, Records
  <2>2. \A stamp \in Nat : Past(stamp) => Past(stamp)'
    BY <1>1, <1>2 DEF Past, FilesTyped
  <2> QED
    BY <1>1, <1>5, <2>1, <2>2 DEF FilesInv, Stamped, Files!StampsDiffer
<1> QED
  BY <1>4, <1>5, <1>6, <1>7 DEF FilesInv

LEMMA FilesInit == FilesBounds /\ Files!Init => FilesInv
<1> SUFFICES ASSUME FilesBounds, Files!Init PROVE FilesInv
  OBVIOUS
<1>1. FilesTyped
  BY DEF Files!Init, FilesTyped, FilesLabels, Files!NoRequest, Requests, Files!Operations
<1>2. \A t \in Threads : ~Active(t) /\ ~Saving(t) /\ Addressed(t) /\ Prepared(t)
  BY DEF Files!Init, Active, Saving, Addressed, Prepared
<1>3. \A i \in Ids : files[i] = None /\ appended[i] = {}
  BY DEF Files!Init
<1>4. Files!Known = {} /\ deleted = {}
  BY <1>3 DEF Files!Init, Files!Known
<1> QED
  BY <1>1, <1>2, <1>3, <1>4
     DEF FilesInv, Makers, Stamped, Files!StampsDiffer, MessagesOnce, Files!AppendsKept,
     Files!DeletedStaysDeleted

LEMMA FilesNext == ASSUME FilesInv, FilesBounds, [Files!Next]_(Files!vars) PROVE FilesInv'
<1>1. ASSUME NEW t \in Threads, Files!Step(t) PROVE FilesInv'
  BY <1>1, ManagerStep, LookingStep, CreateStep, ChangeStep, WriteStep, SaveFailsStep,
  RequestStep,
     DeleteStep, ReplaceStep DEF Files!Step
<1> QED
  BY <1>1, TimeStep, RestartStep DEF Files!Next

(* In all that concurrent requests and crashes can reach, a thread saves the   *)
(* session as it is, changed by its request.                                *)
THEOREM FilesInductive == ASSUME FilesBounds PROVE Files!Spec => []FilesInv
<1>1. Files!Init => FilesInv
  BY FilesInit
<1>2. FilesInv /\ [Files!Next]_(Files!vars) => FilesInv'
  BY FilesNext
<1> QED
  BY <1>1, <1>2, PTL DEF Files!Spec

(* A message whose append returned is in its session's file; a deleted        *)
(* session does not come back; and no two sessions have one stamp.           *)
THEOREM SessionsKept == ASSUME FilesBounds PROVE Files!Spec => []Files!SessionsAreKept
<1>1. FilesInv => Files!SessionsAreKept
  BY DEF FilesInv, Stamped, Files!SessionsAreKept
<1> QED
  BY <1>1, FilesInductive, PTL

(* One manager at most is used, and what is stored is well formed.            *)
THEOREM FilesTypeCorrect == ASSUME FilesBounds PROVE Files!Spec => []Files!TypeOK
<1>1. ASSUME FilesInv PROVE Files!TypeOK
  <2>1. FilesTyped
    BY <1>1 DEF FilesInv
  <2>2. managers \in 0 .. Files!Cardinality(Threads) /\ default \in 0 .. managers
    BY <2>1, FS_CardinalityType, Threaded DEF FilesTyped, Files!Managers, FilesBounds
  <2>3. \A i \in Ids : files[i] # None =>
          files[i].updated \in Nat /\ Files!IsInjective(files[i].messages)
    BY <1>1, <2>1 DEF FilesInv, MessagesOnce, FilesTyped, Records
  <2> QED
    BY <2>1, <2>2, <2>3 DEF Files!TypeOK, FilesTyped, FilesLabels
<1> QED
  BY <1>1, FilesInductive, PTL

-----------------------------------------------------------------------------
(* THE COMPLETIONS                                                           *)

CONSTANTS Texts, CacheSize, MaxTyped
VARIABLES document, timer, editor, service, completions, overtaken, recent

Typing == INSTANCE InlineCompletion WITH
    cache <- completions, used <- recent, MaxRequests <- MaxTyped

EditorEntries == [st : {"waits", "asks", "shown", "nothing"}, text : Texts, over : Texts,
                  cancelled : BOOLEAN]
Said == {Typing!NoAnswer} \cup {Typing!Completion(k) : k \in Texts}
ServiceEntries == [at : {"idle", "called", "infers", "puts", "answered"}, text : Said]
CacheEntries == [key : Texts, text : Said]

TypingTyped ==
    /\ document \in Texts
    /\ editor \in Seq(EditorEntries) /\ Len(editor) <= MaxTyped
    /\ service \in Seq(ServiceEntries) /\ Len(service) = Len(editor)
    /\ timer \in 0 .. Len(editor)
    /\ overtaken \subseteq 1 .. Len(editor)
    /\ completions \in Seq(CacheEntries) /\ recent \in Seq(Texts)

\* Whoever the timer is for waits, and nobody after; all but the last of the live
\* requests were overtaken, and the last one has the timer if nobody cleared it.
Queued ==
    /\ timer # 0 => /\ editor[timer].st = "waits"
                    /\ \A r \in timer + 1 .. Len(editor) : editor[r].st # "waits"
    /\ \A r \in 1 .. Len(editor) - 1 : Typing!Live(r) => r \in overtaken
    /\ Len(editor) > 0 /\ editor[Len(editor)].st = "waits"
       /\ (\A r \in overtaken : ~editor[r].cancelled) => timer = Len(editor)

\* What a live request that was not overtaken is about is still there.
CurrentAt(r) ==
    /\ Typing!Live(r) /\ r \notin overtaken => editor[r].text = document
    /\ editor[r].st = "waits" => service[r].at = "idle" /\ ~editor[r].cancelled
    /\ service[r].at = "puts" => service[r].text = Typing!Completion(editor[r].text)
    /\ service[r].at = "answered" =>
          service[r].text \in {Typing!NoAnswer, Typing!Completion(editor[r].text)}
    /\ editor[r].st = "shown" =>
          /\ ~editor[r].cancelled /\ service[r].at = "answered"
          /\ r \notin overtaken => service[r].text = Typing!Completion(editor[r].over)

\* No key is at two places.
Apart(keys) == \A i, j \in 1 .. Len(keys) : keys[i] = keys[j] => i = j

\* What was at i gives way to an element at the end.
Moved(S, seq, i, e, moved) ==
    /\ moved \in Seq(S) /\ Len(moved) = Len(seq)
    /\ \A k \in 1 .. Len(seq) :
          moved[k] = IF k = Len(seq) THEN e ELSE IF k < i THEN seq[k] ELSE seq[k + 1]

\* The cache is the end of what was used, each key with its own completion.
Lru(seq, keys) ==
    /\ Len(seq) = IF Len(keys) < CacheSize THEN Len(keys) ELSE CacheSize
    /\ \A i \in 1 .. Len(seq) :
          seq[i].key = keys[Len(keys) - Len(seq) + i] /\ seq[i].text = Typing!Completion(seq[i].key)
    /\ Apart(keys)

TypingInv ==
    TypingTyped /\ Queued /\ (\A r \in 1 .. Len(editor) : CurrentAt(r)) /\ Lru(completions, recent)

\* Without the element at i.
LEMMA RemovedAt ==
  ASSUME NEW S, NEW seq \in Seq(S), NEW i \in 1 .. Len(seq)
  PROVE  /\ Typing!RemoveAt(seq, i) \in Seq(S) /\ Len(Typing!RemoveAt(seq, i)) = Len(seq) - 1
         /\ \A k \in 1 .. Len(seq) - 1 :
               Typing!RemoveAt(seq, i)[k] = IF k < i THEN seq[k] ELSE seq[k + 1]
<1>. DEFINE head == SubSeq(seq, 1, i - 1)
            tail == SubSeq(seq, i + 1, Len(seq))
<1>1. /\ head \in Seq(S) /\ Len(head) = i - 1
      /\ \A k \in 1 .. i - 1 : head[k] = seq[k]
  OBVIOUS
<1>2. /\ tail \in Seq(S) /\ Len(tail) = Len(seq) - i
      /\ \A k \in 1 .. Len(seq) - i : tail[k] = seq[i + k]
  OBVIOUS
<1>. HIDE DEF head, tail
<1>3. /\ head \o tail \in Seq(S) /\ Len(head \o tail) = Len(seq) - 1
      /\ \A k \in 1 .. Len(seq) - 1 :
            (head \o tail)[k] = IF k < i THEN head[k] ELSE tail[k - (i - 1)]
  <2>1. /\ head \o tail \in Seq(S) /\ Len(head \o tail) = Len(head) + Len(tail)
        /\ \A k \in 1 .. Len(head) + Len(tail) :
              (head \o tail)[k] = IF k <= Len(head) THEN head[k] ELSE tail[k - Len(head)]
    BY <1>1, <1>2, ConcatProperties
  <2>2. Len(head) + Len(tail) = Len(seq) - 1 /\ Len(seq) \in Nat
    BY <1>1, <1>2
  <2>3. \A k \in 1 .. Len(seq) - 1 : k < i <=> k <= i - 1
    BY <2>2
  <2>. QED BY <1>1, <2>1, <2>2, <2>3
<1>4. ASSUME NEW k \in 1 .. Len(seq) - 1
      PROVE  (head \o tail)[k] = IF k < i THEN seq[k] ELSE seq[k + 1]
  <2>1. CASE k < i
    <3>1. k \in 1 .. i - 1
      BY <2>1
    <3>. QED BY <1>1, <1>3, <2>1, <3>1
  <2>2. CASE ~(k < i)
    <3>1. k - (i - 1) \in 1 .. Len(seq) - i /\ i + (k - (i - 1)) = k + 1
      BY <2>2
    <3>2. tail[k - (i - 1)] = seq[k + 1]
      BY <1>2, <3>1
    <3>. QED BY <1>3, <2>2, <3>2
  <2>. QED BY <2>1, <2>2
<1>. QED BY <1>3, <1>4 DEF Typing!RemoveAt, head, tail

\* The element at i is moved to the end, and another takes its place there.
LEMMA MovedToEnd ==
  ASSUME NEW S, NEW seq \in Seq(S), NEW i \in 1 .. Len(seq), NEW e \in S
  PROVE  Moved(S, seq, i, e, Append(Typing!Without(seq, {i}), e))
<1>. DEFINE rest == Typing!RemoveAt(seq, i)
<1>1. Typing!Without(seq, {i}) = rest
  BY DEF Typing!Without
<1>2. /\ rest \in Seq(S) /\ Len(rest) = Len(seq) - 1
      /\ \A k \in 1 .. Len(seq) - 1 : rest[k] = IF k < i THEN seq[k] ELSE seq[k + 1]
  BY RemovedAt
<1>. HIDE DEF rest
<1>3. /\ Append(rest, e) \in Seq(S) /\ Len(Append(rest, e)) = Len(seq)
      /\ Append(rest, e)[Len(seq)] = e
      /\ \A k \in 1 .. Len(seq) - 1 : Append(rest, e)[k] = rest[k]
  BY <1>2
<1>4. ASSUME NEW k \in 1 .. Len(seq)
      PROVE  Append(rest, e)[k] = IF k = Len(seq) THEN e ELSE IF k < i THEN seq[k] ELSE seq[k + 1]
  <2>1. CASE k = Len(seq)
    BY <1>3, <2>1
  <2>2. CASE k # Len(seq)
    <3>1. k \in 1 .. Len(seq) - 1
      BY <2>2
    <3>. QED BY <1>2, <1>3, <2>2, <3>1
  <2>. QED BY <2>1, <2>2
<1>. QED BY <1>1, <1>3, <1>4 DEF Moved

\* Where a key is in a sequence that holds each once.
LEMMA PlaceOf ==
  ASSUME NEW keys \in Seq(Texts), NEW j \in 1 .. Len(keys), Apart(keys)
  PROVE  {k \in DOMAIN keys : keys[k] = keys[j]} = {j}
<1>1. DOMAIN keys = 1 .. Len(keys)
  OBVIOUS
<1>. QED BY <1>1 DEF Apart

\* Moving a key to the end keeps the keys apart.
LEMMA KeysApart ==
  ASSUME NEW keys \in Seq(Texts), NEW j \in 1 .. Len(keys), Apart(keys),
         NEW moved, Moved(Texts, keys, j, keys[j], moved)
  PROVE  Apart(moved)
<1>. DEFINE from(k) == IF k = Len(keys) THEN j ELSE IF k < j THEN k ELSE k + 1
<1>1. \A k \in 1 .. Len(keys) : from(k) \in 1 .. Len(keys) /\ moved[k] = keys[from(k)]
  BY DEF Moved
<1>2. \A a, b \in 1 .. Len(keys) : from(a) = from(b) => a = b
  OBVIOUS
<1>. HIDE DEF from
<1>3. ASSUME NEW a \in 1 .. Len(keys), NEW b \in 1 .. Len(keys), moved[a] = moved[b]
      PROVE  a = b
  <2>1. from(a) \in 1 .. Len(keys) /\ from(b) \in 1 .. Len(keys)
    BY <1>1
  <2>2. keys[from(a)] = keys[from(b)]
    BY <1>1, <1>3
  <2>3. from(a) = from(b)
    BY <2>1, <2>2 DEF Apart
  <2>. QED BY <1>2, <2>3
<1>. QED BY <1>3 DEF Apart, Moved

\* A hit moves the entry, and the key in what was used, to the end.
LEMMA Touched ==
  ASSUME CacheSize \in Nat, NEW seq \in Seq(CacheEntries), NEW keys \in Seq(Texts), Lru(seq, keys),
         NEW i \in 1 .. Len(seq), NEW e \in CacheEntries,
         e.key = seq[i].key, e.text = Typing!Completion(e.key)
  PROVE  /\ Append(Typing!Without(seq, {i}), e) \in Seq(CacheEntries)
         /\ Append(Typing!Without(keys, {k \in DOMAIN keys : keys[k] = e.key}), e.key) \in Seq(Texts)
         /\ Lru(Append(Typing!Without(seq, {i}), e),
                Append(Typing!Without(keys, {k \in DOMAIN keys : keys[k] = e.key}), e.key))
<1>. DEFINE n == Len(keys)
            m == Len(seq)
            j == n - m + i
            moved == Append(Typing!Without(seq, {i}), e)
            touched == Append(Typing!Without(keys, {j}), e.key)
<1>1. n \in Nat /\ m \in Nat
  OBVIOUS
<1>2. m = IF n < CacheSize THEN n ELSE CacheSize
  BY DEF Lru
<1>3. Apart(keys)
  BY DEF Lru
<1>4. \A k \in 1 .. m : seq[k].key = keys[n - m + k] /\ seq[k].text = Typing!Completion(seq[k].key)
  BY DEF Lru
<1>5. e.key \in Texts
  BY DEF CacheEntries
<1>6. /\ moved \in Seq(CacheEntries) /\ Len(moved) = m
      /\ \A k \in 1 .. m : moved[k] = IF k = m THEN e ELSE IF k < i THEN seq[k] ELSE seq[k + 1]
  <2>1. Moved(CacheEntries, seq, i, e, moved)
    BY MovedToEnd
  <2>. HIDE DEF moved
  <2>. QED BY <2>1 DEF Moved
<1>. HIDE DEF n, m
<1>7. j \in 1 .. n /\ m <= n /\ i \in 1 .. m
  <2>1. i \in 1 .. m
    BY DEF m
  <2>. QED BY <1>1, <1>2, <2>1
<1>. HIDE DEF j
<1>8. keys[j] = e.key
  BY <1>4, <1>7 DEF j
<1>9. {k \in DOMAIN keys : keys[k] = e.key} = {j}
  <2>1. j \in 1 .. Len(keys)
    BY <1>7 DEF n
  <2>. QED BY <1>3, <1>8, <2>1, PlaceOf
<1>10. Moved(Texts, keys, j, e.key, touched)
  <2>1. j \in 1 .. Len(keys)
    BY <1>7 DEF n
  <2>. QED BY <1>5, <2>1, MovedToEnd
<1>. HIDE DEF moved, touched
<1>11. Apart(touched)
  <2>1. j \in 1 .. Len(keys)
    BY <1>7 DEF n
  <2>. QED BY <1>3, <1>8, <1>10, <2>1, KeysApart
<1>20. /\ touched \in Seq(Texts) /\ Len(touched) = n
       /\ \A k \in 1 .. n :
             touched[k] = IF k = n THEN e.key ELSE IF k < j THEN keys[k] ELSE keys[k + 1]
  BY <1>10 DEF Moved, n
<1>12. ASSUME NEW k \in 1 .. m
       PROVE  moved[k].key = touched[n - m + k] /\ moved[k].text = Typing!Completion(moved[k].key)
  <2>1. CASE k = m
    <3>1. n - m + k = n /\ n \in 1 .. n
      BY <1>1, <1>7, <2>1
    <3>2. moved[k] = e
      BY <1>6, <2>1
    <3>. QED BY <1>20, <3>1, <3>2
  <2>2. CASE k < i /\ k # m
    <3>1. n - m + k \in 1 .. n /\ n - m + k < j /\ n - m + k # n
      BY <1>1, <1>7, <2>2 DEF j
    <3>2. moved[k] = seq[k]
      BY <1>6, <2>2
    <3>. QED BY <1>4, <1>20, <3>1, <3>2
  <2>3. CASE ~(k < i) /\ k # m
    <3>1. /\ n - m + k \in 1 .. n /\ ~(n - m + k < j) /\ n - m + k # n
          /\ k + 1 \in 1 .. m /\ (n - m + k) + 1 = n - m + (k + 1)
      BY <1>1, <1>7, <2>3 DEF j
    <3>2. moved[k] = seq[k + 1]
      BY <1>6, <2>3
    <3>3. touched[n - m + k] = keys[n - m + (k + 1)]
      BY <1>20, <3>1
    <3>. QED BY <1>4, <3>1, <3>2, <3>3
  <2>. QED BY <2>1, <2>2, <2>3
<1>13. Lru(moved, touched)
  BY <1>2, <1>6, <1>20, <1>11, <1>12 DEF Lru
<1>. QED BY <1>6, <1>9, <1>20, <1>13 DEF moved, touched

\* A new entry pushes the oldest out of a full cache.
LEMMA PutIn ==
  ASSUME CacheSize \in Nat, NEW seq \in Seq(CacheEntries), NEW keys \in Seq(Texts), Lru(seq, keys),
         NEW e \in CacheEntries, e.text = Typing!Completion(e.key),
         \A k \in 1 .. Len(seq) : seq[k].key # e.key,
         NEW kept, kept = IF Len(Append(seq, e)) > CacheSize
                          THEN Tail(Append(seq, e)) ELSE Append(seq, e),
         NEW touched,
         touched = Append(Typing!Without(keys, {k \in DOMAIN keys : keys[k] = e.key}), e.key)
  PROVE  kept \in Seq(CacheEntries) /\ touched \in Seq(Texts) /\ Lru(kept, touched)
<1>. DEFINE n == Len(keys)
            m == Len(seq)
            longer == Append(seq, e)
<1>1. n \in Nat /\ m \in Nat
  OBVIOUS
<1>2. m = IF n < CacheSize THEN n ELSE CacheSize
  BY DEF Lru
<1>3. Apart(keys)
  BY DEF Lru
<1>4. \A k \in 1 .. m : seq[k].key = keys[n - m + k] /\ seq[k].text = Typing!Completion(seq[k].key)
  BY DEF Lru
<1>5. e.key \in Texts
  BY DEF CacheEntries
<1>6. /\ longer \in Seq(CacheEntries) /\ Len(longer) = m + 1
      /\ longer[m + 1] = e /\ \A k \in 1 .. m : longer[k] = seq[k]
  BY AppendProperties
<1>7. kept = IF Len(longer) > CacheSize THEN Tail(longer) ELSE longer
  OBVIOUS
<1>. HIDE DEF longer
<1>8. /\ Tail(longer) \in Seq(CacheEntries) /\ Len(Tail(longer)) = m
      /\ \A k \in 1 .. m : Tail(longer)[k] = longer[k + 1]
  BY <1>1, <1>6
<1>9. kept \in Seq(CacheEntries)
  BY <1>6, <1>7, <1>8
<1>10. CASE \E j \in 1 .. n : keys[j] = e.key
  <2>1. PICK j \in 1 .. n : keys[j] = e.key
    BY <1>10
  <2>. HIDE DEF n, m
  <2>2. j <= n - m /\ m = CacheSize /\ m < n
    <3>1. ASSUME j > n - m PROVE FALSE
      <4>1. j - (n - m) \in 1 .. m /\ n - m + (j - (n - m)) = j
        BY <1>1, <1>2, <3>1
      <4>2. seq[j - (n - m)].key = e.key
        BY <1>4, <2>1, <4>1
      <4>. QED BY <4>1, <4>2 DEF m
    <3>. QED BY <1>1, <1>2, <3>1
  <2>3. {k \in DOMAIN keys : keys[k] = e.key} = {j}
    BY <1>3, <2>1, PlaceOf DEF n
  <2>9. Moved(Texts, keys, j, e.key, touched)
    <3>1. touched = Append(Typing!Without(keys, {j}), e.key)
      BY <2>3
    <3>2. j \in 1 .. Len(keys)
      BY DEF n
    <3>. QED BY <1>5, <3>1, <3>2, MovedToEnd
  <2>4. /\ touched \in Seq(Texts) /\ Len(touched) = n
        /\ \A k \in 1 .. n :
              touched[k] = IF k = n THEN e.key ELSE IF k < j THEN keys[k] ELSE keys[k + 1]
    BY <2>9 DEF Moved, n
  <2>5. kept = Tail(longer)
    <3>1. Len(longer) > CacheSize
      BY <1>1, <1>6, <2>2
    <3>. QED BY <1>7, <3>1
  <2>6. Apart(touched)
    <3>1. j \in 1 .. Len(keys)
      BY DEF n
    <3>. QED BY <1>3, <2>1, <2>9, <3>1, KeysApart
  <2>7. ASSUME NEW k \in 1 .. m
        PROVE  kept[k].key = touched[n - m + k] /\ kept[k].text = Typing!Completion(kept[k].key)
    <3>1. CASE k = m
      <4>1. n - m + k = n /\ n \in 1 .. n
        BY <1>1, <2>2, <3>1
      <4>2. kept[k] = e
        BY <1>6, <1>8, <2>5, <3>1
      <4>. QED BY <2>4, <4>1, <4>2
    <3>2. CASE k # m
      <4>1. /\ n - m + k \in 1 .. n /\ ~(n - m + k < j) /\ n - m + k # n
            /\ k + 1 \in 1 .. m /\ (n - m + k) + 1 = n - m + (k + 1)
        BY <1>1, <2>2, <3>2
      <4>2. kept[k] = seq[k + 1]
        BY <1>6, <1>8, <2>5, <4>1
      <4>3. touched[n - m + k] = keys[n - m + (k + 1)]
        BY <2>4, <4>1
      <4>. QED BY <1>4, <4>1, <4>2, <4>3
    <3>. QED BY <3>1, <3>2
  <2>8. Lru(kept, touched)
    <3>1. Len(kept) = m /\ Len(kept) = IF n < CacheSize THEN n ELSE CacheSize
      BY <1>2, <1>8, <2>5
    <3>. QED BY <2>4, <2>6, <2>7, <3>1 DEF Lru
  <2>. QED BY <1>9, <2>4, <2>8
<1>11. CASE \A j \in 1 .. n : keys[j] # e.key
  <2>1. {k \in DOMAIN keys : keys[k] = e.key} = {}
    BY <1>11
  <2>2. touched = Append(keys, e.key)
    BY <2>1 DEF Typing!Without
  <2>3. /\ touched \in Seq(Texts) /\ Len(touched) = n + 1 /\ touched[n + 1] = e.key
        /\ \A k \in 1 .. n : touched[k] = keys[k]
    <3>1. /\ Append(keys, e.key) \in Seq(Texts) /\ Len(Append(keys, e.key)) = Len(keys) + 1
          /\ Append(keys, e.key)[Len(keys) + 1] = e.key
          /\ \A k \in 1 .. Len(keys) : Append(keys, e.key)[k] = keys[k]
      BY <1>5, AppendProperties
    <3>. QED BY <2>2, <3>1
  <2>. HIDE DEF n, m
  <2>. DEFINE size == Len(kept)
  <2>4. /\ size = IF n + 1 < CacheSize THEN n + 1 ELSE CacheSize
        /\ size \in {m, m + 1} /\ size \in Nat
        /\ \A k \in 1 .. size : kept[k] = longer[(m + 1) - size + k]
    <3>1. CASE m + 1 > CacheSize
      <4>1. kept = Tail(longer) /\ size = m
        BY <1>6, <1>7, <1>8, <3>1
      <4>2. m = CacheSize /\ ~(n + 1 < CacheSize)
        BY <1>1, <1>2, <3>1
      <4>3. \A k \in 1 .. m : (m + 1) - m + k = k + 1
        BY <1>1
      <4>4. \A k \in 1 .. m : kept[k] = longer[(m + 1) - size + k]
        BY <1>8, <4>1, <4>3
      <4>5. m + 1 # CacheSize /\ size = CacheSize
        BY <1>1, <4>1, <4>2
      <4>. QED BY <1>1, <4>1, <4>2, <4>4, <4>5
    <3>2. CASE ~(m + 1 > CacheSize)
      <4>1. kept = longer /\ size = m + 1
        BY <1>6, <1>7, <3>2
      <4>2. m = n /\ m + 1 = IF n + 1 < CacheSize THEN n + 1 ELSE CacheSize
        BY <1>1, <1>2, <3>2
      <4>3. \A k \in 1 .. m + 1 : (m + 1) - (m + 1) + k = k
        BY <1>1
      <4>4. \A k \in 1 .. size : kept[k] = longer[(m + 1) - size + k]
        BY <4>1, <4>3
      <4>5. size = IF n + 1 < CacheSize THEN n + 1 ELSE CacheSize
        BY <4>1, <4>2
      <4>6. size \in {m, m + 1} /\ size \in Nat
        BY <1>1, <4>1
      <4>. HIDE DEF size
      <4>. QED BY <4>4, <4>5, <4>6
    <3>. QED BY <3>1, <3>2
  <2>. HIDE DEF size
  <2>5. Apart(touched)
    <3>1. \A a \in 1 .. n + 1 : a = n + 1 \/ a \in 1 .. n
      BY <1>1
    <3>2. \A a, b \in 1 .. n : keys[a] = keys[b] => a = b
      BY <1>3 DEF Apart, n
    <3>3. ASSUME NEW a \in 1 .. n + 1, NEW b \in 1 .. n + 1, touched[a] = touched[b]
          PROVE  a = b
      <4>1. CASE a = n + 1
        BY <1>11, <2>3, <3>1, <3>3, <4>1
      <4>2. CASE b = n + 1
        BY <1>11, <2>3, <3>1, <3>3, <4>2
      <4>3. CASE a \in 1 .. n /\ b \in 1 .. n
        BY <2>3, <3>2, <3>3, <4>3
      <4>. QED BY <3>1, <4>1, <4>2, <4>3
    <3>. QED BY <2>3, <3>3 DEF Apart
  <2>6. ASSUME NEW k \in 1 .. size
        PROVE  /\ kept[k].key = touched[(n + 1) - size + k]
               /\ kept[k].text = Typing!Completion(kept[k].key)
    <3>1. CASE k = size
      <4>1. (n + 1) - size + k = n + 1 /\ (m + 1) - size + k = m + 1
        BY <1>1, <2>4, <3>1
      <4>2. kept[k] = e
        BY <1>6, <2>4, <4>1
      <4>. QED BY <2>3, <4>1, <4>2
    <3>2. CASE k # size
      <4>. DEFINE l == (m + 1) - size + k
      <4>1. l \in 1 .. m /\ (n + 1) - size + k = n - m + l /\ n - m + l \in 1 .. n
        BY <1>1, <1>2, <2>4, <3>2
      <4>2. kept[k] = longer[l]
        BY <2>4
      <4>. HIDE DEF l
      <4>3. kept[k] = seq[l] /\ touched[n - m + l] = keys[n - m + l]
        BY <1>6, <2>3, <4>1, <4>2
      <4>. QED BY <1>4, <4>1, <4>3
    <3>. QED BY <3>1, <3>2
  <2>7. Lru(kept, touched)
    <3>1. Len(touched) = n + 1 /\ Len(kept) = size
      BY <2>3 DEF size
    <3>2. Len(kept) = IF Len(touched) < CacheSize THEN Len(touched) ELSE CacheSize
      BY <2>4, <3>1
    <3>3. \A k \in 1 .. Len(kept) :
            /\ kept[k].key = touched[Len(touched) - Len(kept) + k]
            /\ kept[k].text = Typing!Completion(kept[k].key)
      BY <2>6, <3>1
    <3>. QED BY <2>5, <3>2, <3>3 DEF Lru
  <2>. QED BY <1>9, <2>3, <2>7
<1>. QED BY <1>10, <1>11

\* An answer is not no answer.
LEMMA SomethingSaid == \A k : Typing!Completion(k) # Typing!NoAnswer
<1>. TAKE k
<1>1. Len(<<"completes", k>>) = 2 /\ Len(<<>>) = 0
  OBVIOUS
<1>. QED BY <1>1 DEF Typing!Completion, Typing!NoAnswer

LEMMA TypingInit ==
  ASSUME CacheSize \in Nat, MaxTyped \in Nat, Typing!Init
  PROVE  TypingInv
<1>1. editor = <<>> /\ service = <<>> /\ completions = <<>> /\ recent = <<>> /\ timer = 0
      /\ overtaken = {} /\ document \in Texts
  BY DEF Typing!Init
<1>2. Len(<<>>) = 0 /\ 1 .. 0 = {} /\ \A S : <<>> \in Seq(S)
  OBVIOUS
<1>3. TypingTyped
  BY <1>1, <1>2 DEF TypingTyped
<1>4. Queued
  BY <1>1, <1>2 DEF Queued
<1>5. Lru(completions, recent)
  BY <1>1, <1>2 DEF Lru, Apart
<1>. QED BY <1>1, <1>2, <1>3, <1>4, <1>5 DEF TypingInv

\* A new request: the live ones are overtaken, and the timer is its own if it waits.
LEMMA AskStep ==
  ASSUME MaxTyped \in Nat, TypingInv, NEW text \in Texts, NEW st \in {"waits", "nothing"},
         Typing!Asked(text, st), timer' = IF st = "waits" THEN Typing!Newest + 1 ELSE timer,
         UNCHANGED <<completions, recent>>
  PROVE  TypingInv'
<1>. DEFINE n == Len(editor)
            new == [st |-> st, text |-> text, over |-> text, cancelled |-> FALSE]
            idle == [at |-> "idle", text |-> Typing!NoAnswer]
<1>1. /\ n < MaxTyped /\ document' = text /\ editor' = Append(editor, new)
      /\ service' = Append(service, idle)
      /\ overtaken' = overtaken \cup {r \in DOMAIN editor : Typing!Live(r)}
      /\ timer' = IF st = "waits" THEN n + 1 ELSE timer
  BY DEF Typing!Asked, Typing!Newest, Typing!Requests
<1>2. new \in EditorEntries /\ idle \in ServiceEntries
  BY DEF EditorEntries, ServiceEntries, Said
<1>3. n \in Nat /\ DOMAIN editor = 1 .. n /\ Len(service) = n
  BY DEF TypingInv, TypingTyped
<1>. HIDE DEF new, idle
<1>4. /\ editor' \in Seq(EditorEntries) /\ Len(editor') = n + 1 /\ editor'[n + 1] = new
      /\ \A r \in 1 .. n : editor'[r] = editor[r]
  BY <1>1, <1>2, AppendProperties DEF TypingInv, TypingTyped
<1>5. /\ service' \in Seq(ServiceEntries) /\ Len(service') = n + 1 /\ service'[n + 1] = idle
      /\ \A r \in 1 .. n : service'[r] = service[r]
  BY <1>1, <1>2, <1>3, AppendProperties DEF TypingInv, TypingTyped
<1>. HIDE DEF n
<1>6. \A r \in 1 .. n : Typing!Live(r)' = Typing!Live(r)
  BY <1>4 DEF Typing!Live
<1>7. \A r \in 1 .. n + 1 : r = n + 1 \/ r \in 1 .. n
  BY <1>3
<1>9. /\ timer \in 0 .. n /\ overtaken \subseteq 1 .. n /\ n <= MaxTyped
      /\ completions \in Seq(CacheEntries) /\ recent \in Seq(Texts)
  BY DEF TypingInv, TypingTyped, n
<1>8. TypingTyped'
  <2>1. n + 1 <= MaxTyped
    BY <1>1, <1>3, <1>9
  <2>2. timer' \in 0 .. n + 1 /\ overtaken' \subseteq 1 .. n + 1
    <3>1. timer' \in 0 .. n + 1
      BY <1>1, <1>3, <1>9
    <3>2. overtaken' \subseteq 1 .. n
      BY <1>1, <1>3, <1>9
    <3>3. 1 .. n \subseteq 1 .. n + 1
      BY <1>3
    <3>. QED BY <3>1, <3>2, <3>3
  <2>. QED BY <1>1, <1>4, <1>5, <1>9, <2>1, <2>2 DEF TypingTyped
<1>10. timer' # 0 => /\ editor'[timer'].st = "waits"
                     /\ \A r \in timer' + 1 .. n + 1 : editor'[r].st # "waits"
  <2>1. CASE st = "waits"
    BY <1>1, <1>3, <1>4, <2>1 DEF new
  <2>2. CASE st = "nothing" /\ timer # 0
    <3>1. timer' = timer /\ timer \in 1 .. n /\ editor'[timer] = editor[timer]
      BY <1>1, <1>3, <1>4, <1>9, <2>2
    <3>2. editor[timer].st = "waits" /\ \A r \in timer + 1 .. n : editor[r].st # "waits"
      BY <2>2 DEF TypingInv, Queued, n
    <3>3. ASSUME NEW r \in timer + 1 .. n + 1 PROVE editor'[r].st # "waits"
      <4>1. CASE r = n + 1
        BY <1>4, <2>2, <4>1 DEF new
      <4>2. CASE r # n + 1
        <5>1. r \in 1 .. n /\ r \in timer + 1 .. n
          BY <1>3, <3>1, <4>2
        <5>. QED BY <1>4, <3>2, <5>1
      <4>. QED BY <4>1, <4>2
    <3>. QED BY <3>1, <3>2, <3>3
  <2>3. CASE st = "nothing" /\ timer = 0
    BY <1>1, <2>3
  <2>. QED BY <2>1, <2>2, <2>3
<1>11. \A r \in 1 .. n : Typing!Live(r)' => r \in overtaken'
  BY <1>1, <1>3, <1>6
<1>12. editor'[n + 1].st = "waits" => timer' = n + 1
  BY <1>1, <1>4 DEF new
<1>13. Queued'
  <2>1. (n + 1) - 1 = n
    BY <1>3
  <2>. QED BY <1>4, <1>10, <1>11, <1>12, <2>1 DEF Queued
<1>14. ASSUME NEW r \in 1 .. n PROVE CurrentAt(r)'
  <2>1. CurrentAt(r) /\ editor'[r] = editor[r] /\ service'[r] = service[r]
    BY <1>4, <1>5 DEF TypingInv, n
  <2>2. Typing!Live(r)' => r \in overtaken'
    BY <1>11
  <2>3. r \notin overtaken' => r \notin overtaken
    BY <1>1
  <2>. QED BY <2>1, <2>2, <2>3 DEF CurrentAt
<1>15. ASSUME NEW r, r = n + 1 PROVE CurrentAt(r)'
  BY <1>1, <1>4, <1>5, <1>15 DEF CurrentAt, new, idle
<1>16. \A r \in 1 .. Len(editor') : CurrentAt(r)'
  BY <1>4, <1>7, <1>14, <1>15
<1>17. Lru(completions, recent)'
  BY DEF TypingInv, Lru, Apart
<1>. QED BY <1>8, <1>13, <1>16, <1>17 DEF TypingInv

\* A request other than r is as it was, when only r's entry changes.
LEMMA EntryStep ==
  ASSUME TypingInv, NEW r \in 1 .. Len(editor), NEW e \in EditorEntries,
         editor' = [editor EXCEPT ![r] = e],
         NEW s \in ServiceEntries, service' = [service EXCEPT ![r] = s],
         UNCHANGED <<overtaken, document>>,
         timer' \in 0 .. Len(editor), completions' \in Seq(CacheEntries), recent' \in Seq(Texts),
         Lru(completions, recent)',
         Queued', CurrentAt(r)'
  PROVE  TypingInv'
<1>1. /\ Len(editor) \in Nat /\ DOMAIN editor = 1 .. Len(editor) /\ Len(service) = Len(editor)
      /\ editor \in Seq(EditorEntries) /\ service \in Seq(ServiceEntries)
      /\ DOMAIN service = 1 .. Len(editor)
  BY DEF TypingInv, TypingTyped
<1>2. /\ editor' \in Seq(EditorEntries) /\ Len(editor') = Len(editor)
      /\ \A k \in 1 .. Len(editor) : k # r => editor'[k] = editor[k]
  BY <1>1, ExceptSeq
<1>3. /\ service' \in Seq(ServiceEntries) /\ Len(service') = Len(editor)
      /\ \A k \in 1 .. Len(editor) : k # r => service'[k] = service[k]
  BY <1>1, ExceptSeq
<1>4. TypingTyped'
  BY <1>2, <1>3 DEF TypingInv, TypingTyped
<1>5. ASSUME NEW k \in 1 .. Len(editor), k # r PROVE CurrentAt(k)'
  <2>1. CurrentAt(k) /\ editor'[k] = editor[k] /\ service'[k] = service[k]
    BY <1>2, <1>3, <1>5 DEF TypingInv
  <2>. QED BY <2>1 DEF CurrentAt, Typing!Live
<1>6. \A k \in 1 .. Len(editor') : CurrentAt(k)'
  BY <1>2, <1>5
<1>. QED BY <1>4, <1>6 DEF TypingInv

\* What EntryStep takes from the invariant, for a request r.
LEMMA EntryOf ==
  ASSUME TypingInv, NEW r \in Typing!Requests
  PROVE  /\ r \in 1 .. Len(editor) /\ Len(editor) \in Nat /\ DOMAIN editor = 1 .. Len(editor)
         /\ editor[r] \in EditorEntries /\ service[r] \in ServiceEntries
         /\ DOMAIN service = 1 .. Len(editor) /\ Len(service) = Len(editor)
         /\ editor \in Seq(EditorEntries) /\ service \in Seq(ServiceEntries)
         /\ [service EXCEPT ![r] = service[r]] = service
         /\ [editor EXCEPT ![r] = editor[r]] = editor
         /\ timer \in 0 .. Len(editor) /\ document \in Texts
         /\ completions \in Seq(CacheEntries) /\ recent \in Seq(Texts) /\ Lru(completions, recent)
         /\ Queued /\ CurrentAt(r)
<1>1. /\ Len(editor) \in Nat /\ DOMAIN editor = 1 .. Len(editor) /\ Len(service) = Len(editor)
      /\ editor \in Seq(EditorEntries) /\ service \in Seq(ServiceEntries)
      /\ DOMAIN service = 1 .. Len(editor)
  BY DEF TypingInv, TypingTyped
<1>2. r \in 1 .. Len(editor)
  BY <1>1 DEF Typing!Requests
<1>3. editor[r] \in EditorEntries /\ service[r] \in ServiceEntries
  BY <1>1, <1>2
<1>4. [service EXCEPT ![r] = service[r]] = service /\ [editor EXCEPT ![r] = editor[r]] = editor
  BY <1>1
<1>. QED BY <1>1, <1>2, <1>3, <1>4 DEF TypingInv, TypingTyped

\* Cancelling takes a request out; a waiting one clears the timer.
LEMMA CancelStep ==
  ASSUME TypingInv, NEW r \in Typing!Requests, Typing!CancelRequest(r)
  PROVE  TypingInv'
<1>. DEFINE n == Len(editor)
            st == IF editor[r].st = "waits" THEN "nothing" ELSE editor[r].st
            e == [editor[r] EXCEPT !.st = st, !.cancelled = TRUE]
<1>1. /\ r \in 1 .. n /\ n \in Nat /\ DOMAIN editor = 1 .. n
      /\ editor \in Seq(EditorEntries) /\ editor[r] \in EditorEntries
      /\ service[r] \in ServiceEntries /\ [service EXCEPT ![r] = service[r]] = service
      /\ timer \in 0 .. n /\ completions \in Seq(CacheEntries) /\ recent \in Seq(Texts)
      /\ Lru(completions, recent) /\ Queued /\ CurrentAt(r)
  BY EntryOf
<1>2. /\ Typing!Live(r) /\ document' = document /\ service' = service /\ completions' = completions
      /\ overtaken' = overtaken /\ recent' = recent
  BY DEF Typing!CancelRequest
<1>3. timer' = IF editor[r].st = "waits" THEN 0 ELSE timer
  BY DEF Typing!CancelRequest
<1>4. /\ e \in EditorEntries /\ e.st \in {"asks", "nothing"} /\ e.cancelled
      /\ e.text = editor[r].text /\ (editor[r].st = "waits" <=> e.st = "nothing")
  BY <1>1, <1>2 DEF EditorEntries, Typing!Live
<1>5. editor' = [editor EXCEPT ![r] = e]
  <2>1. CASE editor[r].st = "waits"
    BY <1>1, <2>1 DEF Typing!CancelRequest, EditorEntries
  <2>2. CASE editor[r].st # "waits"
    BY <1>1, <2>2 DEF Typing!CancelRequest, EditorEntries
  <2>. QED BY <2>1, <2>2
<1>. HIDE DEF e
<1>6. /\ Len(editor') = n /\ editor'[r] = e
      /\ \A k \in 1 .. n : k # r => editor'[k] = editor[k]
  BY <1>1, <1>4, <1>5, ExceptSeq
<1>. HIDE DEF n
<1>7. timer' # 0 => /\ editor'[timer'].st = "waits"
                    /\ \A k \in timer' + 1 .. n : editor'[k].st # "waits"
  <2>. SUFFICES ASSUME timer' # 0
                PROVE  /\ editor'[timer'].st = "waits"
                       /\ \A k \in timer' + 1 .. n : editor'[k].st # "waits"
    OBVIOUS
  <2>1. timer' = timer /\ timer \in 1 .. n /\ editor[r].st # "waits"
    BY <1>1, <1>3
  <2>2. editor[timer].st = "waits" /\ \A k \in timer + 1 .. n : editor[k].st # "waits"
    BY <1>1, <2>1 DEF Queued, n
  <2>3. timer # r
    BY <2>1, <2>2
  <2>4. \A k \in timer + 1 .. n : k \in 1 .. n
    BY <1>1, <2>1
  <2>. QED BY <1>4, <1>6, <2>1, <2>2, <2>3, <2>4
<1>8. ASSUME NEW k \in 1 .. n - 1, Typing!Live(k)' PROVE k \in overtaken'
  <2>1. k # r /\ k \in 1 .. n
    BY <1>1, <1>4, <1>6, <1>8 DEF Typing!Live
  <2>2. Typing!Live(k)
    BY <1>6, <1>8, <2>1 DEF Typing!Live
  <2>. QED BY <1>1, <1>2, <2>2 DEF Queued, n
<1>9. ASSUME n > 0, editor'[n].st = "waits", \A k \in overtaken' : ~editor'[k].cancelled
      PROVE  timer' = n
  <2>1. n # r /\ n \in 1 .. n
    BY <1>1, <1>4, <1>6, <1>9
  <2>2. r \in 1 .. n - 1
    BY <1>1, <2>1
  <2>3. r \in overtaken
    BY <1>1, <1>2, <2>2 DEF Queued, n
  <2>. QED BY <1>2, <1>4, <1>6, <1>9, <2>3
<1>10. Queued'
  BY <1>6, <1>7, <1>8, <1>9 DEF Queued
<1>11. CurrentAt(r)'
  <2>1. ~(Typing!Live(r)')
    BY <1>4, <1>6 DEF Typing!Live
  <2>2. /\ editor'[r].st \notin {"waits", "shown"} /\ editor'[r].text = editor[r].text
        /\ service'[r] = service[r]
    BY <1>2, <1>4, <1>6
  <2>. QED BY <1>1, <2>1, <2>2 DEF CurrentAt
<1>12. Lru(completions, recent)'
  BY <1>1, <1>2 DEF Lru, Apart
<1>. QED
  <2>1. timer' \in 0 .. n
    BY <1>1, <1>3
  <2>. QED BY <1>1, <1>2, <1>4, <1>5, <1>10, <1>11, <1>12, <2>1, EntryStep DEF n

\* The request that has the timer is sent for what the document says now.
LEMMA FireStep ==
  ASSUME TypingInv, Typing!TimerFires
  PROVE  TypingInv'
<1>. DEFINE n == Len(editor)
<1>0. timer \in Typing!Requests
  BY DEF Typing!TimerFires, TypingInv, TypingTyped, Typing!Requests
<1>. PICK r \in Typing!Requests : r = timer
  BY <1>0
<1>. DEFINE e == [editor[r] EXCEPT !.st = "asks", !.text = document]
            s == [service[r] EXCEPT !.at = "called"]
<1>1. /\ r \in 1 .. n /\ n \in Nat /\ DOMAIN editor = 1 .. n /\ DOMAIN service = 1 .. n
      /\ editor \in Seq(EditorEntries) /\ editor[r] \in EditorEntries
      /\ service \in Seq(ServiceEntries) /\ service[r] \in ServiceEntries /\ Len(service) = n
      /\ timer \in 0 .. n /\ completions \in Seq(CacheEntries) /\ recent \in Seq(Texts)
      /\ document \in Texts /\ Lru(completions, recent) /\ Queued /\ CurrentAt(r)
  BY EntryOf
<1>2. /\ timer # 0 /\ timer' = 0 /\ document' = document /\ completions' = completions
      /\ overtaken' = overtaken /\ recent' = recent
  BY DEF Typing!TimerFires
<1>3. editor[r].st = "waits" /\ \A k \in r + 1 .. n : editor[k].st # "waits"
  BY <1>1, <1>2 DEF Queued
<1>4. /\ e \in EditorEntries /\ e.st = "asks" /\ e.text = document
      /\ e.cancelled = editor[r].cancelled
  BY <1>1 DEF EditorEntries
<1>5. s \in ServiceEntries /\ s.at = "called"
  BY <1>1 DEF ServiceEntries
<1>6. editor' = [editor EXCEPT ![r] = e] /\ service' = [service EXCEPT ![r] = s]
  BY <1>1 DEF Typing!TimerFires, EditorEntries, ServiceEntries
<1>. HIDE DEF e, s
<1>7. /\ Len(editor') = n /\ editor'[r] = e /\ service'[r] = s
      /\ \A k \in 1 .. n : k # r => editor'[k] = editor[k]
  BY <1>1, <1>4, <1>5, <1>6, ExceptSeq
<1>. HIDE DEF n
<1>8. ASSUME NEW k \in 1 .. n - 1, Typing!Live(k)' PROVE k \in overtaken'
  <2>1. k \in 1 .. n
    BY <1>1
  <2>2. Typing!Live(k)
    <3>1. CASE k = r
      BY <1>3, <1>4, <1>7, <1>8, <3>1 DEF Typing!Live
    <3>2. CASE k # r
      BY <1>7, <1>8, <2>1, <3>2 DEF Typing!Live
    <3>. QED BY <3>1, <3>2
  <2>. QED BY <1>1, <1>2, <2>2 DEF Queued, n
<1>9. n > 0 => editor'[n].st # "waits"
  <2>1. CASE n = r
    BY <1>4, <1>7, <2>1
  <2>2. CASE n # r
    <3>1. n \in r + 1 .. n /\ n \in 1 .. n
      BY <1>1, <2>2
    <3>. QED BY <1>3, <1>7, <2>2, <3>1
  <2>. QED BY <2>1, <2>2
<1>10. Queued'
  BY <1>2, <1>7, <1>8, <1>9 DEF Queued
<1>11. CurrentAt(r)'
  BY <1>2, <1>4, <1>5, <1>7 DEF CurrentAt
<1>12. Lru(completions, recent)'
  BY <1>1, <1>2 DEF Lru, Apart
<1>. QED
  <2>1. timer' \in 0 .. n
    BY <1>1, <1>2
  <2>. QED BY <1>1, <1>2, <1>4, <1>5, <1>6, <1>10, <1>11, <1>12, <2>1, EntryStep DEF n

\* A request that asks ends.  What it shows is the completion of what is there.
LEMMA EndStep ==
  ASSUME TypingInv, NEW r \in Typing!Requests, Typing!GiveUp(r) \/ Typing!Render(r)
  PROVE  TypingInv'
<1>. DEFINE n == Len(editor)
            ended == [editor[r] EXCEPT !.st = "nothing"]
            shown == [editor[r] EXCEPT !.st = "shown", !.over = document]
<1>1. /\ r \in 1 .. n /\ n \in Nat /\ DOMAIN editor = 1 .. n
      /\ editor \in Seq(EditorEntries) /\ editor[r] \in EditorEntries
      /\ service[r] \in ServiceEntries /\ [service EXCEPT ![r] = service[r]] = service
      /\ timer \in 0 .. n /\ completions \in Seq(CacheEntries) /\ recent \in Seq(Texts)
      /\ document \in Texts /\ Lru(completions, recent) /\ Queued /\ CurrentAt(r)
  BY EntryOf
<1>2. /\ editor[r].st = "asks"
      /\ document' = document /\ timer' = timer /\ service' = service /\ completions' = completions
      /\ overtaken' = overtaken /\ recent' = recent
  BY DEF Typing!GiveUp, Typing!Render
<1>3. PICK e \in EditorEntries :
         /\ editor' = [editor EXCEPT ![r] = e] /\ e.text = editor[r].text
         /\ e.st \in {"nothing", "shown"} /\ e.cancelled = editor[r].cancelled
         /\ e.st = "shown" => /\ e.over = document /\ ~editor[r].cancelled
                              /\ service[r].at = "answered" /\ service[r].text # Typing!NoAnswer
  <2>1. ended \in EditorEntries /\ shown \in EditorEntries
    BY <1>1 DEF EditorEntries
  <2>2. CASE Typing!Resolve(r, "nothing")
    <3>1. /\ editor' = [editor EXCEPT ![r] = ended] /\ ended.st = "nothing"
          /\ ended.text = editor[r].text /\ ended.cancelled = editor[r].cancelled
      BY <1>1, <2>2 DEF Typing!Resolve, EditorEntries
    <3>. HIDE DEF ended, shown
    <3>. QED BY <2>1, <3>1
  <2>3. CASE Typing!Render(r) /\ Typing!Show(r) /\ ~(editor[r].cancelled \/ service[r].text = Typing!NoAnswer)
    <3>1. /\ editor' = [editor EXCEPT ![r] = shown] /\ shown.st = "shown" /\ shown.over = document
          /\ shown.text = editor[r].text /\ shown.cancelled = editor[r].cancelled
      BY <1>1, <2>3 DEF Typing!Show, EditorEntries
    <3>2. service[r].at = "answered"
      BY <2>3 DEF Typing!Render
    <3>. HIDE DEF ended, shown
    <3>. QED BY <2>1, <2>3, <3>1, <3>2
  <2>. QED BY <2>2, <2>3 DEF Typing!GiveUp, Typing!Render
<1>4. /\ Len(editor') = n /\ editor'[r] = e
      /\ \A k \in 1 .. n : k # r => editor'[k] = editor[k]
  BY <1>1, <1>3, ExceptSeq
<1>. HIDE DEF n
<1>5. timer # 0 => /\ editor'[timer].st = "waits"
                   /\ \A k \in timer + 1 .. n : editor'[k].st # "waits"
  <2>. SUFFICES ASSUME timer # 0
                PROVE  /\ editor'[timer].st = "waits"
                       /\ \A k \in timer + 1 .. n : editor'[k].st # "waits"
    OBVIOUS
  <2>1. editor[timer].st = "waits" /\ \A k \in timer + 1 .. n : editor[k].st # "waits"
    BY <1>1 DEF Queued, n
  <2>2. timer # r /\ timer \in 1 .. n /\ \A k \in timer + 1 .. n : k \in 1 .. n
    BY <1>1, <1>2, <2>1
  <2>. QED BY <1>3, <1>4, <2>1, <2>2
<1>6. ASSUME NEW k \in 1 .. n - 1, Typing!Live(k)' PROVE k \in overtaken'
  <2>1. k # r /\ k \in 1 .. n
    BY <1>1, <1>3, <1>4, <1>6 DEF Typing!Live
  <2>2. Typing!Live(k)
    BY <1>4, <1>6, <2>1 DEF Typing!Live
  <2>. QED BY <1>1, <1>2, <2>2 DEF Queued, n
<1>7. ASSUME n > 0, editor'[n].st = "waits", \A k \in overtaken' : ~editor'[k].cancelled
      PROVE  timer' = n
  <2>1. n # r /\ n \in 1 .. n
    BY <1>1, <1>3, <1>4, <1>7
  <2>2. editor[n].st = "waits"
    BY <1>4, <1>7, <2>1
  <2>3. overtaken \subseteq 1 .. n
    BY DEF TypingInv, TypingTyped, n
  <2>4. \A k \in overtaken : ~editor[k].cancelled
    BY <1>2, <1>3, <1>4, <1>7, <2>3
  <2>. QED BY <1>1, <1>2, <1>7, <2>2, <2>4 DEF Queued, n
<1>8. Queued'
  BY <1>2, <1>4, <1>5, <1>6, <1>7 DEF Queued
<1>9. CurrentAt(r)'
  <2>1. ~(Typing!Live(r)') /\ editor'[r].st # "waits" /\ editor'[r].text = editor[r].text
    BY <1>3, <1>4 DEF Typing!Live
  <2>2. ASSUME editor'[r].st = "shown"
        PROVE  /\ ~editor'[r].cancelled /\ service'[r].at = "answered"
               /\ r \notin overtaken' => service'[r].text = Typing!Completion(editor'[r].over)
    <3>1. /\ ~editor[r].cancelled /\ service[r].at = "answered" /\ e.over = document
          /\ service[r].text = Typing!Completion(editor[r].text)
      BY <1>1, <1>3, <1>4, <2>2 DEF CurrentAt
    <3>2. Typing!Live(r)
      BY <1>2, <3>1 DEF Typing!Live
    <3>3. r \notin overtaken => editor[r].text = document
      BY <1>1, <3>2 DEF CurrentAt
    <3>. QED BY <1>2, <1>3, <1>4, <3>1, <3>3
  <2>. QED BY <1>1, <1>2, <2>1, <2>2 DEF CurrentAt
<1>10. Lru(completions, recent)'
  BY <1>1, <1>2 DEF Lru, Apart
<1>. QED BY <1>1, <1>2, <1>3, <1>8, <1>9, <1>10, EntryStep DEF n

\* A step of the service for a request that was sent and has no answer yet.
LEMMA ServeStep ==
  ASSUME TypingInv, NEW r \in Typing!Requests, service[r].at \in {"called", "infers", "puts"},
         NEW at \in {"infers", "puts", "answered"}, NEW text \in Said, Typing!Serve(r, at, text),
         at = "puts" => text = Typing!Completion(editor[r].text),
         at = "answered" => text \in {Typing!NoAnswer, Typing!Completion(editor[r].text)},
         UNCHANGED <<document, timer, editor, overtaken>>,
         completions' \in Seq(CacheEntries), recent' \in Seq(Texts), Lru(completions, recent)'
  PROVE  TypingInv'
<1>. DEFINE n == Len(editor)
            s == [at |-> at, text |-> text]
<1>1. /\ r \in 1 .. n /\ n \in Nat /\ DOMAIN service = 1 .. n
      /\ service \in Seq(ServiceEntries) /\ Len(service) = n
      /\ editor[r] \in EditorEntries /\ [editor EXCEPT ![r] = editor[r]] = editor
      /\ timer \in 0 .. n /\ Queued /\ CurrentAt(r)
  BY EntryOf
<1>2. s \in ServiceEntries /\ s.at = at /\ s.text = text
  BY DEF ServiceEntries
<1>3. service' = [service EXCEPT ![r] = s]
  BY DEF Typing!Serve
<1>. HIDE DEF s
<1>4. service'[r] = s
  BY <1>1, <1>3
<1>5. Queued'
  BY <1>1 DEF Queued, Typing!Live
<1>6. CurrentAt(r)'
  BY <1>1, <1>2, <1>4 DEF CurrentAt, Typing!Live
<1>. QED BY <1>1, <1>2, <1>3, <1>5, <1>6, EntryStep

\* The completion service: a hit and a put leave the cache what was used last.
LEMMA CacheStep ==
  ASSUME CacheSize \in Nat, TypingInv, NEW r \in Typing!Requests, Typing!CacheGet(r) \/ Typing!CachePut(r)
  PROVE  TypingInv'
<1>. DEFINE key == editor[r].text
<1>1. /\ completions \in Seq(CacheEntries) /\ recent \in Seq(Texts) /\ Lru(completions, recent)
      /\ service[r] \in ServiceEntries /\ CurrentAt(r)
      /\ UNCHANGED <<document, timer, editor, overtaken>>
  BY EntryOf DEF Typing!CacheGet, Typing!CachePut
<1>2. key \in Texts
  BY EntryOf DEF EditorEntries
<1>3. DOMAIN completions = 1 .. Len(completions) /\ Len(completions) \in Nat /\ Len(recent) \in Nat
  BY <1>1
<1>4. ASSUME NEW i \in Typing!Cached(key)
      PROVE  /\ i \in 1 .. Len(completions) /\ completions[i].key = key /\ completions[i] \in CacheEntries
             /\ completions[i].text = Typing!Completion(key) /\ Typing!Cached(key) = {i}
  <2>1. i \in 1 .. Len(completions) /\ completions[i].key = key
    BY <1>3 DEF Typing!Cached
  <2>4. completions[i].text = Typing!Completion(completions[i].key)
    BY <1>1, <2>1 DEF Lru
  <2>5. completions[i] \in CacheEntries
    BY <1>1, <2>1
  <2>2. completions[i] \in CacheEntries /\ completions[i].text = Typing!Completion(key)
    BY <2>1, <2>4, <2>5
  <2>3. ASSUME NEW k \in Typing!Cached(key) PROVE k = i
    <3>1. k \in 1 .. Len(completions) /\ completions[k].key = key
      BY <1>3 DEF Typing!Cached
    <3>. DEFINE l == Len(recent) - Len(completions)
    <3>2. recent[l + i] = key /\ recent[l + k] = key
      BY <1>1, <2>1, <3>1 DEF Lru
    <3>3. l \in Nat
      BY <1>1, <1>3 DEF Lru
    <3>4. l + i \in 1 .. Len(recent) /\ l + k \in 1 .. Len(recent)
      BY <1>3, <2>1, <3>1, <3>3
    <3>. HIDE DEF l
    <3>5. l + i = l + k
      BY <1>1, <3>2, <3>4 DEF Lru, Apart
    <3>. QED BY <2>1, <3>1, <3>3, <3>5
  <2>. QED BY <2>1, <2>2, <2>3
<1>. DEFINE touched == Append(Typing!Without(recent, {k \in DOMAIN recent : recent[k] = key}), key)
<1>. HIDE DEF key
<1>5. CASE Typing!CacheGet(r) /\ Typing!Cached(key) # {}
  <2>. DEFINE i == CHOOSE i \in Typing!Cached(key) : TRUE
  <2>1. i \in Typing!Cached(key)
    BY <1>5
  <2>2. /\ service[r].at = "called" /\ Typing!Serve(r, "answered", completions[i].text)
        /\ completions' = Append(Typing!Without(completions, {i}), completions[i]) /\ recent' = touched
    BY <1>4, <1>5, <2>1 DEF Typing!CacheGet, Typing!Others, Typing!Use, key
  <2>. HIDE DEF i
  <2>3. /\ i \in 1 .. Len(completions) /\ completions[i].key = key /\ completions[i] \in CacheEntries
        /\ completions[i].text = Typing!Completion(key)
    BY <1>4, <2>1
  <2>4. completions' \in Seq(CacheEntries) /\ recent' \in Seq(Texts) /\ Lru(completions', recent')
    BY <1>1, <2>2, <2>3, Touched
  <2>5. completions[i].text \in Said
    BY <2>3 DEF CacheEntries
  <2>. QED BY <1>1, <2>2, <2>3, <2>4, <2>5, ServeStep DEF key
<1>6. CASE Typing!CacheGet(r) /\ Typing!Cached(key) = {}
  <2>1. service[r].at = "called" /\ Typing!Serve(r, "infers", Typing!NoAnswer) /\ UNCHANGED <<completions, recent>>
    BY <1>6 DEF Typing!CacheGet, key
  <2>2. Typing!NoAnswer \in Said
    BY DEF Said
  <2>3. Lru(completions, recent)'
    BY <1>1, <2>1 DEF Lru, Apart
  <2>. QED BY <1>1, <2>1, <2>2, <2>3, ServeStep
<1>7. CASE Typing!CachePut(r)
  <2>. DEFINE e == [key |-> key, text |-> service[r].text]
              longer == Append(Typing!Others(key), e)
  <2>1. /\ service[r].at = "puts" /\ Typing!Serve(r, "answered", service[r].text) /\ recent' = touched
        /\ completions' = IF Len(longer) > CacheSize THEN Tail(longer) ELSE longer
    BY <1>7 DEF Typing!CachePut, Typing!Use, key
  <2>2. service[r].text = Typing!Completion(key) /\ service[r].text \in Said
    BY <1>1, <2>1 DEF CurrentAt, ServiceEntries, key
  <2>3. e \in CacheEntries /\ e.key = key /\ e.text = Typing!Completion(key)
    BY <1>2, <2>2 DEF CacheEntries
  <2>. HIDE DEF e
  <2>4. completions' \in Seq(CacheEntries) /\ recent' \in Seq(Texts) /\ Lru(completions', recent')
    <3>1. CASE Typing!Cached(key) = {}
      <4>1. longer = Append(completions, e)
        BY <3>1 DEF Typing!Others, Typing!Without
      <4>2. \A k \in 1 .. Len(completions) : completions[k].key # e.key
        BY <1>3, <2>3, <3>1 DEF Typing!Cached
      <4>. QED BY <1>1, <2>1, <2>3, <4>1, <4>2, PutIn
    <3>2. CASE Typing!Cached(key) # {}
      <4>1. PICK i \in Typing!Cached(key) : TRUE
        BY <3>2
      <4>2. i \in 1 .. Len(completions) /\ completions[i].key = key /\ Typing!Cached(key) = {i}
        BY <1>4
      <4>3. longer = Append(Typing!Without(completions, {i}), e)
        BY <4>2 DEF Typing!Others
      <4>4. longer \in Seq(CacheEntries) /\ touched \in Seq(Texts) /\ Lru(longer, touched)
        BY <1>1, <2>3, <4>2, <4>3, Touched
      <4>. HIDE DEF longer
      <4>5. ~(Len(longer) > CacheSize)
        BY <4>4 DEF Lru
      <4>. QED BY <2>1, <4>4, <4>5
    <3>. QED BY <3>1, <3>2
  <2>. QED BY <1>1, <2>1, <2>2, <2>4, ServeStep DEF key
<1>. QED BY <1>5, <1>6, <1>7

\* The inductive invariant of the completions: the timer is the newest waiting
\* request's, a live request that nothing overtook is about what is there, and the
\* cache is the end of what was used.
THEOREM TypingInductive ==
  ASSUME CacheSize \in Nat, MaxTyped \in Nat
  PROVE  Typing!Spec => []TypingInv
<1>1. TypingInv /\ [Typing!Next]_(Typing!vars) => TypingInv'
  <2>. SUFFICES ASSUME TypingInv, [Typing!Next]_(Typing!vars) PROVE TypingInv'
    OBVIOUS
  <2>1. CASE UNCHANGED Typing!vars
    BY <2>1 DEF Typing!vars, TypingInv, TypingTyped, Queued, CurrentAt, Typing!Live, Lru, Apart
  <2>2. ASSUME NEW text \in Texts, Typing!Skip(text) PROVE TypingInv'
    BY <2>2, AskStep DEF Typing!Skip
  <2>3. ASSUME NEW text \in Texts, Typing!Provide(text) PROVE TypingInv'
    BY <2>3, AskStep DEF Typing!Provide
  <2>4. CASE Typing!TimerFires
    BY <2>4, FireStep
  <2>5. ASSUME NEW r \in Typing!Requests, Typing!CancelRequest(r) PROVE TypingInv'
    BY <2>5, CancelStep
  <2>6. ASSUME NEW r \in Typing!Requests, Typing!GiveUp(r) \/ Typing!Render(r) PROVE TypingInv'
    BY <2>6, EndStep
  <2>7. ASSUME NEW r \in Typing!Requests, Typing!CacheGet(r) \/ Typing!CachePut(r) PROVE TypingInv'
    BY <2>7, CacheStep
  <2>8. ASSUME NEW r \in Typing!Requests, Typing!Decline(r) \/ Typing!Infer(r) \/ Typing!InferNothing(r) PROVE TypingInv'
    <3>1. /\ completions \in Seq(CacheEntries) /\ recent \in Seq(Texts) /\ Lru(completions, recent)
          /\ editor[r] \in EditorEntries
      BY EntryOf
    <3>2. UNCHANGED <<document, timer, editor, completions, overtaken, recent>>
      BY <2>8 DEF Typing!Decline, Typing!Infer, Typing!InferNothing
    <3>3. Lru(completions, recent)'
      BY <3>1, <3>2 DEF Lru, Apart
    <3>4. Typing!NoAnswer \in Said /\ Typing!Completion(editor[r].text) \in Said
      BY <3>1 DEF Said, EditorEntries
    <3>5. CASE Typing!Infer(r)
      BY <3>1, <3>2, <3>3, <3>4, <3>5, ServeStep DEF Typing!Infer
    <3>6. CASE Typing!Decline(r) \/ Typing!InferNothing(r)
      BY <3>1, <3>2, <3>3, <3>4, <3>6, ServeStep DEF Typing!Decline, Typing!InferNothing
    <3>. QED BY <2>8, <3>5, <3>6
  <2>. QED BY <2>1, <2>2, <2>3, <2>4, <2>5, <2>6, <2>7, <2>8 DEF Typing!Next
<1>. QED BY <1>1, TypingInit, PTL DEF Typing!Spec

\* What is shown completes the text it is shown in unless something overtook it,
\* the last keystroke has the timer, and the cache is what was used last
\* (InlineCompletion's SuggestionsAreCurrent).
THEOREM SuggestionsCurrent ==
  ASSUME CacheSize \in Nat, MaxTyped \in Nat
  PROVE  Typing!Spec => []Typing!SuggestionsAreCurrent
<1>1. ASSUME TypingInv PROVE Typing!SuggestionsAreCurrent
  <2>1. /\ Len(editor) \in Nat /\ DOMAIN editor = 1 .. Len(editor)
        /\ completions \in Seq(CacheEntries) /\ recent \in Seq(Texts)
        /\ Len(completions) \in Nat /\ Len(recent) \in Nat /\ DOMAIN completions = 1 .. Len(completions)
    BY <1>1 DEF TypingInv, TypingTyped
  <2>2. Typing!NoLateSuggestion
    BY <1>1, <2>1 DEF TypingInv, CurrentAt, Typing!NoLateSuggestion, Typing!Requests
  <2>3. Typing!LastOneStanding
    BY <1>1 DEF TypingInv, Queued, Typing!LastOneStanding, Typing!Newest
  <2>4. Typing!CacheIsLru
    <3>. DEFINE l == Len(recent) - Len(completions)
                keys == [i \in DOMAIN completions |-> completions[i].key]
                last == SubSeq(recent, l + 1, Len(recent))
    <3>1. /\ Len(completions) = IF Len(recent) < CacheSize THEN Len(recent) ELSE CacheSize
          /\ \A i \in 1 .. Len(completions) :
                completions[i].key = recent[l + i] /\ completions[i].text = Typing!Completion(completions[i].key)
      BY <1>1 DEF TypingInv, Lru
    <3>2. l \in Nat /\ l + Len(completions) = Len(recent)
      BY <2>1, <3>1
    <3>. HIDE DEF l
    <3>3. Len(recent) - (l + 1) + 1 = Len(completions)
      BY <2>1, <3>2
    <3>4. last = [i \in 1 .. Len(completions) |-> recent[l + i]]
      <4>1. last \in Seq(Texts) /\ Len(last) = Len(completions)
            /\ \A i \in 1 .. Len(completions) : last[i] = recent[(l + 1) + i - 1]
        BY <2>1, <3>2, <3>3
      <4>2. \A i \in 1 .. Len(completions) : (l + 1) + i - 1 = l + i
        BY <2>1, <3>2
      <4>. HIDE DEF last
      <4>3. last = [i \in 1 .. Len(completions) |-> last[i]]
        BY <4>1
      <4>. QED BY <4>1, <4>2, <4>3
    <3>5. keys = [i \in 1 .. Len(completions) |-> recent[l + i]]
      BY <2>1, <3>1
    <3>6. keys = SubSeq(recent, l + 1, Len(recent))
      BY <3>4, <3>5
    <3>. QED BY <2>1, <3>1, <3>6 DEF Typing!CacheIsLru, l
  <2>. QED BY <2>2, <2>3, <2>4 DEF Typing!SuggestionsAreCurrent
<1>. QED BY <1>1, TypingInductive, PTL

\* Requests and answers are what TypeOK of InlineCompletion says.
THEOREM TypingTypes ==
  ASSUME CacheSize \in Nat, MaxTyped \in Nat
  PROVE  Typing!Spec => []Typing!TypeOK
<1>1. ASSUME TypingInv PROVE Typing!TypeOK
  <2>1. /\ DOMAIN editor = 1 .. Len(editor) /\ DOMAIN service = 1 .. Len(editor)
        /\ \A r \in 1 .. Len(editor) : editor[r] \in EditorEntries /\ service[r] \in ServiceEntries
    BY <1>1 DEF TypingInv, TypingTyped
  <2>2. recent \in [1 .. Len(recent) -> Texts]
    BY <1>1 DEF TypingInv, TypingTyped
  <2>3. Typing!Range(recent) \subseteq Texts
    BY <2>2 DEF Typing!Range
  <2>. QED BY <1>1, <2>1, <2>3
       DEF TypingInv, TypingTyped, Typing!TypeOK, Typing!Newest, Typing!Requests, EditorEntries,
       ServiceEntries, Said
<1>. QED BY <1>1, TypingInductive, PTL
=============================================================================
