----------------------------- MODULE LineEdits -----------------------------
(***************************************************************************)
(* The edits that address a file by line: edit_lines and patch_file        *)
(* (src/tools/edit_tools.py), and the symbol editor, which takes line      *)
(* numbers from the syntax tree and cuts the text by lines of its own      *)
(* (src/tools/symbol_editor.py).                                           *)
(*                                                                         *)
(* A line is its text and what ends it: "nl", "ff" (a form feed, which     *)
(* str.splitlines splits at and the Python parser does not), or "none" for *)
(* the last line of a file without a trailing newline.  A hunk is where it *)
(* starts, the lines it removes (context included) and those it puts in    *)
(* their place; the hunks of a diff are applied in ascending order.        *)
(***************************************************************************)
EXTENDS Integers, FiniteSets, Sequences, SequencesExt, FiniteSetsExt

CONSTANTS Words,    \* texts of a line
          MaxLines, \* bound: lines of the file
          MaxHunks, \* bound: hunks of a diff
          MaxOld,   \* bound: lines a hunk removes
          MaxNew    \* bound: lines a hunk or an insertion adds

Line == [word : Words, end : {"nl", "ff"}]
Plain(word) == [word |-> word, end |-> "nl"]

\* A text of n lines, its last one perhaps without a newline.
Texts == UNION {[1..n -> Line] : n \in 0..MaxLines}
Unclosed(t) == [t EXCEPT ![Len(t)].end = "none"]
Inserts(n) == {[i \in DOMAIN s |-> Plain(s[i])] : s \in BoundedSeq(Words, n)}

Symbols == [deco : 1..MaxLines, first : 1..MaxLines, last : 1..MaxLines]

VARIABLES phase,   \* "input", "patching", "done" or "refused"
          text,    \* the file as it was read
          result,  \* the lines being worked on
          offset,  \* _apply_hunks: offset
          hunks,   \* the hunks applied so far
          edit     \* edit_lines or symbol operation: what was asked

vars == <<phase, text, result, offset, hunks, edit>>

Init == /\ phase = "input"
        /\ text \in Texts \cup {Unclosed(t) : t \in Texts \ {<<>>}}
        /\ result = <<>> /\ offset = 0 /\ hunks = <<>> /\ edit = <<>>

-----------------------------------------------------------------------------
(* Python list slices: a bound below zero counts from the end, and both    *)
(* are cut to the list.                                                    *)

Bounded(i, n) == Max({0, Min({n, IF i < 0 THEN i + n ELSE i})})
SliceOf(s, from, to) ==
    SubSeq(s, Bounded(from, Len(s)) + 1, Bounded(to, Len(s)))
Splice(s, from, to, new) ==
    LET first == Bounded(from, Len(s))
        last == Max({first, Bounded(to, Len(s))})
    IN  SubSeq(s, 1, first) \o new \o SubSeq(s, last + 1, Len(s))

WordsOf(s) == [i \in DOMAIN s |-> s[i].word]

\* _lines_to_text: every line ends with a newline, the last one if the file's
\* did.
Closed == text = <<>> \/ Last(text).end = "nl"
Joined(s) == [i \in DOMAIN s |->
                 [s[i] EXCEPT !.end = IF i < Len(s) \/ Closed THEN "nl" ELSE "none"]]

-----------------------------------------------------------------------------
(* edit_lines.                                                             *)

EditLines(start, end, new) ==
    /\ phase = "input"
    /\ IF start < 1 \/ end < start \/ end > Len(text)
       THEN phase' = "refused" /\ UNCHANGED <<result, edit>>
       ELSE /\ result' = Joined(Splice(text, start - 1, end, new))
            /\ edit' = [op |-> "edit", from |-> start, to |-> end, new |-> new]
            /\ phase' = "done"
    /\ UNCHANGED <<text, offset, hunks>>

-----------------------------------------------------------------------------
(* patch_file: _apply_hunks.                                               *)

Hunk == [start : 0..MaxLines, old : BoundedSeq(Words, MaxOld),
         new : Inserts(MaxNew)]

\* The next hunk of the diff lies behind the one before.
Follows(h) ==
    /\ IF h.old = <<>> THEN h.start <= Len(text) ELSE h.start > 0
    /\ hunks # <<>> =>
          LET g == Last(hunks)
          IN  h.start >= g.start + Max({1, Len(g.old)})

\* Mutant: later hunks land where they would in the unpatched file.
OffsetForgotten(h) == offset

Offset(h) == offset + Len(h.new) - Len(h.old)

ApplyHunk(h) ==
    /\ phase \in {"input", "patching"} /\ Len(hunks) < MaxHunks /\ Follows(h)
    /\ LET lines == IF phase = "input" THEN text ELSE result
           start == h.start - 1 + offset
           end == start + Len(h.old)
       IN  IF WordsOf(SliceOf(lines, start, end)) = h.old
           THEN /\ result' = Splice(lines, start, end, h.new)
                /\ offset' = Offset(h)
                /\ phase' = "patching"
           ELSE /\ phase' = "refused"
                /\ UNCHANGED <<result, offset>>
    /\ hunks' = Append(hunks, h)
    /\ UNCHANGED <<text, edit>>

Patched == /\ phase = "patching"
           /\ result' = Joined(result)
           /\ phase' = "done"
           /\ UNCHANGED <<text, offset, hunks, edit>>

-----------------------------------------------------------------------------
(* The symbol editor.                                                      *)

Newlines(s) == Cardinality({i \in DOMAIN s : s[i].end = "nl"})

\* A definition of the file: it starts behind a newline and ends at one.
IsSymbol(s) ==
    /\ s.deco <= s.first /\ s.first <= s.last /\ s.last <= Len(text)
    /\ \A i \in {s.deco, s.first} : i > 1 => text[i - 1].end = "nl"
    /\ text[s.last].end # "ff"

\* The line of the syntax tree that text line i is part of.
LineNo(i) == 1 + Newlines(SubSeq(text, 1, i - 1))

StartLine(s) == LineNo(s.deco)
EndLine(s) == LineNo(s.last)

Location(s) == [from |-> StartLine(s), to |-> EndLine(s)]

\* _as_lines: the new source always ends with a newline.
SpliceSymbol(s, new) ==
    /\ phase = "input" /\ IsSymbol(s)
    /\ result' = Splice(text, Location(s).from - 1, Location(s).to, new)
    /\ edit' = [op |-> "splice", from |-> s.deco, to |-> s.last, new |-> new]
    /\ phase' = "done"
    /\ UNCHANGED <<text, offset, hunks>>

InsertAfter(s, new) ==
    /\ phase = "input" /\ IsSymbol(s)
    /\ result' = Splice(text, Location(s).to, Location(s).to, new)
    /\ edit' = [op |-> "insert", from |-> s.last + 1, to |-> s.last, new |-> new]
    /\ phase' = "done"
    /\ UNCHANGED <<text, offset, hunks>>

InsertBefore(s, new) ==
    /\ phase = "input" /\ IsSymbol(s)
    /\ result' = Splice(text, Location(s).from - 1, Location(s).from - 1, new)
    /\ edit' = [op |-> "insert", from |-> s.deco, to |-> s.deco - 1, new |-> new]
    /\ phase' = "done"
    /\ UNCHANGED <<text, offset, hunks>>

-----------------------------------------------------------------------------
Next == \/ \E a, b \in 0..MaxLines + 1, new \in Inserts(MaxNew) :
              EditLines(a, b, new)
        \/ \E h \in Hunk : ApplyHunk(h)
        \/ Patched
        \/ \E s \in Symbols, new \in Inserts(MaxNew) \ {<<>>} :
              \/ SpliceSymbol(s, new)
              \/ InsertAfter(s, new)
              \/ InsertBefore(s, new)

Spec == Init /\ [][Next]_vars

-----------------------------------------------------------------------------
AnyLine == [word : Words, end : {"nl", "ff", "none"}]

TypeOK == /\ phase \in {"input", "patching", "done", "refused"}
          /\ Range(text) \cup Range(result) \subseteq AnyLine
          /\ offset \in -(MaxHunks * MaxOld)..(MaxHunks * MaxNew)
          /\ Len(hunks) <= MaxHunks

\* What the diff says of line i of the file: it is replaced, with the new
\* lines in place of the first one, or kept.
Patch(hs) ==
    LET Owner(i) == {k \in DOMAIN hs : i \in hs[k].start..hs[k].start + Len(hs[k].old) - 1}
        After(i) == {k \in DOMAIN hs : hs[k].old = <<>> /\ hs[k].start = i}
        New(K)   == IF K = {} THEN <<>> ELSE hs[CHOOSE k \in K : TRUE].new
        Part(i)  == (IF Owner(i) = {} THEN <<text[i]>>
                     ELSE New({k \in Owner(i) : hs[k].start = i}))
                    \o New(After(i))
    IN  New(After(0)) \o FlattenSeq([i \in DOMAIN text |-> Part(i)])

\* Every hunk's old lines are those of the file at the place it names.
Fits(hs) ==
    \A k \in DOMAIN hs :
        hs[k].old = WordsOf(SliceOf(text, hs[k].start - 1,
                                    hs[k].start - 1 + Len(hs[k].old)))

\* A diff whose hunks all remove or quote a line is applied exactly where its
\* line numbers say, however the hunks before it shifted the file, and refused
\* if one of them does not match (_apply_hunks).
HunksApplyExactly ==
    /\ hunks # <<>>
    /\ \A k \in DOMAIN hunks : hunks[k].old # <<>>
    /\ phase \in {"done", "refused"}
    => IF phase = "done" THEN Fits(hunks) /\ WordsOf(result) = WordsOf(Patch(hunks))
                         ELSE ~Fits(hunks)

\* Lines, functions and classes are replaced with their decorators, and new
\* source is put next to them, without touching a line outside - in a file
\* whose lines all end with a newline (edit_lines, SymbolEditor).
EditsAreLocal ==
    /\ phase = "done" /\ edit # <<>>
    /\ \A i \in DOMAIN text : text[i].end = "nl"
    => result = SubSeq(text, 1, edit.from - 1) \o edit.new
                \o SubSeq(text, edit.to + 1, Len(text))

\* Both ways to address lines.
EditsAreExact == HunksApplyExactly /\ EditsAreLocal
=============================================================================
