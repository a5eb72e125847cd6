--------------------------- MODULE SearchReplace ---------------------------
(***************************************************************************)
(* One call of SearchReplaceEditor.apply                                   *)
(* (src/tools/search_replace_editor.py), the engine of replace_in_file:    *)
(* the exact replacement, counted or of all occurrences, then the          *)
(* whitespace-normalized match, then the fuzzy one.                        *)
(*                                                                         *)
(* A text is a sequence of characters, of which Space stands for every     *)
(* kind of white space.  The similarity ratio of the fuzzy match is not    *)
(* computed: any window of the lengths it tries may be the best one.       *)
(***************************************************************************)
EXTENDS Integers, FiniteSets, Sequences, SequencesExt, FiniteSetsExt

CONSTANTS Chars,      \* characters that are not white space
          Space,
          MaxContent, \* bound: length of the file
          MaxSearch,  \* bound: length of the text searched for
          MaxReplace, \* bound: length of the replacement
          MaxCount,   \* bound: occurrences asked for; -1 asks for all
          StepShare   \* the windows advance by a StepShare-th of the search

Texts(n) == BoundedSeq(Chars \cup {Space}, n)

VARIABLES phase,    \* "input", "counting" or an ending
          content,  \* the file
          search, replace, count, \* the arguments
          updated,  \* the text being worked on
          pos,      \* where the counted loop looks next
          replaced, \* occurrences replaced
          window    \* <<start, end>>: the region a single replacement takes

vars == <<phase, content, search, replace, count, updated, pos, replaced, window>>
arguments == <<content, search, replace, count>>

Endings == {"exact", "normalized", "fuzzy", "failed"}

Init == /\ phase = "input"
        /\ content \in Texts(MaxContent)
        /\ search \in Texts(MaxSearch)
        /\ replace \in Texts(MaxReplace)
        /\ count \in -1..MaxCount
        /\ updated = content /\ pos = 0 /\ replaced = 0 /\ window = <<>>

-----------------------------------------------------------------------------
(* Positions count from 0, as in the code: content[start:end].             *)

Slice(s, start, end) == SubSeq(s, start + 1, end)
OccursAt(s, t, i) == i + Len(t) <= Len(s) /\ Slice(s, i, i + Len(t)) = t
Occurrences(s, t) == {i \in 0..Len(s) : OccursAt(s, t, i)}

\* The occurrences str.replace takes: from the left, without overlap.
Taken(s, t) ==
    LET all == Occurrences(s, t)
        overlap(i, j) == i < j /\ j < i + Len(t)
    IN  CHOOSE P \in SUBSET all :
            /\ \A i, j \in P : ~overlap(i, j)
            /\ \A j \in all \ P : \E i \in P : overlap(i, j)

\* s with the first n of them replaced.
Replacing(s, t, new, n) ==
    LET all == Taken(s, t)
        first == {i \in all : Cardinality({j \in all : j < i}) < n}
        Inside(k) == \E i \in first : i < k /\ k < i + Len(t)
        Part(k) == CASE k \in first -> new
                     [] Inside(k)   -> <<>>
                     [] OTHER       -> <<s[k + 1]>>
    IN  FlattenSeq([k \in DOMAIN s |-> Part(k - 1)])

-----------------------------------------------------------------------------
(* Exact.                                                                  *)

Found == search # <<>> /\ Occurrences(content, search) # {}

EmptySearch == /\ phase = "input" /\ search = <<>>
               /\ phase' = "failed"
               /\ UNCHANGED <<arguments, updated, pos, replaced, window>>

ReplaceEvery ==
    /\ phase = "input" /\ Found /\ count = -1
    /\ updated' = Replacing(content, search, replace, Len(content))
    /\ replaced' = Cardinality(Taken(content, search))
    /\ phase' = "exact"
    /\ UNCHANGED <<arguments, pos, window>>

StartCounting == /\ phase = "input" /\ Found /\ count # -1
                 /\ phase' = "counting"
                 /\ UNCHANGED <<arguments, updated, pos, replaced, window>>

Ahead == {i \in Occurrences(updated, search) : i >= pos}

\* The loop goes on behind the replacement, which may contain the search text.
PosAfter(i) == i + Len(replace)

ReplaceNext ==
    /\ phase = "counting" /\ replaced < count /\ Ahead # {}
    /\ LET i == Min(Ahead)
       IN  /\ updated' = Slice(updated, 0, i) \o replace
                         \o Slice(updated, i + Len(search), Len(updated))
           /\ pos' = PosAfter(i)
    /\ replaced' = replaced + 1
    /\ UNCHANGED <<phase, arguments, window>>

CountingDone == /\ phase = "counting" /\ (replaced >= count \/ Ahead = {})
                /\ phase' = "exact"
                /\ UNCHANGED <<arguments, updated, pos, replaced, window>>

-----------------------------------------------------------------------------
(* Normalized.                                                             *)

\* Runs of white space become one, at the ends none.
Normalize(s) ==
    LET Kept(i) == \/ s[i] # Space
                   \/ /\ i > 1 /\ s[i - 1] # Space
                      /\ \E j \in i..Len(s) : s[j] # Space
        at == SelectSeq([i \in DOMAIN s |-> i], Kept)
    IN  [k \in DOMAIN at |-> s[at[k]]]

SearchLen == Len(search)
Step == Max({1, SearchLen \div StepShare})
Starts == {i \in 0..Len(content) - 1 : i % Step = 0}
Ends(i) == {e \in i..Len(content) :
               /\ e >= i + Max({1, SearchLen \div 2})
               /\ e < i + 2 * SearchLen + 10}

Fitting == {w \in Starts \X (0..Len(content)) :
               /\ w[2] \in Ends(w[1])
               /\ Normalize(Slice(content, w[1], w[2])) = Normalize(search)}

Before(v, w) == v[1] < w[1] \/ (v[1] = w[1] /\ v[2] < w[2])

FirstFitting == CHOOSE w \in Fitting : \A v \in Fitting : v = w \/ Before(w, v)

ReplaceWindow(w) == /\ updated' = Slice(content, 0, w[1]) \o replace
                                  \o Slice(content, w[2], Len(content))
                    /\ window' = w
                    /\ replaced' = 1

ReplaceNormalized ==
    /\ phase = "input" /\ search # <<>> /\ ~Found /\ Fitting # {}
    /\ ReplaceWindow(FirstFitting)
    /\ phase' = "normalized"
    /\ UNCHANGED <<arguments, pos>>

-----------------------------------------------------------------------------
(* Fuzzy.                                                                  *)

Span == Max({1, SearchLen \div 2})
Windows == {w \in (0..Len(content)) \X (0..Len(content)) :
               /\ w[1] < w[2]
               /\ w[2] - w[1] \in SearchLen - Span..SearchLen + Span}

ReplaceFuzzy ==
    /\ phase = "input" /\ search # <<>> /\ ~Found /\ Fitting = {}
    /\ \E w \in Windows : ReplaceWindow(w)
    /\ phase' = "fuzzy"
    /\ UNCHANGED <<arguments, pos>>

\* MatchFailed: nothing is similar enough.
NotFound ==
    /\ phase = "input" /\ search # <<>> /\ ~Found /\ Fitting = {}
    /\ phase' = "failed"
    /\ UNCHANGED <<arguments, updated, pos, replaced, window>>

-----------------------------------------------------------------------------
Next == \/ EmptySearch \/ ReplaceEvery \/ StartCounting \/ ReplaceNext
        \/ CountingDone \/ ReplaceNormalized \/ ReplaceFuzzy \/ NotFound

Spec == Init /\ [][Next]_vars

-----------------------------------------------------------------------------
TypeOK == /\ phase \in Endings \cup {"input", "counting"}
          /\ pos \in 0..Len(updated)
          /\ replaced \in 0..Len(content)

\* A counted replacement changes the first count occurrences, from the left
\* and without overlap, and nothing else, whatever the replacement contains;
\* count -1 all of them, and the number reported is the number changed
\* (_apply_replacement).
ReplacementIsExact ==
    phase = "exact" =>
        LET asked == IF count = -1 THEN Len(content) ELSE count
        IN  /\ updated = Replacing(content, search, replace, asked)
            /\ replaced = Min({asked, Cardinality(Taken(content, search))})
=============================================================================
