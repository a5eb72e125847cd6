------------------------------- MODULE Scanner -------------------------------
(*****************************************************************************)
(* What Pearl knows of a workspace: RepositoryScanner                         *)
(* (src/repository/scanner.py) walks the tree under the .gitignore files,     *)
(* collects the files in a thread pool, and the Python ones are parsed and    *)
(* put into the RepositoryIndex (src/repository/index.py), while files may    *)
(* disappear.                                                                *)
(*                                                                           *)
(* A path is its sequence of names, and a pattern the sequence of its         *)
(* components, each a name or "*".  The globs within a name, "**" and symbolic *)
(* links are left out.                                                       *)
(*****************************************************************************)
EXTENDS Naturals, Sequences, FiniteSets, SequencesExt

CONSTANTS Dirs,       \* the directories, <<>> the root
          Sorted,     \* the files, in the order of their relative paths
          IgnoreDirs, \* _ALWAYS_IGNORE_DIRS
          Oversized,  \* files beyond max_file_size_bytes
          Symbols,    \* Python file -> the [name, qualified] it defines, in order
          Gitignores, \* the .gitignore contents to check: Dirs -> sequences of
                      \* patterns [neg, dirOnly, anchored, comps]
          MaxGone     \* bound: files that disappear

Files == Range(Sorted)
Undecided == "undecided"

VARIABLES rules,   \* the .gitignore files, as they are on disk
          gone,    \* files that disappeared since
          stage,   \* "walk", "collect", "index", "built"
          left,    \* os.walk: directories still to visit
          loaded,  \* gitignore_cache
          paths,   \* file_paths
          infos,   \* results of the pool, then ScanResult.files
          byName, byQualified  \* RepositoryIndex

vars == <<rules, gone, stage, left, loaded, paths, infos, byName, byQualified>>

Names == {s.name : s \in UNION {Range(Symbols[f]) : f \in DOMAIN Symbols}}
Qualified == {s.qualified : s \in UNION {Range(Symbols[f]) : f \in DOMAIN Symbols}}
Entries == UNION {{[file |-> f, at |-> i] : i \in DOMAIN Symbols[f]} : f \in DOMAIN Symbols}

TypeOK ==
    /\ DOMAIN rules = Dirs /\ gone \subseteq Files
    /\ stage \in {"walk", "collect", "index", "built"}
    /\ Range(left) \subseteq Dirs /\ DOMAIN loaded \subseteq Dirs
    /\ Range(paths) \subseteq Files \ Oversized /\ Range(infos) \subseteq Range(paths)
    /\ \A n \in DOMAIN byName : Range(byName[n]) \subseteq Entries
    /\ \A n \in DOMAIN byQualified : byQualified[n] \in Entries

Init ==
    /\ rules \in Gitignores
    /\ gone = {} /\ stage = "walk" /\ left = <<<<>>>>
    /\ loaded = [d \in {} |-> <<>>]
    /\ paths = <<>> /\ infos = <<>>
    /\ byName = [n \in Names |-> <<>>]
    /\ byQualified = [n \in {} |-> [file |-> <<>>, at |-> 0]]

-----------------------------------------------------------------------------
(* One .gitignore (GitignoreRules).                                          *)

Fits(component, name) == component \in {"*", name}

\* The regular expression of _compile_gitignore_pattern ends in (/|$): a pattern
\* matches a path when it matches it or a directory above it.
Matches(pattern, relative) ==
    IF pattern.anchored
    THEN /\ Len(pattern.comps) <= Len(relative)
         /\ \A i \in DOMAIN pattern.comps : Fits(pattern.comps[i], relative[i])
    ELSE \E k \in DOMAIN relative : Fits(pattern.comps[1], relative[k])

LastOf(S) == CHOOSE i \in S : \A j \in S : j <= i

\* GitignoreRules.is_ignored: the last pattern that matches decides.
Decision(patterns, relative, isDir) ==
    LET hits == {i \in DOMAIN patterns :
                    (patterns[i].dirOnly => isDir) /\ Matches(patterns[i], relative)}
    IN  IF hits = {} THEN Undecided
        ELSE IF patterns[LastOf(hits)].neg THEN "listed" ELSE "ignored"

-----------------------------------------------------------------------------
(* The walk.                                                                 *)

Above(d) == {SubSeq(d, 1, n) : n \in 0 .. Len(d)}
Relative(path, base) == SubSeq(path, Len(base) + 1, Len(path))

OwnRules(d, cache) ==  \* mutant: only the rules of the directory itself
    {d} \cap DOMAIN cache

\* _collect_rules: the directories from the root down that have rules.
CollectRules(d, cache) == Above(d) \cap DOMAIN cache

\* _is_gitignored: the deepest .gitignore that decides, decides.
IsGitignored(path, isDir, d, cache) ==
    LET deciding == {base \in CollectRules(d, cache) :
                        Decision(cache[base], Relative(path, base), isDir) # Undecided}
    IN  /\ deciding # {}
        /\ LET deepest == CHOOSE base \in deciding : \A o \in deciding : Len(o) <= Len(base)
           IN  Decision(cache[deepest], Relative(path, deepest), isDir) = "ignored"

\* _load_gitignore: a file without a pattern counts as none.
Load(d) == IF rules[d] = <<>> THEN loaded
           ELSE [b \in DOMAIN loaded \cup {d} |-> IF b = d THEN rules[d] ELSE loaded[b]]

InDir(d, path) == Len(path) = Len(d) + 1 /\ IsPrefix(d, path)

\* Directory names are sorted: the order in which the tree's files come.
FirstFile(d) == CHOOSE i \in DOMAIN Sorted :
                    IsPrefix(d, Sorted[i]) /\ \A j \in 1 .. i - 1 : ~IsPrefix(d, Sorted[j])
InOrder(S) == SetToSortSeq(S, LAMBDA c, d : FirstFile(c) < FirstFile(d))

\* One directory of os.walk: load its rules, prune its directories, keep its files.
Visit ==
    /\ stage = "walk" /\ left # <<>>
    /\ LET d == Head(left)
           down == {c \in Dirs : /\ InDir(d, c) /\ Last(c) \notin IgnoreDirs
                                 /\ ~IsGitignored(c, TRUE, d, Load(d))}
           kept == SelectSeq(Sorted, LAMBDA f :
                      /\ InDir(d, f) /\ ~IsGitignored(f, FALSE, d, Load(d))
                      /\ f \notin gone \cup Oversized)
       IN  /\ left' = InOrder(down) \o Tail(left)
           /\ paths' = paths \o kept
           /\ loaded' = Load(d)
    /\ UNCHANGED <<rules, gone, stage, infos, byName, byQualified>>

Walked ==
    /\ stage = "walk" /\ left = <<>>
    /\ stage' = "collect"
    /\ UNCHANGED <<rules, gone, left, loaded, paths, infos, byName, byQualified>>

-----------------------------------------------------------------------------
(* The pool, the sort and the index.                                         *)

\* _collect_file_info in the order the threads finish; a file that disappeared
\* gives None and is left out.
Collect(f) ==
    /\ stage = "collect"
    /\ f \in Range(paths) \ (Range(infos) \cup gone)
    /\ infos' = Append(infos, f)
    /\ UNCHANGED <<rules, gone, stage, left, loaded, paths, byName, byQualified>>

\* results.sort: by relative path.
Collected ==
    /\ stage = "collect"
    /\ Range(paths) \subseteq Range(infos) \cup gone
    /\ stage' = "index"
    /\ infos' = SelectSeq(Sorted, LAMBDA f : f \in Range(infos))
    /\ UNCHANGED <<rules, gone, left, loaded, paths, byName, byQualified>>

\* ScanResult.source_files: the Python files, in the order of the scan.
SourceFiles == SelectSeq(infos, LAMBDA f : f \in DOMAIN Symbols)

\* ParserRegistry.parse: the definitions in the order of the file; a file that
\* does not parse defines nothing.
Parse(f) == [i \in DOMAIN Symbols[f] |-> [file |-> f, at |-> i]]
ParseMany == FlattenSeq([i \in DOMAIN SourceFiles |-> Parse(SourceFiles[i])])
SymbolOf(entry) == Symbols[entry.file][entry.at]

\* RepositoryIndex.build: one pass; a qualified name is its last definition's.
\* The entries by file and kind and the imports are filed in the same pass.
Build ==
    /\ stage = "index"
    /\ stage' = "built"
    /\ byName' = [n \in Names |-> SelectSeq(ParseMany, LAMBDA e : SymbolOf(e).name = n)]
    /\ byQualified' =
         [n \in {SymbolOf(e).qualified : e \in Range(ParseMany)} |->
             Last(SelectSeq(ParseMany, LAMBDA e : SymbolOf(e).qualified = n))]
    /\ UNCHANGED <<rules, gone, left, loaded, paths, infos>>

Lookup(name) == IF name \in DOMAIN byName THEN byName[name] ELSE <<>>
LookupQualified(name) == IF name \in DOMAIN byQualified THEN {byQualified[name]} ELSE {}

Disappear(f) ==
    /\ stage \in {"walk", "collect"} /\ Cardinality(gone) < MaxGone
    /\ f \notin gone /\ gone' = gone \cup {f}
    /\ UNCHANGED <<rules, stage, left, loaded, paths, infos, byName, byQualified>>

Next == Visit \/ Walked \/ Collected \/ Build
          \/ \E f \in Files : Collect(f) \/ Disappear(f)

Spec == Init /\ [][Next]_vars

-----------------------------------------------------------------------------
(* What git itself does with the same files.                                 *)

\* A pattern matches the path alone, not what is below it.
GitMatches(pattern, relative) ==
    IF pattern.anchored
    THEN Len(pattern.comps) = Len(relative) /\ Matches(pattern, relative)
    ELSE Fits(pattern.comps[1], Last(relative))

\* The last matching pattern of the deepest .gitignore above the path.
GitDecides(path, isDir) ==
    LET Hits(b) == {i \in DOMAIN rules[b] : /\ rules[b][i].dirOnly => isDir
                                            /\ GitMatches(rules[b][i], Relative(path, b))}
        bases == {b \in Above(Front(path)) : Hits(b) # {}}
        base == CHOOSE b \in bases : \A o \in bases : Len(o) <= Len(b)
    IN  bases # {} /\ ~rules[base][LastOf(Hits(base))].neg

\* What is below an ignored directory cannot be re-included.
GitIgnores(f) == GitDecides(f, FALSE) \/ \E d \in Above(Front(f)) \ {<<>>} : GitDecides(d, TRUE)

Skipped(f) == f \in Oversized \/ Range(Front(f)) \cap IgnoreDirs # {}

\* A negation that takes a directory back: scanner.py does not follow git there.
ReincludesDir ==
    \E b \in Dirs : \E i \in DOMAIN rules[b] : \E d \in Dirs \ {b} :
        rules[b][i].neg /\ IsPrefix(b, d) /\ GitMatches(rules[b][i], Relative(d, b))

Known == {e \in Entries : e.file \in Range(infos)}

Precedes(e, o) ==
    \/ e.file = o.file /\ e.at < o.at
    \/ \E k, l \in DOMAIN Sorted : k < l /\ Sorted[k] = e.file /\ Sorted[l] = o.file

\* The scan lists, each once and in the order of the paths whatever the order of
\* the pool, exactly the files that are there, that git would not ignore, and that
\* are not below a generated directory (scanner.py: "standard gitignore semantics";
\* "more specific rules override less specific ones") - but for .gitignore files
\* that take a directory back.  Oversized files are not listed, as scan() and its
\* tests have it; the comment on max_file_size_bytes says they are.  Lookups then name every
\* definition once, in that order, and a qualified name its last one.
ScanIsExact ==
    stage = "built" =>
        /\ ~ReincludesDir =>
             \A f \in Files : /\ f \in Range(infos) => ~GitIgnores(f) /\ ~Skipped(f)
                              /\ f \notin gone /\ ~GitIgnores(f) /\ ~Skipped(f)
                                   => f \in Range(infos)
        /\ infos = SelectSeq(Sorted, LAMBDA f : f \in Range(infos))
        /\ \A n \in Names :
             /\ Range(Lookup(n)) = {e \in Known : SymbolOf(e).name = n}
             /\ \A i, j \in DOMAIN Lookup(n) : i < j => Precedes(Lookup(n)[i], Lookup(n)[j])
        /\ \A n \in Qualified :
             LookupQualified(n) = {e \in Known : /\ SymbolOf(e).qualified = n
                                                 /\ \A o \in Known : SymbolOf(o).qualified = n
                                                      => ~Precedes(e, o)}
=============================================================================
