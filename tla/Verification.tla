---------------------------- MODULE Verification ----------------------------
(*****************************************************************************)
(* VerificationEngine.verify (src/agent/verification.py): what was applied is *)
(* compared with what git reports, the tests of the files are run, and the    *)
(* verdict is drawn that the reflection and a replan rest on.                 *)
(*                                                                           *)
(* git reports a changed file under its own path, or under another name: the  *)
(* directory of a new file in a new directory, "old -> new", a quoted path, a *)
(* path from the top of the repository.  A test file holds one test; one that *)
(* cannot be collected ends the session of pytest before any test runs.  The  *)
(* engine is built without a reference graph everywhere, so the tests are     *)
(* those named after the files.                                              *)
(*****************************************************************************)
EXTENDS Integers, Sequences, FiniteSets, Functions

CONSTANTS Files,      \* files of the workspace
          StemOf,     \* name -> the stem a test is named after
          SrcNames,   \* names that start with src/
          Tests,      \* stems that have a test file
          MaxPlanned  \* bound: files applied at once

Name(f, plain) == [file |-> f, plain |-> plain]
Names == [file : Files, plain : BOOLEAN]
Full == 60          \* confidence 1.0: shares of up to three files and tests divide it
TenPercent == 6

VARIABLES step,      \* "status", "select", "run", "judge", "judged"
          planned,   \* the applied paths, relative to the root (_normalize)
          change,    \* file -> how it differs from HEAD: "same", "plain", "other"
          ends,      \* stem -> how its test ends: "pass", "fail", "error" in its
                     \* setup, "uncollected"
          changed,   \* what git reported
          gitFailed,
          selected,
          noOutput,  \* the run of the tests has timed out or could not be started
          passed, failed, \* the counts of pytest's summary
          verdict    \* status, risk and confidence

vars == <<step, planned, change, ends, changed, gitFailed, selected, noOutput,
          passed, failed, verdict>>

NoVerdict == [status |-> "none", risk |-> "none", confidence |-> 0]

TypeOK ==
    /\ step \in {"status", "select", "run", "judge", "judged"}
    /\ changed \subseteq Names /\ selected \subseteq Tests
    /\ passed + failed <= Cardinality(selected)
    /\ verdict.status \in {"none", "SUCCESS", "UNVERIFIED", "FAILED"}
    /\ verdict.risk \in {"none", "LOW", "MEDIUM", "HIGH"}
    /\ verdict.confidence \in 0 .. Full

\* A file may be applied twice, through an absolute and a relative path.
Init ==
    /\ step = "status"
    /\ planned \in UNION {[1 .. n -> {Name(f, TRUE) : f \in Files}] : n \in 0 .. MaxPlanned}
    /\ change \in [Files -> {"same", "plain", "other"}]
    /\ ends \in [Tests -> {"pass", "fail", "error", "uncollected"}]
    /\ changed = {} /\ gitFailed = FALSE /\ selected = {} /\ noOutput = FALSE
    /\ passed = 0 /\ failed = 0 /\ verdict = NoVerdict

-----------------------------------------------------------------------------
(* The pipeline.                                                             *)

\* _changed_files: git status --porcelain.
Status ==
    /\ step = "status" /\ step' = "select"
    /\ changed' = {Name(f, change[f] = "plain") : f \in {g \in Files : change[g] # "same"}}
    /\ UNCHANGED <<planned, change, ends, gitFailed, selected, noOutput, passed, failed, verdict>>

\* It fails, times out, or the workspace is no repository.
StatusFails ==
    /\ step = "status" /\ step' = "select"
    /\ gitFailed' = TRUE
    /\ UNCHANGED <<planned, change, ends, changed, selected, noOutput, passed, failed, verdict>>

PlannedSet == Range(planned)

SelectChanged ==  \* mutant: only what git reports is looked up
    /\ step = "select" /\ step' = "run"
    /\ selected' = {StemOf[n] : n \in changed} \cap Tests
    /\ UNCHANGED <<planned, change, ends, changed, gitFailed, noOutput, passed, failed, verdict>>

\* _select_tests: tests/test_<stem>.py of every planned and reported name.
Select ==
    /\ step = "select" /\ step' = "run"
    /\ selected' = {StemOf[n] : n \in PlannedSet \cup changed} \cap Tests
    /\ UNCHANGED <<planned, change, ends, changed, gitFailed, noOutput, passed, failed, verdict>>

EndingWith(how) == Cardinality({t \in selected : ends[t] = how})

Interrupted == \E t \in selected : ends[t] = "uncollected"

\* _run_tests and _parse_pytest_counts: an error in a setup counts neither as
\* passed nor as failed, and an interrupted session reports none of either.
RunTests ==
    /\ step = "run" /\ step' = "judge"
    /\ passed' = IF Interrupted THEN 0 ELSE EndingWith("pass")
    /\ failed' = IF Interrupted THEN 0 ELSE EndingWith("fail")
    /\ UNCHANGED <<planned, change, ends, changed, gitFailed, selected, noOutput, verdict>>

\* TimeoutExpired, and any other exception of the runner.
RunnerFails ==
    /\ step = "run" /\ selected # {} /\ step' = "judge"
    /\ noOutput' = TRUE
    /\ UNCHANGED <<planned, change, ends, changed, gitFailed, selected, passed, failed, verdict>>

-----------------------------------------------------------------------------
(* The verdict.                                                              *)

Unexpected(c) == c \ PlannedSet

DetermineStatus ==
    CASE failed > 0 -> "FAILED"
      [] failed = 0 /\ PlannedSet = {} /\ changed = {} -> "UNVERIFIED"
      [] failed = 0 /\ PlannedSet # {} /\ PlannedSet \cap changed = {} -> "UNVERIFIED"
      [] OTHER -> "SUCCESS"

ComputeRisk ==
    LET odd == Unexpected(changed)
        many == Cardinality(changed)
    IN  CASE failed > 0 \/ odd \cap SrcNames # {} \/ many > 5 \/ Cardinality(odd) > 2 -> "HIGH"
          [] failed = 0 /\ odd \cap SrcNames = {} /\ many <= 5 /\ Cardinality(odd) <= 2
               /\ (many >= 3 \/ odd # {}) -> "MEDIUM"
          [] OTHER -> "LOW"

Least(i, j) == IF i < j THEN i ELSE j
Clamped(i) == IF i < 0 THEN 0 ELSE Least(i, Full)

\* The share of the planned paths that changed, less the unexpected files, with
\* the tests for half of it.
Confidence(c) ==
    LET share == IF planned = <<>> THEN Full
                 ELSE (Full * Cardinality(PlannedSet \cap c)) \div Len(planned)
        score == share - Least(3, Cardinality(Unexpected(c))) * TenPercent
        run == passed + failed
    IN  Clamped(CASE run > 0 -> (score \div 2) + (Full * passed) \div (2 * run)
                  [] run = 0 /\ c = {} -> score \div 2
                  [] OTHER -> score)

Judge ==
    /\ step = "judge" /\ step' = "judged"
    /\ verdict' = [status |-> DetermineStatus, risk |-> ComputeRisk,
                   confidence |-> Confidence(changed)]
    /\ UNCHANGED <<planned, change, ends, changed, gitFailed, selected, noOutput, passed, failed>>

Next == Status \/ StatusFails \/ Select \/ RunTests \/ RunnerFails \/ Judge

Spec == Init /\ [][Next]_vars

-----------------------------------------------------------------------------
\* The verdict never claims more than what git and pytest have said: a failing
\* test of a planned file gives FAILED, HIGH and less than full confidence, unless
\* the session reported no counts, because the runner failed or a chosen test
\* file could not be collected (then the failing test goes unnoticed); SUCCESS
\* with planned files means that one of them really differs from HEAD; full
\* confidence that every planned file does and that git reported no other; LOW
\* risk with a working git that no file of src/ changed unplanned; and one more
\* unexpected file never raises the confidence in planned work.
VerdictIsEarned ==
    step = "judged" =>
        LET failing == \E n \in PlannedSet : StemOf[n] \in Tests /\ ends[StemOf[n]] = "fail"
            reported == ~noOutput /\ ~Interrupted
            really == {n \in PlannedSet : change[n.file] # "same"}
        IN  /\ failing /\ reported =>
                 /\ verdict.status = "FAILED" /\ verdict.risk = "HIGH"
                 /\ verdict.confidence < Full
            /\ verdict.status = "SUCCESS" /\ planned # <<>> => really # {}
            /\ verdict.confidence = Full =>
                 /\ really = PlannedSet
                 /\ \A f \in Files : change[f] # "same" => Name(f, TRUE) \in PlannedSet
            /\ verdict.risk = "LOW" /\ ~gitFailed =>
                 \A f \in Files : change[f] = "plain" /\ Name(f, TRUE) \in SrcNames
                                    => Name(f, TRUE) \in PlannedSet
            /\ planned # <<>> =>
                 \A n \in Names \ PlannedSet : Confidence(changed \cup {n}) <= Confidence(changed)
=============================================================================
