------------------------------- MODULE MCExecutor -------------------------------
(* Two threads: enough for an approval that races another approval, a rejection *)
(* or the run itself.  Two staged items: a batch of two edits, of an edit and a *)
(* command, or of two commands, two batches of one, and a batch of one that a   *)
(* call from outside the run joins.  One thread is enough to run a command      *)
(* twice.                                                                       *)
EXTENDS Executor
=============================================================================
