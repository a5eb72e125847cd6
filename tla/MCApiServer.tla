------------------------------ MODULE MCApiServer ------------------------------
(* Two users and room for one session: every request of the second user makes   *)
(* the registry choose, and a user whose session is gone gets another.  Two     *)
(* runs may overlap, on one session or on two, and two approvals may race.      *)
EXTENDS ApiServer, TLC

Symmetry == Permutations(Users) \cup Permutations(Approvers)
=============================================================================
