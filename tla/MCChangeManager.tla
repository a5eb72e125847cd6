----------------------------- MODULE MCChangeManager -----------------------------
(* Two files and two texts, the empty one and the one a torn write leaves:      *)
(* enough for a rename, for a second edit of the same file and for a batch that *)
(* mixes files.                                                                 *)
EXTENDS ChangeManager, TLC

PathSymmetry == Permutations(Paths)
=============================================================================
