---------------------------- MODULE MCReviewRun ----------------------------
(* Model-checking instances of ReviewRun. *)
EXTENDS ReviewRun, TLC

RunSymmetry == Permutations(Runs)
=============================================================================
