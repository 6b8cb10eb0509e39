---------------------------- MODULE MCResumeStream ----------------------------
(* Model-checking instance of ResumeStream. *)
EXTENDS ResumeStream, TLC

CONSTANTS r1, r2

TwoRecoveries == {r1, r2}

Symmetry == Permutations(TwoRecoveries)
================================================================================
