----------------------------- MODULE MCRecovery -----------------------------
(* Recovery in units of a minute, with a shorter fallback than the five of the code. *)
EXTENDS Recovery, TLC

CONSTANTS e1, e2

EvaluationSymmetry == Permutations(Evaluation)
=============================================================================
