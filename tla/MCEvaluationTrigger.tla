------------------------ MODULE MCEvaluationTrigger ------------------------
(* Evaluation triggers with a few classes, jobs and tasks. *)
EXTENDS EvaluationTrigger, TLC

CONSTANTS c1, c2, j1, j2, t1, t2, t3

TaskSymmetry == Permutations(Task)
=============================================================================
