----------------------------- MODULE MCQuizSets -----------------------------
(* The small instance of QuizSets for TLC.  Workers are interchangeable.       *)
EXTENDS QuizSets, TLC

CONSTANTS w1, w2

WorkerSymmetry == Permutations(Workers)
=============================================================================
