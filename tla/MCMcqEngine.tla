---------------------------- MODULE MCMcqEngine -----------------------------
(* A small instance of McqEngine for TLC.                                      *)
EXTENDS McqEngine, TLC

NewQuizWork   == NewQuiz
BegunQuizWork == BegunQuiz
Symmetry      == Permutations(Tasks) \union Permutations(Questions)
=============================================================================
