----------------------------- MODULE MCPlanner -----------------------------
(* Small instances of Planner for TLC.                                         *)
EXTENDS Planner

QuizAndReel == [r \in Claimers |-> IF r = "r1" THEN "reel" ELSE "quiz"]
TwoPages    == [d \in Docs |-> 2]
LongAndShort == [d \in Docs |-> IF d = 1 THEN 2 ELSE 1]
=============================================================================
