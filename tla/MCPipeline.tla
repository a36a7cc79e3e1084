----------------------------- MODULE MCPipeline -----------------------------
(* Small instances of Pipeline for TLC.                                        *)
EXTENDS PipelineLedger, TLC

TwoQuizRuns  == <<"quiz", "quiz">>
QuizzesAndReel == <<"quiz", "quiz", "reel">>
OneReelRun   == <<"reel">>
NoCaps       == [k \in Kinds |-> 0]
OneItem      == [k \in Kinds |-> 1]
WorkerSymmetry == Permutations(Workers)
=============================================================================
