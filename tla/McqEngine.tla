------------------------------ MODULE McqEngine ------------------------------
(* The quiz step engine (pipeline/kl/engine.py): a draft, a fresh reviewer's     *)
(* critique, revisions while rounds are left, and what is kept at the end.       *)
EXTENDS StepEngine

CONSTANTS
    Questions,      \* questions (by stem) a writer may come up with
    PerChunk,       \* questions_per_chunk
    MaxRounds       \* 1 + max_revisions

\* verdict is what review_log says of each question last, "none" if no reviewer did.
NewQuiz   == [round |-> 0, draft |-> {}, accepted |-> {}, verdict |-> [q \in Questions |-> "none"]]
BegunQuiz == [NewQuiz EXCEPT !.round = 1]

ASSUME McqEngineAssumption ==
    /\ IsFiniteSet(Questions) /\ PerChunk \in Nat \ {0} /\ MaxRounds \in Nat \ {0}
    /\ NewWork = NewQuiz /\ BegunWork = BegunQuiz /\ FirstStage = "write"

\* _check_draft: exactly the questions still needed, none repeating an approved one.
ValidDraft(w, qs) ==
    /\ Cardinality(qs) = PerChunk - Cardinality(w.accepted)
    /\ qs \intersect w.accepted = {}

SubmitDraft(qs) ==
    /\ AtStage("write") /\ ValidDraft(disk.work, qs)
    /\ Enter([disk EXCEPT !.work.draft = qs], "critique", "beat")

\* Mutant: a question the critic skipped counts as one needing polish.
Polish_Skipped(flagged, reviewed, critique) ==
    {q \in flagged : q \notin reviewed \/ critique[q] = "revise"}

\* Out of rounds: questions needing only polish are kept; wrong ones, and those the
\* critic skipped, are dropped.
Polish(flagged, reviewed, critique) == {q \in flagged \intersect reviewed : critique[q] = "revise"}

\* Mutant: one revision too many.
RoundsLeft_OneMore(w) == w.round <= MaxRounds

RoundsLeft(w) == w.round < MaxRounds

\* _complete: what is kept goes to the server, the file is left for _done.
Publish(s) == Go("complete", s) /\ Local /\ UNCHANGED disk

\* A critique of some of the draft's questions.
SubmitCritique(reviewed, critique) ==
    LET w       == disk.work
        good    == {q \in reviewed : critique[q] = "approve"}
        flagged == w.draft \ good
        n       == [w EXCEPT !.accepted = @ \union good, !.draft = {},
                             !.verdict = [q \in Questions |-> IF q \in reviewed THEN critique[q] ELSE @[q]]]
    IN  /\ AtStage("critique") /\ reviewed \subseteq w.draft
        /\ IF flagged # {} /\ RoundsLeft(w)
           THEN Enter([disk EXCEPT !.work = [n EXCEPT !.round = @ + 1]], "write", "first beat")
           ELSE Publish([disk EXCEPT !.work = n, !.keep = n.accepted \union Polish(flagged, reviewed, critique)])

FollowNext ==
    \/ SubmitNotes
    \/ \E qs \in SUBSET Questions : SubmitDraft(qs)
    \/ \E reviewed \in SUBSET disk.work.draft :
         \E critique \in [reviewed -> {"approve", "revise", "reject"}] : SubmitCritique(reviewed, critique)
    \/ \E stage \in {"read", "write", "critique"} : Invalid(stage)

Next == Command \/ FollowNext \/ Proceed \/ Crash \/ Around

Spec == Init /\ [][Next]_vars

-----------------------------------------------------------------------------

Work  == [round : 0..MaxRounds, draft : SUBSET Questions, accepted : SUBSET Questions,
          verdict : [Questions -> {"none", "approve", "revise", "reject"}]]
State == [run : OwnRuns \union {NoRun}, task : Tasks \union {NoTask},
          stage : {"none", "read", "write", "critique"}, invalid : 0..(MaxInvalid + faults),
          seen : {"unread", "read", "unreadable"}, paged : BOOLEAN, keep : SUBSET Questions, work : Work]

\* The file and the copy in memory keep their shape, rounds within the budget; between
\* commands there is no copy.
TypeOK ==
    /\ disk \in State /\ st \in State
    /\ disk.keep = {} /\ (pc = "idle" => st = NoState)

Judged(verdict) == {q \in Questions : st.work.verdict[q] = verdict}

\* "nothing unreviewed is published", "wrong or ungrounded ones dropped" (engine.py):
\* what lands for a task is every question a reviewer approved and besides only ones
\* found to need polish, at most questions_per_chunk of them.
StoresWhatReviewAllows ==
    [][pc = "complete" /\ pc' = "book" /\ stored' # stored =>
         /\ Judged("approve") \subseteq stored'[st.task]
         /\ stored'[st.task] \subseteq Judged("approve") \union Judged("revise")
         /\ Cardinality(stored'[st.task]) <= PerChunk]_vars
=============================================================================
