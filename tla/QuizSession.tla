---------------------------- MODULE QuizSession ----------------------------
(* The learner's side of the daily quiz (ui/src/features/quiz: run.ts,        *)
(* TodayPage, PlayPage, ResultPage; api/hooks.ts) over the server of QuizSets. *)
(*                                                                            *)
(* A page fetches today's set when it is mounted (TanStack Query, as main.tsx *)
(* sets it up: nothing stays fresh, one retry) and shows the last answer it   *)
(* has meanwhile, or the error once a fetch has failed for good.  A run       *)
(* through a set is kept in sessionStorage under the set's id.                *)
EXTENDS QuizSets

CONSTANT NoWorker

ASSUME SessionAssumption == NoWorker \notin Workers

VARIABLES
    page,       \* "today", "play", or the result page of an attempt that "passed" or "failed"
    fetch,      \* the fetch of today's set: the worker that serves it, the tries it has left
    failed,     \* today.isError: the last fetch that ended has failed
    shown,      \* today.data.quiz_set: a set, with whether it was passed; or NoSet
    saved,      \* sessionStorage: what is left to answer of each run
    sending,    \* the attempt the play page waits for: the worker that serves it
    left,       \* the workers that serve attempts of play pages that are gone
    refused     \* the play page shows "Couldn't save your answers"

query       == <<fetch, failed>>
sends       == <<sending, left, refused>>
session     == <<page, query, shown, saved, sends>>
sessionVars == <<vars, session>>

NoSet   == [id |-> 0, passed |-> FALSE]
NoSend  == [by |-> NoWorker, passed |-> FALSE]
Quiet   == [by |-> NoWorker, tries |-> 0]
Wanted  == [by |-> NoWorker, tries |-> 2]
Nothing == UNCHANGED session

SessionInit ==
    /\ Init
    /\ page = "today" /\ fetch = Wanted /\ failed = FALSE /\ shown = NoSet /\ saved = {}
    /\ sending = NoSend /\ left = {} /\ refused = FALSE

\* Play goes: nobody waits for its attempt any more, whose error it showed.
Unmount ==
    /\ sending' = NoSend /\ refused' = FALSE
    /\ left' = IF sending = NoSend THEN left ELSE left \union {sending.by}

\* Mutant: an answer once fetched is good for ever (staleTime: Infinity).
Mount_Cached(p) == page' = p /\ Unmount /\ UNCHANGED fetch

\* A fetch that is under way is shared.
Mount(p) == page' = p /\ Unmount /\ fetch' = IF fetch = Quiet THEN Wanted ELSE fetch

RunOf(id)     == {r \in saved : r.set = id}
NewRun(s)     == [set |-> s.id, left |-> s.asks]
WithRun(r)    == {x \in saved : x.set # r.set} \union {r}
Current       == CHOOSE s \in sets : s.id = shown.id
StillThere    == \E s \in sets : s.id = shown.id

-----------------------------------------------------------------------------
(* useToday.                                                                  *)

Fetch(w) ==
    /\ fetch.by = NoWorker /\ fetch.tries > 0
    /\ LoadStale(w)
    /\ fetch' = [by |-> w, tries |-> fetch.tries - 1]
    /\ UNCHANGED <<failed, page, shown, saved, sends, served>>

\* A play page that gets another set starts again with that one (key={quizSet.id});
\* one that gets none goes back, and the page it goes to fetches once more.
Show(found) ==
    /\ failed' = FALSE
    /\ shown' = IF found = {} THEN NoSet
                ELSE LET s == CHOOSE s \in found : TRUE
                     IN  [id |-> s.id, asks |-> s.asks, passed |-> Passed(s)]
    /\ IF page # "play" \/ shown'.id = shown.id THEN fetch' = Quiet /\ UNCHANGED <<page, saved, sends>>
       ELSE /\ Unmount
            /\ page' = IF found = {} THEN "today" ELSE "play"
            /\ fetch' = IF found = {} THEN Wanted ELSE Quiet
            /\ saved' = IF found = {} \/ RunOf(shown'.id) # {} THEN saved ELSE WithRun(NewRun(shown'))

\* After the second try that fails the page shows the error instead of the quiz.
FetchFails ==
    /\ fetch' = [fetch EXCEPT !.by = NoWorker]
    /\ IF fetch.tries > 0 THEN UNCHANGED <<failed, sends>> ELSE failed' = TRUE /\ Unmount
    /\ UNCHANGED <<page, shown, saved>>

Fetched(w) ==
    /\ w = fetch.by
    /\ \/ ReadCurrent(w)
          /\ IF On(req[w].day) = {} THEN Nothing ELSE Show(On(req[w].day))
       \/ BuildToday(w)
          /\ IF Conflict(sets, scope, req[w].day) THEN FetchFails
             ELSE Show(IF scope = {} THEN Unfinished(req[w].day) ELSE sets' \ sets)

-----------------------------------------------------------------------------
(* TodayPage and ResultPage.                                                  *)

\* Start quiz, Try again or Resume quiz: a saved run is taken up again.
Start ==
    /\ page = "today" /\ shown # NoSet /\ ~failed
    /\ RunOf(shown.id) # {} \/ ~shown.passed
    /\ Mount("play")
    /\ saved' = IF RunOf(shown.id) # {} THEN saved ELSE WithRun(NewRun(shown))
    /\ UNCHANGED <<vars, failed, shown>>

\* The result page has its try again whether or not a fetch has failed.
TryAgain ==
    /\ page = "failed" /\ shown # NoSet
    /\ Mount("play") /\ saved' = WithRun(NewRun(shown))
    /\ UNCHANGED <<vars, failed, shown>>

\* What a learner does for no reason counts against the bound on requests.
Idly == served < MaxRequests /\ served' = served + 1

\* The link in the corner of the play page, or back to today after a result.
Leave ==
    /\ page # "today"
    /\ IF refused \/ page # "play" THEN UNCHANGED served ELSE Idly
    /\ Mount("today")
    /\ UNCHANGED <<today, scope, quizVars, prefs, dayVars, history, req, kills, failed, shown, saved>>

\* The button under the error: refetch() gives up a fetch that is under way.
Retry ==
    /\ failed /\ page \in {"today", "play"} /\ fetch # Wanted
    /\ IF fetch = Quiet THEN UNCHANGED served ELSE Idly
    /\ fetch' = Wanted
    /\ UNCHANGED <<today, scope, quizVars, prefs, dayVars, history, req, kills,
                   failed, page, shown, saved, sends>>

-----------------------------------------------------------------------------
(* PlayPage, which shows the error instead of the quiz after a failed fetch.   *)

Playing == page = "play" /\ ~failed

Choose ==
    /\ Playing
    /\ \E r \in RunOf(shown.id), q \in Questions :
          q \in r.left /\ saved' = WithRun([r EXCEPT !.left = @ \ {q}])
    /\ UNCHANGED <<vars, page, query, shown, sends>>

Finished == Playing /\ \E r \in RunOf(shown.id) : r.left = {}

\* See results.  The server answers 404 when the set is gone.
Submit(w) ==
    /\ Finished /\ sending = NoSend
    /\ \/ StillThere /\ LoadSet(w, Current) /\ sending' = [by |-> w, passed |-> req'[w].passed] /\ refused' = FALSE
       \/ ~StillThere /\ ~refused /\ refused' = TRUE /\ UNCHANGED <<vars, sending>>
    /\ UNCHANGED <<page, query, shown, saved, left, served>>

\* useSubmitAttempt's onSuccess: fetch today's set again, whatever is under way.
Invalidate == fetch' = Wanted /\ UNCHANGED failed

\* The play page's own onSuccess: clear the run and show the result.
Succeed ==
    /\ Invalidate
    /\ page' = IF sending.passed THEN "passed" ELSE "failed"
    /\ saved' = {r \in saved : r.set # shown.id}
    /\ sending' = NoSend /\ UNCHANGED <<shown, left, refused>>

Reject == sending' = NoSend /\ refused' = TRUE /\ UNCHANGED <<page, query, shown, saved, left>>

Forget(w) == left' = left \ {w} /\ UNCHANGED <<page, shown, saved, sending, refused>>

Answered200(w) == Refresh(w) \/ (InsertRow(w) /\ ~rows[req[w].day].there)
Answered500(w) == (InsertAttempt(w) /\ req'[w] = Idle) \/ (InsertRow(w) /\ rows[req[w].day].there)

\* The steps of an attempt, whether or not its page is still there to hear of it.
Attempt(w) ==
    \/ Answered200(w) /\ IF w = sending.by THEN Succeed
                         ELSE Invalidate /\ Forget(w)
    \/ Answered500(w) /\ IF w = sending.by THEN Reject ELSE Forget(w) /\ UNCHANGED query
    \/ (ReadNoRow(w) \/ (InsertAttempt(w) /\ req'[w] # Idle)) /\ Nothing

\* The steps of a worker, with what the page makes of its answer.
Step(w) ==
    /\ UNCHANGED served
    /\ \/ w \notin {fetch.by, sending.by} \union left /\ Serve(w) /\ Nothing
       \/ w = fetch.by /\ ReleaseStale(w) /\ Nothing
       \/ Fetched(w)
       \/ w \in {sending.by} \union left /\ Attempt(w)

Killed(w) ==
    /\ Kill(w) /\ UNCHANGED served
    /\ \/ w = fetch.by /\ FetchFails
       \/ w = sending.by /\ Reject
       \/ w \in left /\ Forget(w) /\ UNCHANGED query
       \/ w \notin {fetch.by, sending.by} \union left /\ Nothing

Learner == Start \/ TryAgain \/ Leave \/ Retry \/ Choose \/ \E w \in Workers : Fetch(w) \/ Submit(w)

SessionNext ==
    \/ Learner
    \/ \E w \in Workers : Step(w) \/ Killed(w)
    \/ Midnight /\ UNCHANGED served /\ Nothing
    \/ Idly /\ (\E w \in Workers : Ask(w)) /\ Nothing

SessionSpec == SessionInit /\ [][SessionNext]_sessionVars

\* A learner goes on: answers and submits, starts, comes back after a refusal and
\* retries after an error.
Persist ==
    \/ Start \/ Choose \/ (\E w \in Workers : Submit(w))
    \/ (refused /\ Leave) \/ (fetch = Quiet /\ Retry)

\* Workers finish what they serve, pages fetch, and a learner goes on.
FairSession ==
    /\ SessionSpec
    /\ \A w \in Workers : WF_sessionVars(Step(w))
    /\ WF_sessionVars(\E w \in Workers : Fetch(w))
    /\ WF_sessionVars(Persist)

-----------------------------------------------------------------------------
(* Properties.                                                                *)

\* Whoever sees a result finds the answers in the tracker: the day's row counts
\* the questions of an attempt that is on record (record_attempt refreshes the
\* day before it answers).  The one exception is an attempt that was recorded while
\* its set was being released, and is gone with it before the result is shown.
ResultIsCredited ==
    [][page = "play" /\ page' \in {"passed", "failed"}
        => \/ \E a \in attempts' : a.set = shown.id /\ rows'[a.at].answered >= Cardinality(a.asked)
           \/ \E a \in Lost' \ settled' : a.set = shown.id]_sessionVars

\* A learner who plays gets a result, or there is nothing left to play: no answer
\* that is lost, refused or overtaken by midnight, and no error that takes the place
\* of the quiz while an attempt is under way, leaves the page stuck.
LearnerFinishes == page = "play" ~> (page \in {"passed", "failed"} \/ shown = NoSet \/ shown.passed)
=============================================================================
